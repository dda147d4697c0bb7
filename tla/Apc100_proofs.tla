--------------------------- MODULE Apc100_proofs ---------------------------
(***************************************************************************)
(* Theorems about Apc100 for any set of applications and any bounds.       *)
(***************************************************************************)
EXTENDS Apc100, TLAPS

Idle == asked = <<>> /\ sending = <<>> /\ line = <<>>

-----------------------------------------------------------------------------
(* Who runs, and the types the arguments below need. *)

Typed ==
    /\ handle \in {"none", "open", "cancelled"}
    /\ mutex \in Threads \cup {"free"}
    /\ pc \in [Threads -> Steps]
    /\ \A t \in Apps : pc[t] \in {"off", "lock", "write", "read"}
    /\ asked \in Seq(Threads) /\ asker \in Threads
    /\ sending \in Seq(Int) /\ line \in Seq(Int)
    /\ people \in Nat /\ last \in Int /\ got \in Int /\ told.in \in Int

(* Only the polling thread is left when cleanup cancels it. *)
OnlyPollLeft == handle = "cancelled" => \A t \in Apps : pc[t] = "off"

RunInv == Typed /\ OnlyPollLeft /\ NothingAfterCleanup

LEMMA RunInit == Init => RunInv
BY BoundsAssumption DEF Init, RunInv, Typed, OnlyPollLeft,
   NothingAfterCleanup, Threads, Steps, NoCall

(* What a failed read leaves on the line. *)
LEMMA ReadLeaves ==
    ASSUME NEW S, line \in Seq(S), NEW t \in Threads, ReadFails(t)
    PROVE  line' \in Seq(S)
<1>1. PICK k \in 0 .. Length - 1 :
         k <= Len(line) /\ line' = SubSeq(line, k + 1, Len(line))
  BY DEF ReadFails
<1>2. k \in 0 .. 1 /\ Len(line) \in Nat
  BY <1>1 DEF Length
<1>3. \A i \in k + 1 .. Len(line) : i \in 1 .. Len(line)
  BY <1>2
<1>4. SubSeq(line, k + 1, Len(line)) \in Seq(S)
  BY <1>2, <1>3
<1> QED
  BY <1>1, <1>4

LEMMA RunStep == RunInv /\ [Next]_vars => RunInv'
<1> SUFFICES ASSUME RunInv, [Next]_vars PROVE RunInv'
  OBVIOUS
<1> USE ThreadsAssumption, BoundsAssumption
    DEF RunInv, Typed, OnlyPollLeft, NothingAfterCleanup, Threads, Steps,
        Goes, driver, wire, tally
<1>1. CASE Open
  BY <1>1 DEF Open, NoCall
<1>2. CASE InTrigger \/ InTriggerArg
  BY <1>2 DEF InTrigger, InTriggerArg
<1>3. CASE Cleanup \/ Joined
  BY <1>3 DEF Cleanup, Joined
<1>4. ASSUME NEW t \in Apps, Ask(t) PROVE RunInv'
  BY <1>4 DEF Ask
<1>5. ASSUME NEW t \in Threads, Exchange(t) PROVE RunInv'
  <2>1. CASE Lock(t)
    BY <2>1 DEF Lock, GoesOn
  <2>2. CASE Write(t)
    BY <2>2 DEF Write, GoesOn
  <2>3. CASE WriteFails(t)
    BY <2>3 DEF WriteFails, GoesOn, After
  <2>4. CASE Read(t)
    <3>1. line[2] \in Int
      <4>1. line \in Seq(Int) /\ Len(line) = 2
        BY <2>4 DEF Read, Length
      <4> HIDE DEF Typed
      <4> QED
        BY <4>1
    <3>2. got' \in Int /\ line' \in Seq(Int)
      BY <2>4, <3>1 DEF Read
    <3>3. UNCHANGED <<handle, asked, sending, people, asker, last, told>>
      BY <2>4 DEF Read
    <3>4. mutex' = "free" /\ pc[t] = "read"
             /\ pc' = [pc EXCEPT ![t] = IF t # Poll THEN "off" ELSE "compare"]
      BY <2>4 DEF Read, After
    <3> QED
      BY <3>2, <3>3, <3>4
  <2>5. CASE ReadTooMuch(t)
    <3>1. line' \in Seq(Int)
      BY <2>5 DEF ReadTooMuch, Length
    <3> QED
      BY <2>5, <3>1 DEF ReadTooMuch, After
  <2> QED
    BY <1>5, <2>1, <2>2, <2>3, <2>4, <2>5 DEF Exchange
<1>f. ASSUME NEW t \in Threads, ReadFails(t) PROVE RunInv'
  <2>1. line' \in Seq(Int)
    BY <1>f, ReadLeaves
  <2> QED
    BY <1>f, <2>1 DEF ReadFails, After
<1>6. CASE Compare \/ Call \/ Cancel
  <2>1. CASE Compare
    BY <2>1 DEF Compare
  <2>2. CASE Call
    BY <2>2 DEF Call, Report
  <2>3. CASE Cancel
    BY <2>3 DEF Cancel
  <2> QED
    BY <1>6, <2>1, <2>2, <2>3
<1>7. CASE Answers
  <2>1. asked' \in Seq(Threads) /\ asker' \in Threads
    BY <1>7 DEF Answers
  <2>2. sending' \in Seq(Int)
    BY <1>7 DEF Answers, Header
  <2> QED
    BY <1>7, <2>1, <2>2 DEF Answers
<1>8. CASE Arrives \/ LosesOne \/ Disturbs
  <2>1. sending' \in Seq(Int) /\ line' \in Seq(Int)
    <3>1. sending # <<>>
              => Head(sending) \in Int /\ Tail(sending) \in Seq(Int)
      OBVIOUS
    <3>2. Noise \in Int
      BY DEF Noise
    <3>3. CASE Arrives
      BY <3>1, <3>3 DEF Arrives
    <3>4. CASE LosesOne
      BY <3>1, <3>4 DEF LosesOne
    <3>5. CASE Disturbs
      BY <3>2, <3>5 DEF Disturbs
    <3> QED
      BY <1>8, <3>3, <3>4, <3>5
  <2> QED
    BY <1>8, <2>1 DEF Arrives, LosesOne, Disturbs
<1>9. CASE Passes
  BY <1>9 DEF Passes
<1>10. CASE UNCHANGED vars
  BY <1>10 DEF vars
<1> QED
  BY <1>1, <1>2, <1>3, <1>4, <1>5, <1>6, <1>7, <1>8, <1>9, <1>10, <1>f
     DEF Next, Polling, Counter

(* Once apc100_cleanup has returned no thread runs: the struct it frees    *)
(* and the line it closes are used by nobody (apc100.c:99-103, 208-219).   *)
THEOREM NothingAfter == Spec => []NothingAfterCleanup
<1>1. RunInv => NothingAfterCleanup
  BY DEF RunInv
<1> QED
  BY RunInit, RunStep, <1>1, PTL DEF Spec

-----------------------------------------------------------------------------
(* A trigger and its argument agree outside apc100_in_trigger, and the     *)
(* polling thread has tested the present trigger unless it was replaced.   *)
CallInv ==
    /\ ~setting => arg = cb
    /\ pc[Poll] = "call" /\ quiet => fn = cb
    /\ CallsWhole

LEMMA CallStep == RunInv /\ CallInv /\ [Next]_vars => CallInv'
<1> SUFFICES ASSUME RunInv, CallInv, [Next]_vars PROVE CallInv'
  OBVIOUS
<1>0. pc \in [Threads -> Steps] /\ Poll \in Threads /\ Poll \notin Apps
  BY ThreadsAssumption DEF RunInv, Typed, Threads
<1> USE <1>0 DEF CallInv, CallsWhole, Goes, driver, wire, tally
<1>1. CASE Open
  BY <1>1 DEF Open, NoCall
<1>2. CASE InTrigger \/ InTriggerArg
  <2>1. CASE InTrigger
    <3>1. setting' /\ (quiet' => pc[Poll] # "call") /\ pc' = pc /\ told' = told
      BY <2>1 DEF InTrigger
    <3> QED
      BY <3>1
  <2>2. CASE InTriggerArg
    BY <2>2 DEF InTriggerArg
  <2> QED
    BY <1>2, <2>1, <2>2
<1>3. CASE Cleanup \/ Joined \/ Passes \/ UNCHANGED vars
  BY <1>3 DEF Cleanup, Joined, Passes, vars
<1>4. ASSUME NEW t \in Apps, Ask(t) PROVE CallInv'
  BY <1>4 DEF Ask, Threads
<1>5. ASSUME NEW t \in Threads, Exchange(t) PROVE CallInv'
  BY <1>5 DEF Exchange, Lock, Write, WriteFails, Read, ReadTooMuch, After
<1>f. ASSUME NEW t \in Threads, ReadFails(t) PROVE CallInv'
  BY <1>f DEF ReadFails, After
<1>6. CASE Compare
  BY <1>6 DEF Compare
<1>7. CASE Call
  <2>1. PICK f \in {fn, cb} : told' = Report(f)
    BY <1>7 DEF Call
  <2>2. told'.cb = f /\ told'.arg = arg /\ (told'.quiet => quiet /\ ~setting)
    BY <2>1 DEF Report
  <2>3. /\ pc[Poll] = "call" /\ pc'[Poll] = "lock"
        /\ UNCHANGED <<arg, cb, setting>>
    BY <1>7 DEF Call
  <2> QED
    BY <2>2, <2>3
<1>8. CASE Cancel
  BY <1>8 DEF Cancel
<1>9. CASE Answers \/ Arrives \/ LosesOne \/ Disturbs
  BY <1>9 DEF Answers, Arrives, LosesOne, Disturbs
<1> QED
  BY <1>1, <1>2, <1>3, <1>4, <1>5, <1>6, <1>7, <1>8, <1>9, <1>f
     DEF Next, Polling, Counter, Threads

(* A trigger gets the argument it was installed with, unless it was being  *)
(* installed between the test of cb_in and the call (apc100.c:85, 156).    *)
THEOREM WholeCalls == Spec => []CallsWhole
<1>1. Init => CallInv
  BY DEF Init, CallInv, CallsWhole, NoCall, Threads
<1>2. CallInv => CallsWhole
  BY DEF CallInv
<1> QED
  BY RunInit, RunStep, CallStep, <1>1, <1>2, PTL DEF Spec

-----------------------------------------------------------------------------
(* The mutex serialises the exchanges, so on a clean line there is at most *)
(* one response, of the thread that waits for it; and the counts it brings *)
(* to the polling thread are between those it kept and the counter's.      *)
Turn == \A t \in Threads : pc[t] \in {"write", "read"} => mutex = t

Coming(t, n) ==
    /\ asked = <<>> /\ asker = t
    /\ n <= people /\ (t = Poll => last <= n)
    /\ \/ sending = <<Header, n>> /\ line = <<>>
       \/ sending = <<n>> /\ line = <<Header>>
       \/ sending = <<>> /\ line = <<Header, n>>

Awaits(t) ==
    \/ asked = <<t>> /\ sending = <<>> /\ line = <<>>
    \/ \E n \in Int : Coming(t, n)

Counted ==
    /\ told.in <= last /\ last <= people
    /\ pc[Poll] \in {"compare", "call"} => last <= got /\ got <= people
    /\ pc[Poll] = "call" => last # got

CleanLine ==
    /\ Counted
    /\ (\A t \in Threads : pc[t] # "read") => Idle
    /\ \A t \in Threads : pc[t] = "read" => Awaits(t)

LineInv == Turn /\ (clean => CleanLine) /\ OwnResponse /\ ReportsRise

(* Two characters on the line, one after the other. *)
LEMMA AppendSecond ==
    ASSUME NEW h \in Int, NEW n \in Int
    PROVE  Append(<<h>>, n) = <<h, n>>
<1> DEFINE s == Append(<<h>>, n)
           u == <<h, n>>
<1>1. s \in Seq(Int) /\ Len(s) = 2 /\ s[1] = h /\ s[2] = n
  OBVIOUS
<1>2. u \in Seq(Int) /\ Len(u) = 2 /\ u[1] = h /\ u[2] = n
  OBVIOUS
<1>3. \A i \in 1 .. 2 : s[i] = u[i]
  BY <1>1, <1>2
<1> HIDE DEF s, u
<1>4. /\ DOMAIN s = 1 .. 2 /\ s = [i \in DOMAIN s |-> s[i]]
      /\ DOMAIN u = 1 .. 2 /\ u = [i \in DOMAIN u |-> u[i]]
  BY <1>1, <1>2
<1>5. s = u
  BY <1>3, <1>4
<1> QED
  BY <1>5 DEF s, u

(* The response moves to the line character by character. *)
LEMMA OneByOne ==
    ASSUME NEW h \in Int, NEW n \in Int
    PROVE  /\ <<h, n>> # <<>> /\ Head(<<h, n>>) = h /\ Tail(<<h, n>>) = <<n>>
           /\ <<n>> # <<>> /\ Head(<<n>>) = n /\ Tail(<<n>>) = <<>>
           /\ Append(<<>>, h) = <<h>> /\ Append(<<h>>, n) = <<h, n>>
           /\ Len(<<h, n>>) = 2 /\ Len(<<h>>) = 1
<1>1. /\ Head(<<h, n>>) = h /\ Tail(<<h, n>>) = <<n>>
      /\ Head(<<n>>) = n /\ Tail(<<n>>) = <<>>
  OBVIOUS
<1>2. <<h, n>> # <<>> /\ <<n>> # <<>> /\ Append(<<>>, h) = <<h>>
  OBVIOUS
<1>3. Len(<<h, n>>) = 2 /\ Len(<<h>>) = 1
  OBVIOUS
<1> QED
  BY <1>1, <1>2, <1>3, AppendSecond, Zenon

(* The mutex passes from thread to thread. *)
LEMMA TurnStep == RunInv /\ Turn /\ [Next]_vars => Turn'
<1> SUFFICES ASSUME RunInv, Turn, [Next]_vars PROVE Turn'
  OBVIOUS
<1> USE ThreadsAssumption
    DEF RunInv, Typed, NothingAfterCleanup, Turn, Threads, Goes, driver,
        wire, tally
<1>1. CASE Open \/ InTrigger \/ InTriggerArg \/ Cleanup \/ Joined
  BY <1>1 DEF Open, InTrigger, InTriggerArg, Cleanup, Joined
<1>2. ASSUME NEW t \in Apps, Ask(t) PROVE Turn'
  BY <1>2 DEF Ask
<1>3. ASSUME NEW t \in Threads, Exchange(t) PROVE Turn'
  BY <1>3 DEF Exchange, Lock, Write, WriteFails, Read, ReadTooMuch, After
<1>f. ASSUME NEW t \in Threads, ReadFails(t) PROVE Turn'
  BY <1>f DEF ReadFails, After
<1>4. CASE Compare \/ Call \/ Cancel
  BY <1>4 DEF Compare, Call, Cancel
<1>5. CASE Answers \/ Arrives \/ LosesOne \/ Disturbs \/ Passes
  BY <1>5 DEF Answers, Arrives, LosesOne, Disturbs, Passes
<1>6. CASE UNCHANGED vars
  BY <1>6 DEF vars
<1> QED
  BY <1>1, <1>2, <1>3, <1>4, <1>5, <1>6, <1>f
     DEF Next, Polling, Counter

LEMMA LineStep == RunInv /\ LineInv /\ [Next]_vars => LineInv'
<1> SUFFICES ASSUME RunInv, LineInv, [Next]_vars PROVE LineInv'
  OBVIOUS
<1>0. Turn'
  BY TurnStep DEF LineInv
<1>t. /\ pc \in [Threads -> Steps] /\ Poll \in Threads /\ Poll \notin Apps
      /\ \A t \in Apps : pc[t] \in {"off", "lock", "write", "read"}
      /\ people \in Nat /\ last \in Int /\ got \in Int /\ told.in \in Int
      /\ asked \in Seq(Threads) /\ sending \in Seq(Int) /\ line \in Seq(Int)
  BY ThreadsAssumption DEF RunInv, Typed, Threads
<1> USE <1>0, <1>t DEF LineInv, OwnResponse, ReportsRise
(* Steps after which the line, the counts and who waits are as before. *)
<1>s. ASSUME UNCHANGED <<asked, asker, sending, line, people, last, got, told,
                         clean, failed, fell>>,
             \A t \in Threads : pc'[t] = "read" <=> pc[t] = "read",
             pc'[Poll] \in {"compare", "call"} => pc'[Poll] = pc[Poll]
      PROVE  LineInv'
  BY <1>s DEF CleanLine, Counted, Awaits, Coming, Idle
<1>1. CASE Open
  <2>1. \A t \in Threads : pc[t] = "off" /\ pc'[t] # "read"
    BY <1>1 DEF Open, Goes, RunInv, NothingAfterCleanup
  <2>2. pc'[Poll] = "lock"
    BY <1>1 DEF Open, Goes
  <2> QED
    BY <1>1, <2>1, <2>2 DEF Open, NoCall, CleanLine, Counted, Idle
<1>2. CASE InTrigger \/ InTriggerArg \/ Cleanup \/ Joined \/ UNCHANGED vars
  BY <1>s, <1>2 DEF InTrigger, InTriggerArg, Cleanup, Joined, vars, driver,
        wire
<1>3. ASSUME NEW t \in Apps, Ask(t) PROVE LineInv'
  BY <1>s, <1>3 DEF Ask, Goes, driver, wire, Threads
<1>4. ASSUME NEW t \in Threads, Exchange(t) PROVE LineInv'
  <2>1. CASE Lock(t)
    BY <1>s, <2>1 DEF Lock, Goes, wire
  <2>2. CASE Write(t)
    <3>1. clean => Idle
      BY <2>2 DEF Write, Turn, CleanLine
    <3>2. \A u \in Threads : pc'[u] = "read" => u = t
      BY <2>2 DEF Write, Goes, Turn
    <3>3. pc'[t] = "read" /\ (pc'[Poll] = pc[Poll] \/ pc'[Poll] = "read")
      BY <2>2 DEF Write, Goes
    <3>4. clean => asked' = <<t>> /\ sending' = <<>> /\ line' = <<>>
      BY <2>2, <3>1 DEF Write, Idle
    <3> QED
      BY <2>2, <3>2, <3>3, <3>4 DEF Write, CleanLine, Counted, Awaits, driver
  <2>3. CASE WriteFails(t)
    BY <1>s, <2>3 DEF WriteFails, After, Goes, wire
  <2>4. CASE Read(t)
    <3>1. ASSUME clean
          PROVE  \E n \in Int :
                    /\ Coming(t, n) /\ sending = <<>> /\ line = <<Header, n>>
      <4>1. Awaits(t) /\ Len(line) = 2
        BY <2>4, <3>1 DEF Read, CleanLine, Length
      <4>2. PICK n \in Int : Coming(t, n)
        BY <4>1 DEF Awaits
      <4>3. sending = <<>> /\ line = <<Header, n>>
        BY <4>1, <4>2, SMTT(20) DEF Coming
      <4> QED
        BY <4>2, <4>3
    <3>2. \A u \in Threads : pc'[u] # "read"
      BY <2>4 DEF Read, After, Goes, Turn
    <3>3. pc'[Poll] = IF t = Poll THEN "compare" ELSE pc[Poll]
      BY <2>4 DEF Read, After, Goes
    <3>4. CASE clean
      <4>1. PICK n \in Int :
               Coming(t, n) /\ sending = <<>> /\ line = <<Header, n>>
        BY <3>1, <3>4
      <4>2. Idle' /\ ~failed' /\ ~fell'
        BY <2>4, <4>1 DEF Read, Coming, Idle
      <4>3. got' = IF t = Poll THEN n ELSE got
        BY <2>4, <4>1 DEF Read
      <4>4. Counted'
        BY <2>4, <3>3, <3>4, <4>1, <4>3 DEF Read, CleanLine, Counted, Coming
      <4> QED
        BY <3>2, <4>2, <4>4 DEF CleanLine
    <3> QED
      BY <2>4, <3>4 DEF Read
  <2>5. CASE ReadTooMuch(t)
    <3>1. /\ pc[t] = "read"
          /\ Len(line) # 0 /\ Len(line) # 1 /\ Len(line) # 2
      <4> DEFINE k == Len(line)
      <4>1. pc[t] = "read" /\ k > 2 /\ k \in Nat
        BY <2>5 DEF ReadTooMuch, Length
      <4> HIDE DEF k
      <4>2. k # 0 /\ k # 1 /\ k # 2
        BY <4>1
      <4> QED
        BY <4>1, <4>2, Zenon DEF k
    <3>2. ASSUME Awaits(t) PROVE FALSE
      <4>1. CASE line = <<>>
        BY <3>1, <4>1
      <4>2. ASSUME NEW n \in Int, Coming(t, n) PROVE FALSE
        <5>1. line = <<>> \/ line = <<Header>> \/ line = <<Header, n>>
          BY <4>2 DEF Coming
        <5>2. Len(<<>>) = 0 /\ Len(<<Header>>) = 1 /\ Len(<<Header, n>>) = 2
          OBVIOUS
        <5> QED
          BY <3>1, <5>1, <5>2, Zenon
      <4> QED
        BY <3>2, <4>1, <4>2 DEF Awaits
    <3>3. ~clean
      BY <3>1, <3>2 DEF CleanLine
    <3> QED
      BY <2>5, <3>3 DEF ReadTooMuch
  <2> QED
    BY <1>4, <2>1, <2>2, <2>3, <2>4, <2>5 DEF Exchange
<1>f. ASSUME NEW t \in Threads, ReadFails(t) PROVE LineInv'
  <2>1. ~clean' /\ UNCHANGED <<failed, fell>>
    BY <1>f DEF ReadFails
  <2> QED
    BY <2>1
<1>5. CASE Compare
  <2>1. \A t \in Threads : pc'[t] = "read" <=> pc[t] = "read"
    BY <1>5 DEF Compare, Goes
  <2>2. pc[Poll] = "compare" /\ pc'[Poll] \in {"call", "lock"}
    BY <1>5 DEF Compare, Goes
  <2>3. clean => Counted'
    BY <1>5, <2>2 DEF Compare, Goes, CleanLine, Counted, wire
  <2> QED
    BY <1>5, <2>1, <2>2, <2>3
       DEF Compare, CleanLine, Awaits, Coming, Idle, wire
<1>6. CASE Call
  <2>1. \A t \in Threads : pc'[t] = "read" <=> pc[t] = "read"
    BY <1>6 DEF Call, Goes
  <2>2. pc[Poll] = "call" /\ pc'[Poll] = "lock" /\ told'.in = got
    BY <1>6 DEF Call, Goes, Report
  <2>3. clean => Counted' /\ ~(got <= told.in)
    BY <1>6, <2>2 DEF Call, CleanLine, Counted, wire
  <2> QED
    BY <1>6, <2>1, <2>2, <2>3
       DEF Call, CleanLine, Awaits, Coming, Idle, wire
<1>7. CASE Cancel
  <2>1. CASE pc[Poll] = "read"
    BY <1>7, <2>1 DEF Cancel
  <2>2. CASE pc[Poll] # "read"
    <3>1. \A t \in Threads : pc'[t] = "read" <=> pc[t] = "read"
      BY <1>7, <2>2 DEF Cancel, Goes
    <3> QED
      BY <1>s, <1>7, <2>2, <3>1 DEF Cancel, Goes, driver, wire
  <2> QED
    BY <2>1, <2>2
<1>8. CASE Answers
  <2>1. PICK u \in Threads : u = Head(asked)
    BY <1>8 DEF Answers
  <2>2. ASSUME clean, NEW t \in Threads, pc[t] = "read"
        PROVE  t = u /\ Coming(t, people)'
    BY <1>8, <2>1, <2>2 DEF Answers, CleanLine, Counted, Awaits, Coming, driver
  <2>3. clean => \E t \in Threads : pc[t] = "read"
    BY <1>8 DEF Answers, CleanLine, Idle
  <2> QED
    BY <1>8, <2>2, <2>3 DEF Answers, CleanLine, Counted, Awaits, driver
<1>9. CASE Arrives
  <2>1. ASSUME clean, NEW t \in Threads, pc[t] = "read"
        PROVE  Awaits(t)'
    <3>1. handle # "none"
      BY <2>1 DEF RunInv, NothingAfterCleanup
    <3>2. PICK n \in Int : Coming(t, n)
      BY <1>9, <2>1 DEF Arrives, CleanLine, Awaits
    <3>3. /\ sending # <<>>
          /\ line' = Append(line, Head(sending)) /\ sending' = Tail(sending)
          /\ UNCHANGED <<asked, asker, people, last>>
      BY <1>9, <3>1 DEF Arrives, driver
    <3>4. Header \in Int
      BY DEF Header
    <3>5. CASE sending = <<Header, n>> /\ line = <<>>
      <4>1. sending' = <<n>> /\ line' = <<Header>>
        BY <3>3, <3>4, <3>5, OneByOne, Zenon
      <4>2. Coming(t, n)'
        BY <3>2, <3>3, <4>1 DEF Coming
      <4> QED
        BY <4>2 DEF Awaits
    <3>6. CASE sending = <<n>> /\ line = <<Header>>
      <4>1. sending' = <<>> /\ line' = <<Header, n>>
        <5>1. Head(sending) = n /\ Tail(sending) = <<>>
          BY <3>4, <3>6, OneByOne, Zenon
        <5>2. Append(line, n) = <<Header, n>>
          BY <3>4, <3>6, AppendSecond, Zenon
        <5> QED
          BY <3>3, <5>1, <5>2, Zenon
      <4>2. /\ asked' = <<>> /\ asker' = t
            /\ n <= people' /\ (t = Poll => last' <= n)
        BY <3>2, <3>3 DEF Coming
      <4>3. Coming(t, n)'
        BY <4>1, <4>2, Zenon DEF Coming
      <4> QED
        BY <4>3 DEF Awaits
    <3> QED
      BY <3>2, <3>3, <3>5, <3>6, Zenon DEF Coming
  <2>2. clean => \E t \in Threads : pc[t] = "read"
    BY <1>9 DEF Arrives, CleanLine, Idle
  <2> QED
    BY <1>9, <2>1, <2>2 DEF Arrives, CleanLine, Counted, driver
<1>10. CASE LosesOne \/ Disturbs
  BY <1>10 DEF LosesOne, Disturbs
<1>11. CASE Passes
  BY <1>11 DEF Passes, CleanLine, Counted, Awaits, Coming, Idle, driver
<1> QED
  BY <1>1, <1>2, <1>3, <1>4, <1>5, <1>6, <1>7, <1>8, <1>9, <1>10, <1>11, <1>f
     DEF Next, Polling, Counter, Threads

LEMMA LineInit == Init => LineInv
BY BoundsAssumption
   DEF Init, LineInv, Turn, CleanLine, Counted, Idle, OwnResponse,
       ReportsRise, NoCall, Threads

(* On a clean line every exchange returns one response, its own: two       *)
(* threads that ask at once would read each other's characters             *)
(* (apc100.c:110-148).                                                     *)
THEOREM OwnResponses == Spec => []OwnResponse
<1>1. LineInv => OwnResponse
  BY DEF LineInv
<1> QED
  BY RunInit, RunStep, LineInit, LineStep, <1>1, PTL DEF Spec

(* On a clean line the trigger's counts rise: nothing is reported twice    *)
(* and nobody is taken back (apc100.c:79-88).                              *)
THEOREM ReportsOnlyRise == Spec => []ReportsRise
<1>1. LineInv => ReportsRise
  BY DEF LineInv
<1> QED
  BY RunInit, RunStep, LineInit, LineStep, <1>1, PTL DEF Spec

-----------------------------------------------------------------------------
(* The type invariant, in parts that are each within one prover's reach.   *)
TypeFlags ==
    /\ setting \in BOOLEAN /\ clean \in BOOLEAN /\ failed \in BOOLEAN
    /\ fell \in BOOLEAN /\ quiet \in BOOLEAN /\ told.quiet \in BOOLEAN

TypeTriggers ==
    /\ triggers \in 0 .. MaxTriggers
    /\ cb \in 0 .. triggers /\ arg \in 0 .. cb /\ fn \in 0 .. cb
    /\ told = [in |-> told.in, cb |-> told.cb, arg |-> told.arg,
               quiet |-> told.quiet]
    /\ told.cb \in 0 .. MaxTriggers /\ told.arg \in 0 .. MaxTriggers

TypeTallies ==
    /\ people \in 0 .. MaxIn /\ base \in -1 .. MaxIn
    /\ opens \in 0 .. MaxOpens /\ asks \in 0 .. MaxAsks
    /\ faults \in 0 .. MaxFaults
    /\ ret \in [Apps -> {"none", "0", "-1"}]

TypeLine ==
    /\ line \in Seq(Chars) /\ sending \in Seq(Chars)
    /\ Len(sending) <= Length
    /\ got \in Chars /\ last \in Chars /\ told.in \in Chars

LEMMA FlagsStep == TypeFlags /\ [Next]_vars => TypeFlags'
<1> SUFFICES ASSUME TypeFlags, [Next]_vars PROVE TypeFlags'
  OBVIOUS
<1> USE DEF TypeFlags, driver, wire, tally
<1>1. CASE Open \/ InTriggerArg
  <2>1. CASE Open
    <3>1. told'.quiet = TRUE
      BY <2>1 DEF Open, NoCall
    <3> QED
      BY <2>1, <3>1 DEF Open
  <2>2. CASE InTriggerArg
    BY <2>2 DEF InTriggerArg
  <2> QED
    BY <1>1, <2>1, <2>2
<1>2. CASE InTrigger
  BY <1>2 DEF InTrigger
<1>3. CASE Cleanup \/ Joined
  BY <1>3 DEF Cleanup, Joined
<1>4. ASSUME NEW t \in Apps, Ask(t) PROVE TypeFlags'
  BY <1>4 DEF Ask
<1>5. ASSUME NEW t \in Threads, Exchange(t) PROVE TypeFlags'
  BY <1>5 DEF Exchange, Lock, Write, WriteFails, Read, ReadTooMuch
<1>f. ASSUME NEW t \in Threads, ReadFails(t) PROVE TypeFlags'
  BY <1>f DEF ReadFails
<1>6. CASE Compare \/ Cancel
  BY <1>6 DEF Compare, Cancel
<1>7. CASE Call
  BY <1>7 DEF Call, Report
<1>8. CASE Answers \/ Arrives \/ LosesOne \/ Disturbs \/ Passes
  BY <1>8 DEF Answers, Arrives, LosesOne, Disturbs, Passes
<1>9. CASE UNCHANGED vars
  BY <1>9 DEF vars
<1> QED
  BY <1>1, <1>2, <1>3, <1>4, <1>5, <1>6, <1>7, <1>8, <1>9, <1>f
     DEF Next, Polling, Counter, Threads

LEMMA TriggersStep == TypeTriggers /\ [Next]_vars => TypeTriggers'
<1> SUFFICES ASSUME TypeTriggers, [Next]_vars PROVE TypeTriggers'
  OBVIOUS
<1> USE BoundsAssumption DEF TypeTriggers, driver, wire, tally
<1>1. CASE Open \/ InTriggerArg
  BY <1>1 DEF Open, NoCall, InTriggerArg
<1>2. CASE InTrigger
  BY <1>2 DEF InTrigger
<1>3. CASE Cleanup \/ Joined
  BY <1>3 DEF Cleanup, Joined
<1>4. ASSUME NEW t \in Apps, Ask(t) PROVE TypeTriggers'
  BY <1>4 DEF Ask
<1>5. ASSUME NEW t \in Threads, Exchange(t) PROVE TypeTriggers'
  BY <1>5 DEF Exchange, Lock, Write, WriteFails, Read, ReadTooMuch
<1>f. ASSUME NEW t \in Threads, ReadFails(t) PROVE TypeTriggers'
  BY <1>f DEF ReadFails
<1>6. CASE Compare \/ Cancel
  BY <1>6 DEF Compare, Cancel
<1>7. CASE Call
  BY <1>7 DEF Call, Report
<1>8. CASE Answers \/ Arrives \/ LosesOne \/ Disturbs \/ Passes
  BY <1>8 DEF Answers, Arrives, LosesOne, Disturbs, Passes
<1>9. CASE UNCHANGED vars
  BY <1>9 DEF vars
<1> QED
  BY <1>1, <1>2, <1>3, <1>4, <1>5, <1>6, <1>7, <1>8, <1>9, <1>f
     DEF Next, Polling, Counter, Threads

LEMMA TalliesStep == TypeTallies /\ [Next]_vars => TypeTallies'
<1> SUFFICES ASSUME TypeTallies, [Next]_vars PROVE TypeTallies'
  OBVIOUS
<1> USE BoundsAssumption DEF TypeTallies, driver, wire, tally
<1>1. CASE Open \/ InTriggerArg
  BY <1>1 DEF Open, InTriggerArg
<1>2. CASE InTrigger \/ Cleanup \/ Joined
  BY <1>2 DEF InTrigger, Cleanup, Joined
<1>3. ASSUME NEW t \in Apps, Ask(t) PROVE TypeTallies'
  BY <1>3 DEF Ask
<1>4. ASSUME NEW t \in Threads, Exchange(t) PROVE TypeTallies'
  BY <1>4, SMTT(20)
     DEF Exchange, Lock, Write, WriteFails, Read, ReadTooMuch, After, Threads
<1>f. ASSUME NEW t \in Threads, ReadFails(t) PROVE TypeTallies'
  <2>1. /\ faults' \in 0 .. MaxFaults
        /\ UNCHANGED <<people, base, opens, asks>>
    BY <1>f DEF ReadFails
  <2>2. ret' \in [Apps -> {"none", "0", "-1"}]
    BY <1>f DEF ReadFails, After, Threads
  <2> QED
    BY <2>1, <2>2
<1>5. CASE Compare \/ Cancel \/ Call
  BY <1>5 DEF Compare, Cancel, Call
<1>6. CASE Answers \/ Arrives \/ LosesOne \/ Disturbs \/ Passes
  BY <1>6 DEF Answers, Arrives, LosesOne, Disturbs, Passes
<1>7. CASE UNCHANGED vars
  BY <1>7 DEF vars
<1> QED
  BY <1>1, <1>2, <1>3, <1>4, <1>5, <1>6, <1>7, <1>f
     DEF Next, Polling, Counter, Threads

LEMMA LastOfTwo ==
    ASSUME NEW S, NEW s \in Seq(S), Len(s) = 2
    PROVE  s[2] \in S
OBVIOUS

(* What arrives, and what is read of it, is a character.                   *)
LEMMA CharsStep ==
    RunInv /\ TypeTallies /\ TypeLine /\ [Next]_vars => TypeLine'
<1> SUFFICES ASSUME RunInv, TypeTallies, TypeLine, [Next]_vars
             PROVE  TypeLine'
  OBVIOUS
<1>0. Header \in Chars /\ Noise \in Chars /\ 0 \in Chars
      /\ people \in Chars /\ Length = 2
  BY BoundsAssumption DEF Chars, TypeTallies, Length
<1> USE <1>0 DEF TypeLine, driver, wire, tally
<1>1. CASE Open
  BY <1>1 DEF Open, NoCall
<1>2. CASE InTrigger \/ InTriggerArg \/ Cleanup \/ Joined
  BY <1>2 DEF InTrigger, InTriggerArg, Cleanup, Joined
<1>3. ASSUME NEW t \in Apps, Ask(t) PROVE TypeLine'
  BY <1>3 DEF Ask
<1>4. ASSUME NEW t \in Threads, Exchange(t) PROVE TypeLine'
  <2>1. CASE Lock(t) \/ Write(t) \/ WriteFails(t)
    BY <2>1 DEF Lock, Write, WriteFails
  <2>2. CASE Read(t)
    <3>1. Len(line) = 2
      BY <2>2 DEF Read
    <3>2. line[2] \in Chars
      BY <3>1, LastOfTwo
    <3>3. line' = <<>> /\ got' \in Chars
      BY <2>2, <3>2 DEF Read
    <3> QED
      BY <2>2, <3>3 DEF Read
  <2>3. CASE ReadTooMuch(t)
    <3>1. line' \in Seq(Chars)
      BY <2>3 DEF ReadTooMuch
    <3> QED
      BY <2>3, <3>1 DEF ReadTooMuch
  <2> QED
    BY <1>4, <2>1, <2>2, <2>3 DEF Exchange
<1>f. ASSUME NEW t \in Threads, ReadFails(t) PROVE TypeLine'
  <2>1. line' \in Seq(Chars)
    BY <1>f, ReadLeaves
  <2> QED
    BY <1>f, <2>1 DEF ReadFails
<1>5. CASE Compare \/ Cancel
  BY <1>5 DEF Compare, Cancel
<1>6. CASE Call
  BY <1>6 DEF Call, Report
<1>7. CASE Answers
  <2>1. <<Header, people>> \in Seq(Chars) /\ Len(<<Header, people>>) = 2
    OBVIOUS
  <2>2. sending' = <<Header, people>>
    BY <1>7 DEF Answers
  <2> QED
    BY <1>7, <2>1, <2>2 DEF Answers
<1>8. CASE Arrives \/ LosesOne
  <2>1. /\ sending # <<>>
        /\ Head(sending) \in Chars /\ Tail(sending) \in Seq(Chars)
        /\ Len(Tail(sending)) <= Length
    BY <1>8 DEF Arrives, LosesOne
  <2>2. CASE Arrives
    <3>1. line' = line \/ line' = Append(line, Head(sending))
      BY <2>2 DEF Arrives
    <3>2. line' \in Seq(Chars)
      BY <2>1, <3>1, SMTT(20)
    <3>3. sending' = Tail(sending) /\ UNCHANGED <<got, last, told>>
      BY <2>2 DEF Arrives
    <3> QED
      BY <2>1, <3>2, <3>3
  <2>3. CASE LosesOne
    BY <2>1, <2>3 DEF LosesOne
  <2> QED
    BY <1>8, <2>2, <2>3
<1>9. CASE Disturbs
  BY <1>9 DEF Disturbs
<1>10. CASE Passes
  BY <1>10 DEF Passes
<1>11. CASE UNCHANGED vars
  BY <1>11 DEF vars
<1> QED
  BY <1>1, <1>2, <1>3, <1>4, <1>5, <1>6, <1>7, <1>8, <1>9, <1>10, <1>11, <1>f
     DEF Next, Polling, Counter, Threads

TypeInv == RunInv /\ TypeFlags /\ TypeTriggers /\ TypeTallies /\ TypeLine

LEMMA TypeInit == Init => TypeInv
<1> SUFFICES ASSUME Init PROVE TypeInv
  OBVIOUS
<1>1. TypeFlags
  BY DEF Init, TypeFlags, NoCall
<1>2. TypeTriggers
  BY BoundsAssumption DEF Init, TypeTriggers, NoCall
<1>3. TypeTallies
  BY BoundsAssumption DEF Init, TypeTallies
<1>4. TypeLine
  BY BoundsAssumption DEF Init, TypeLine, Chars, NoCall, Length
<1> QED
  BY <1>1, <1>2, <1>3, <1>4, RunInit DEF TypeInv

LEMMA CallTyped ==
    ASSUME NEW i \in Chars, NEW c \in 0 .. MaxTriggers,
           NEW a \in 0 .. MaxTriggers, NEW q \in BOOLEAN
    PROVE  [in |-> i, cb |-> c, arg |-> a, quiet |-> q] \in Calls
BY Zenon DEF Calls

(* Every variable of the driver and the line keeps its type, for any       *)
(* number of threads and any bounds.                                       *)
THEOREM TypeCorrect == Spec => []TypeOK
<1>1. TypeInv /\ [Next]_vars => TypeInv'
  BY RunStep, FlagsStep, TriggersStep, TalliesStep, CharsStep DEF TypeInv
<1>2. TypeInv => TypeOK
  <2> SUFFICES ASSUME TypeInv PROVE TypeOK
    OBVIOUS
  <2>1. told.quiet \in BOOLEAN
    BY DEF TypeInv, TypeFlags
  <2>2. /\ told.in \in Chars /\ told.cb \in 0 .. MaxTriggers
        /\ told.arg \in 0 .. MaxTriggers
        /\ told = [in |-> told.in, cb |-> told.cb, arg |-> told.arg,
                   quiet |-> told.quiet]
    BY DEF TypeInv, TypeTriggers, TypeLine
  <2>3. told \in Calls
    BY <2>1, <2>2, CallTyped, Zenon
  <2> QED
    BY <2>3 DEF TypeInv, TypeOK, RunInv, Typed, TypeFlags, TypeTriggers,
                TypeTallies, TypeLine
<1> QED
  BY TypeInit, <1>1, <1>2, PTL DEF Spec
=============================================================================
