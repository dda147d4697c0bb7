------------------------------- MODULE Apc100 -------------------------------
(***************************************************************************)
(* The driver of the APC100 people counter                                 *)
(* (examples/people-counter/src/apc100.c) as main.c and tests/apc100.cpp   *)
(* use it: a polling thread and application threads ask the counter over   *)
(* one serial line, one after the other under a mutex; the polling thread  *)
(* calls the trigger when the number of people that came in has changed;   *)
(* cleanup cancels it wherever it is and joins it.                         *)
(*                                                                         *)
(* A response of 43 characters is two here: a header and the number of     *)
(* people that came in; the other two numbers are compared and kept, and   *)
(* decide nothing.  read returns once a whole response's length is there,  *)
(* whatever it consists of, and takes one character more when there is     *)
(* one.  The line loses and invents characters, and the counter goes on    *)
(* sending when the driver has closed it.                                  *)
(***************************************************************************)
EXTENDS Integers, Sequences

CONSTANTS
    Poll,           \* the polling thread
    Apps,           \* application threads
    MaxIn,          \* bound: people that come in
    MaxOpens,       \* bound: calls of apc100_init that succeed
    MaxTriggers,    \* bound: calls of apc100_in_trigger
    MaxAsks,        \* bound: calls of apc100_cumulativeness by applications
    MaxFaults       \* bound: failing writes, characters lost or invented

ASSUME ThreadsAssumption ==
    Poll \notin Apps /\ "free" \notin Apps \cup {Poll}

ASSUME BoundsAssumption ==
    /\ MaxIn \in Nat /\ MaxOpens \in Nat /\ MaxTriggers \in Nat
    /\ MaxAsks \in Nat /\ MaxFaults \in Nat

Threads == Apps \cup {Poll}

(* Characters: a header, a disturbance, and the numbers themselves. *)
Header == -1
Noise == -2
Chars == {Header, Noise} \cup (0 .. MaxIn)

(* APC100_RESPONSE_LENGTH *)
Length == 2

VARIABLES
    \* the driver
    handle,     \* "none", "open", "cancelled" (cleanup waits in join)
    mutex,      \* who holds cumulativeness_lock; Poll and Apps, or "free"
    last,       \* a->cumulativenss
    cb, arg,    \* a->cb_in, a->cb_in_arg: which trigger; 0 for NULL
    setting,    \* apc100_in_trigger has written cb_in only
    pc,         \* where each thread is; the polling thread is at "lock"
                \* between its rounds
    got,        \* what the polling thread's last exchange returned
    fn,         \* cb_in as the polling thread has tested it
    \* the line and the counter
    asked,      \* who sent the commands the counter has yet to answer
    sending,    \* the rest of the response it sends
    line,       \* characters that have arrived and nobody has read
    people,     \* its counts
    \* history
    ret,        \* what an application's call returned last
    asker,      \* the thread the counter has answered last
    clean,      \* no character was lost or invented, no exchange cut off
    failed,     \* a clean exchange did not return its own response
    told,       \* the last call of a trigger by this instance
    fell,       \* on a clean line a trigger was told no more than before
    quiet,      \* no trigger was written since the poll's test of cb_in
    base,       \* people when apc100_in_trigger returned last
    opens, triggers, asks, faults

driver == <<handle, mutex, last, cb, arg, setting>>
wire == <<asked, sending, line, people>>
tally == <<opens, triggers, asks, faults>>
vars == <<driver, pc, got, fn, wire, ret, asker, clean, failed, told, fell,
          quiet, base, tally>>

Steps == {"off", "lock", "write", "read", "compare", "call"}

Calls == [in : Chars, cb : 0 .. MaxTriggers, arg : 0 .. MaxTriggers,
          quiet : BOOLEAN]

NoCall == [in |-> 0, cb |-> 0, arg |-> 0, quiet |-> TRUE]

TypeOK ==
    /\ handle \in {"none", "open", "cancelled"}
    /\ mutex \in Threads \cup {"free"}
    /\ last \in Chars
    /\ cb \in 0 .. triggers /\ arg \in 0 .. cb /\ fn \in 0 .. cb
    /\ setting \in BOOLEAN /\ clean \in BOOLEAN /\ failed \in BOOLEAN
    /\ fell \in BOOLEAN /\ quiet \in BOOLEAN
    /\ pc \in [Threads -> Steps]
    /\ \A t \in Apps : pc[t] \in {"off", "lock", "write", "read"}
    /\ got \in Chars
    /\ asked \in Seq(Threads) /\ asker \in Threads
    /\ sending \in Seq(Chars) /\ Len(sending) <= Length
    /\ line \in Seq(Chars)
    /\ people \in 0 .. MaxIn
    /\ told \in Calls /\ ret \in [Apps -> {"none", "0", "-1"}]
    /\ base \in -1 .. MaxIn
    /\ opens \in 0 .. MaxOpens /\ triggers \in 0 .. MaxTriggers
    /\ asks \in 0 .. MaxAsks /\ faults \in 0 .. MaxFaults

Init ==
    /\ handle = "none" /\ mutex = "free" /\ last = 0
    /\ cb = 0 /\ arg = 0 /\ setting = FALSE /\ fn = 0
    /\ pc = [t \in Threads |-> "off"] /\ got = 0
    /\ asked = <<>> /\ sending = <<>> /\ line = <<>> /\ people = 0
    /\ ret = [t \in Apps |-> "none"] /\ asker = Poll
    /\ clean = TRUE /\ failed = FALSE /\ quiet = TRUE
    /\ told = NoCall /\ fell = FALSE
    /\ base = -1
    /\ opens = 0 /\ triggers = 0 /\ asks = 0 /\ faults = 0

Goes(t, step) == pc' = [pc EXCEPT ![t] = step]

-----------------------------------------------------------------------------
(* The application: main.c, tests/apc100.cpp. *)

(* apc100_init opens the line and starts the polling thread; what arrived  *)
(* on the line before it was open is gone.                                 *)
Open ==
    /\ handle = "none" /\ opens < MaxOpens
    /\ opens' = opens + 1
    /\ handle' = "open" /\ mutex' = "free" /\ last' = 0
    /\ cb' = 0 /\ arg' = 0 /\ fn' = 0 /\ base' = -1
    /\ line' = <<>>
    /\ told' = NoCall
    /\ Goes(Poll, "lock")
    /\ UNCHANGED <<setting, got, asked, sending, people, ret, asker, clean,
                   failed, fell, quiet, triggers, asks, faults>>

(* apc100_in_trigger: two writes, which the polling thread reads unlocked. *)
InTrigger ==
    /\ handle = "open" /\ ~setting /\ triggers < MaxTriggers
    /\ triggers' = triggers + 1
    /\ cb' = triggers + 1
    /\ setting' = TRUE
    /\ quiet' = (quiet /\ pc[Poll] # "call")
    /\ UNCHANGED <<handle, mutex, last, arg, pc, got, fn, wire, ret, asker,
                   clean, failed, told, fell, base, opens, asks, faults>>

(* Mutant: the argument is kept from the first installation. *)
InTriggerArgOnce ==
    /\ setting
    /\ arg' = IF arg = 0 THEN cb ELSE arg
    /\ setting' = FALSE
    /\ base' = people
    /\ UNCHANGED <<handle, mutex, last, cb, pc, got, fn, wire, ret, asker,
                   clean, failed, told, fell, quiet, tally>>

InTriggerArg ==
    /\ setting
    /\ arg' = cb
    /\ setting' = FALSE
    /\ base' = people
    /\ UNCHANGED <<handle, mutex, last, cb, pc, got, fn, wire, ret, asker,
                   clean, failed, told, fell, quiet, tally>>

(* An application asks for the counts itself. *)
Ask(t) ==
    /\ handle = "open" /\ pc[t] = "off" /\ asks < MaxAsks
    /\ asks' = asks + 1
    /\ Goes(t, "lock")
    /\ UNCHANGED <<driver, got, fn, wire, ret, asker, clean, failed, told,
                   fell, quiet, base, opens, triggers, faults>>

(* apc100_cleanup cancels the polling thread; the application makes no     *)
(* other call meanwhile.                                                   *)
Cleanup ==
    /\ handle = "open" /\ ~setting /\ \A t \in Apps : pc[t] = "off"
    /\ handle' = "cancelled"
    /\ UNCHANGED <<mutex, last, cb, arg, setting, pc, got, fn, wire, ret,
                   asker, clean, failed, told, fell, quiet, base, tally>>

(* pthread_join returns; close and free. *)
Joined ==
    /\ handle = "cancelled" /\ pc[Poll] = "off"
    /\ handle' = "none"
    /\ UNCHANGED <<mutex, last, cb, arg, setting, pc, got, fn, wire, ret,
                   asker, clean, failed, told, fell, quiet, base, tally>>

-----------------------------------------------------------------------------
(* apc100_cumulativeness, by the polling thread and by applications. *)

(* A thread that was cancelled ends in pthread_testcancel, usleep or write *)
(* at the latest.                                                          *)
GoesOn(t) == t = Poll => handle = "open"

Lock(t) ==
    /\ pc[t] = "lock" /\ mutex = "free" /\ GoesOn(t)
    /\ mutex' = t
    /\ Goes(t, "write")
    /\ UNCHANGED <<handle, last, cb, arg, setting, got, fn, wire, ret, asker,
                   clean, failed, told, fell, quiet, base, tally>>

(* Mutant: the mutex protects the write only. *)
WriteUnlocks(t) ==
    /\ pc[t] = "write" /\ GoesOn(t)
    /\ asked' = Append(asked, t)
    /\ mutex' = "free"
    /\ Goes(t, "read")
    /\ UNCHANGED <<handle, last, cb, arg, setting, got, fn, sending, line,
                   people, ret, asker, clean, failed, told, fell, quiet, base,
                   tally>>

Write(t) ==
    /\ pc[t] = "write" /\ GoesOn(t)
    /\ asked' = Append(asked, t)
    /\ Goes(t, "read")
    /\ UNCHANGED <<driver, got, fn, sending, line, people, ret, asker, clean,
                   failed, told, fell, quiet, base, tally>>

(* Where a thread goes when its exchange is over. *)
After(t, ok) ==
    /\ Goes(t, IF t # Poll THEN "off" ELSE IF ok THEN "compare" ELSE "lock")
    /\ ret' = IF t = Poll THEN ret
              ELSE [ret EXCEPT ![t] = IF ok THEN "0" ELSE "-1"]

(* Mutant: the error path returns without unlocking. *)
WriteFailsLocked(t) ==
    /\ pc[t] = "write" /\ GoesOn(t) /\ faults < MaxFaults
    /\ faults' = faults + 1
    /\ After(t, FALSE)
    /\ UNCHANGED <<driver, got, fn, wire, asker, clean, failed, told,
                   fell, quiet, base, opens, triggers, asks>>

WriteFails(t) ==
    /\ pc[t] = "write" /\ GoesOn(t) /\ faults < MaxFaults
    /\ faults' = faults + 1
    /\ mutex' = "free"
    /\ After(t, FALSE)
    /\ UNCHANGED <<handle, last, cb, arg, setting, got, fn, wire, asker,
                   clean, failed, told, fell, quiet, base, opens, triggers,
                   asks>>

(* read: VMIN characters are there, and the buffer has room for one more. *)
Read(t) ==
    /\ pc[t] = "read" /\ Len(line) = Length
    /\ line' = <<>>
    /\ got' = IF t = Poll THEN line[2] ELSE got
    /\ failed' = (failed \/ (clean /\ (line[1] # Header \/ asker # t)))
    /\ mutex' = "free"
    /\ After(t, TRUE)
    /\ UNCHANGED <<handle, last, cb, arg, setting, fn, asked, sending, people,
                   asker, clean, told, fell, quiet, base, tally>>

ReadTooMuch(t) ==
    /\ pc[t] = "read" /\ Len(line) > Length
    /\ line' = SubSeq(line, Length + 2, Len(line))
    /\ failed' = (failed \/ clean)
    /\ mutex' = "free"
    /\ After(t, FALSE)
    /\ UNCHANGED <<handle, last, cb, arg, setting, got, fn, asked, sending,
                   people, asker, clean, told, fell, quiet, base, tally>>

(* read fails or returns too early, for an I/O error or a signal.          *)
(* What it did not take stays on the line.                                 *)
ReadFails(t) ==
    /\ pc[t] = "read" /\ faults < MaxFaults
    /\ faults' = faults + 1
    /\ \E k \in 0 .. Length - 1 :
          k <= Len(line) /\ line' = SubSeq(line, k + 1, Len(line))
    /\ clean' = FALSE
    /\ mutex' = "free"
    /\ After(t, FALSE)
    /\ UNCHANGED <<handle, last, cb, arg, setting, got, fn, asked, sending,
                   people, asker, failed, told, fell, quiet, base, opens,
                   triggers, asks>>

-----------------------------------------------------------------------------
(* The rest of _polling. *)

(* The comparison and the test of cb_in.  Without a call the numbers are   *)
(* kept at once; the round is over.                                        *)
Compare ==
    /\ pc[Poll] = "compare"
    /\ IF last # got /\ cb # 0
       THEN fn' = cb /\ Goes(Poll, "call") /\ UNCHANGED last
       ELSE last' = got /\ Goes(Poll, "lock") /\ UNCHANGED fn
    /\ UNCHANGED <<handle, mutex, cb, arg, setting, got, wire, ret, asker,
                   clean, failed, told, fell, quiet, base, tally>>

Report(f) == [in |-> got, cb |-> f, arg |-> arg,
              quiet |-> quiet /\ ~setting]

(* Mutant: the counts that were reported are not kept. *)
CallForgets ==
    /\ pc[Poll] = "call"
    /\ \E f \in {fn, cb} : told' = Report(f)
    /\ fell' = (fell \/ (clean /\ got <= told.in))
    /\ fn' = 0 /\ quiet' = TRUE
    /\ Goes(Poll, "lock")
    /\ UNCHANGED <<driver, got, wire, ret, asker, clean, failed, base, tally>>

(* The call: cb_in as tested or read again, cb_in_arg as it is now; then   *)
(* the counts are kept.                                                    *)
Call ==
    /\ pc[Poll] = "call"
    /\ \E f \in {fn, cb} : told' = Report(f)
    /\ fell' = (fell \/ (clean /\ got <= told.in))
    /\ last' = got
    /\ fn' = 0 /\ quiet' = TRUE
    /\ Goes(Poll, "lock")
    /\ UNCHANGED <<handle, mutex, cb, arg, setting, got, wire, ret, asker,
                   clean, failed, base, tally>>

(* Mutant: cancellation is looked for in pthread_testcancel only. *)
CancelAtLock ==
    /\ handle = "cancelled" /\ pc[Poll] = "lock"
    /\ Goes(Poll, "off")
    /\ UNCHANGED <<driver, got, fn, wire, ret, asker, clean, failed, told,
                   fell, quiet, base, tally>>

(* The polling thread ends at a cancellation point: after a round, in      *)
(* usleep and write, in read, or in the trigger's I/O; with the mutex or   *)
(* without.  An exchange that is cut off leaves its response on the line.  *)
Cancel ==
    /\ handle = "cancelled"
    /\ pc[Poll] \in {"lock", "write", "read", "call"}
    /\ Goes(Poll, "off")
    /\ fn' = 0 /\ quiet' = TRUE
    /\ clean' = (clean /\ pc[Poll] # "read")
    /\ UNCHANGED <<driver, got, wire, ret, asker, failed, told, fell, base,
                   tally>>

-----------------------------------------------------------------------------
(* The counter and the line. *)

Answers ==
    /\ asked # <<>> /\ sending = <<>>
    /\ asked' = Tail(asked)
    /\ asker' = Head(asked)
    /\ sending' = <<Header, people>>
    /\ UNCHANGED <<driver, pc, got, fn, line, people, ret, clean, failed, told,
                   fell, quiet, base, tally>>

Arrives ==
    /\ sending # <<>>
    /\ line' = IF handle = "none" THEN line ELSE Append(line, Head(sending))
    /\ sending' = Tail(sending)
    /\ UNCHANGED <<driver, pc, got, fn, asked, people, ret, asker, clean,
                   failed, told, fell, quiet, base, tally>>

LosesOne ==
    /\ sending # <<>> /\ faults < MaxFaults
    /\ faults' = faults + 1
    /\ sending' = Tail(sending)
    /\ clean' = FALSE
    /\ UNCHANGED <<driver, pc, got, fn, asked, line, people, ret, asker,
                   failed, told, fell, quiet, base, opens, triggers, asks>>

Disturbs ==
    /\ handle # "none" /\ faults < MaxFaults
    /\ faults' = faults + 1
    /\ line' = Append(line, Noise)
    /\ clean' = FALSE
    /\ UNCHANGED <<driver, pc, got, fn, asked, sending, people, ret, asker,
                   failed, told, fell, quiet, base, opens, triggers, asks>>

Passes ==
    /\ people < MaxIn
    /\ people' = people + 1
    /\ UNCHANGED <<driver, pc, got, fn, asked, sending, line, ret, asker,
                   clean, failed, told, fell, quiet, base, tally>>

-----------------------------------------------------------------------------
Exchange(t) ==
    Lock(t) \/ Write(t) \/ WriteFails(t) \/ Read(t) \/ ReadTooMuch(t)

Polling == Exchange(Poll) \/ Compare \/ Call

Counter == Answers \/ Arrives

Next ==
    \/ Open \/ InTrigger \/ InTriggerArg \/ Cleanup \/ Joined
    \/ \E t \in Apps : Ask(t) \/ Exchange(t)
    \/ Polling \/ Cancel
    \/ \E t \in Threads : ReadFails(t)
    \/ Counter \/ LosesOne \/ Disturbs \/ Passes

Spec == Init /\ [][Next]_vars

(* Every thread goes on, the counter answers, and its characters arrive;   *)
(* nothing makes a read that waits for characters fail.                    *)
FairSpec ==
    /\ Spec
    /\ WF_vars(Polling) /\ WF_vars(Cancel) /\ WF_vars(InTriggerArg)
    /\ WF_vars(Joined)
    /\ \A t \in Apps : WF_vars(Exchange(t))
    /\ WF_vars(Counter)

-----------------------------------------------------------------------------
(* Properties. *)

(* On a clean line every exchange returns one response, its own: what it   *)
(* returns was true after it was called (apc100.c:110-148).  Two threads   *)
(* that ask at once would read each other's characters.                    *)
OwnResponse == ~failed

(* On a clean line the trigger's counts rise: nothing is reported twice,   *)
(* and nobody is taken back (apc100.c:79-88).                              *)
ReportsRise == ~fell

(* A trigger gets the argument it was installed with, unless it was being  *)
(* installed between the test of cb_in and the call (apc100.c:85, 156).    *)
CallsWhole == told.quiet => told.arg = told.cb

(* Once apc100_cleanup has returned nothing runs that uses the instance,   *)
(* wherever the polling thread was cancelled (apc100.c:99-103, 208-219).   *)
NothingAfterCleanup ==
    handle = "none" => \A t \in Threads : pc[t] = "off"

(* On a clean line whoever comes in after the trigger was installed is     *)
(* reported, with an application asking at any time (apc100.c:77-95).      *)
PassersReported ==
    \A n \in 1 .. MaxIn :
        (handle = "open" /\ ~setting /\ base \in 0 .. n - 1 /\ people = n)
        ~> (handle # "open" \/ ~clean \/ told.in >= n)

(* apc100_cleanup returns, even if the polling thread waits for characters *)
(* that were lost (apc100.c:99-103).                                       *)
CleanupReturns == handle = "cancelled" ~> handle = "none"

(* What tests/apc100.cpp:53-54 expects of a counter that is there: a call  *)
(* returns 0.  When the instance before was cancelled in an exchange, the  *)
(* rest of its response is read first (apc100.c:183-200, 208-219).         *)
AskSucceeds == faults = 0 => \A t \in Apps : ret[t] # "-1"
=============================================================================
