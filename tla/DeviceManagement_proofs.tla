---------------------- MODULE DeviceManagement_proofs ----------------------
(***************************************************************************)
(* Theorems about DeviceManagement for any set of services and any bounds. *)
(* They rest on one fact: as long as the main thread has not met what the  *)
(* network thread is handling, it is between its calls, and between its    *)
(* calls the callback, its argument and the table are one installation's.  *)
(***************************************************************************)
EXTENDS DeviceManagement, TLAPS

(* The types the arguments below need. *)
Typed ==
    /\ offered \in Seq(Installations)
    /\ table \in Nat /\ d \in Nat /\ freed \subseteq Nat
    /\ raced \in BOOLEAN /\ wild \in BOOLEAN /\ running \in BOOLEAN
    /\ told.raced \in BOOLEAN

Setting == main \in {"set_arg", "set_free", "set_new"}

(* What was freed is older than the struct being installed; the table is   *)
(* live but between the free and the assignment, and in mqtt_cleanup.      *)
TableInv ==
    /\ table <= Sets /\ \A k \in freed : k <= Sets
    /\ Setting => table < Sets /\ \A k \in freed : k < Sets
    /\ table \in freed => main \in {"set_new", "x_destroy", "gone"}

Unmet == net # "idle" /\ ~raced

RaceInv ==
    /\ Unmet => main = "idle"
    /\ Unmet /\ net = "do" => d \notin freed
    /\ Unmet /\ net = "load" => Hook(callback)
    /\ Unmet /\ net = "call" => told.fn = callback

LatestInv ==
    /\ callback = Sets
    /\ main # "set_arg" => argument = Sets
    /\ EventToLatest

UseInv ==
    /\ Typed /\ TableInv /\ RaceInv /\ LatestInv
    /\ UsesLiveUnlessRaced /\ NothingAfterCleanup

LEMMA UseInit == Init => UseInv
<1> SUFFICES ASSUME Init PROVE UseInv
  OBVIOUS
<1>1. Sets = 0
  BY DEF Init, Sets
<1>2. Typed
  <2>1. offered \in Seq(Installations)
    BY DEF Init
  <2>2. told.raced \in BOOLEAN
    BY Zenon DEF Init
  <2> QED
    BY <2>1, <2>2 DEF Init, Typed
<1>3. TableInv /\ RaceInv /\ NothingAfterCleanup
  BY <1>1 DEF Init, TableInv, RaceInv, Setting, Unmet, NothingAfterCleanup
<1>4. LatestInv /\ UsesLiveUnlessRaced
  BY <1>1 DEF Init, LatestInv, EventToLatest, UsesLiveUnlessRaced
<1> QED
  BY <1>2, <1>3, <1>4 DEF UseInv

-----------------------------------------------------------------------------
(* The steps of the main thread, and what the others leave alone. *)
MainStep ==
    CallbackSet \/ SetArgument \/ SetFree \/ SetNew \/ Cleanup
        \/ CleanupTable \/ CleanupDestroy

LEMMA Steps == [Next]_vars => MainStep \/ UNCHANGED appVars
BY DEF Next, MainStep, vars, NetworkStarts, NetworkStops, Event, Begins,
   Status, EventTest, EventLoad, EventCall, Goes, Receive, Unreadable,
   NoMethod, NoService, Unserved, Run, Runs, Replied, Answer, UseAfterFree,
   Crash

(* Only mqtt_callback_set makes an installation. *)
LEMMA SetsStep ==
    ASSUME Typed, [Next]_vars
    PROVE  /\ Sets \in Nat
           /\ CallbackSet => Sets' = Sets + 1
           /\ ~CallbackSet => offered' = offered /\ Sets' = Sets
<1>1. Sets \in Nat
  BY DEF Typed, Sets
<1>2. ASSUME CallbackSet PROVE Sets' = Sets + 1
  BY <1>2 DEF CallbackSet, Typed, Sets
<1>3. ASSUME ~CallbackSet PROVE offered' = offered
  <2>1. CASE UNCHANGED appVars
    BY <2>1 DEF appVars
  <2>2. CASE MainStep
    BY <1>3, <2>2 DEF MainStep, SetArgument, SetFree, SetNew, Cleanup,
       CleanupTable, CleanupDestroy, FreeTable
  <2> QED
    BY <2>1, <2>2, Steps
<1> QED
  BY <1>1, <1>2, <1>3 DEF Sets

LEMMA TypedStep == Typed /\ [Next]_vars => Typed'
<1> SUFFICES ASSUME Typed, [Next]_vars PROVE Typed'
  OBVIOUS
<1>1. Sets \in Nat
  BY SetsStep
<1>2. offered' \in Seq(Installations)
  <2>1. CASE CallbackSet
    BY <2>1 DEF CallbackSet, Typed
  <2> QED
    BY <2>1, SetsStep DEF Typed
<1>3. table' \in Nat /\ freed' \subseteq Nat
  <2>1. CASE MainStep
    BY <1>1, <2>1 DEF MainStep, CallbackSet, SetArgument, SetFree, SetNew,
       Cleanup, CleanupTable, CleanupDestroy, FreeTable, Typed
  <2>2. CASE UNCHANGED appVars
    BY <2>2 DEF appVars, Typed
  <2> QED
    BY <2>1, <2>2, Steps
<1>4. d' \in Nat
  BY DEF Next, vars, Typed, MainStep, CallbackSet, SetArgument, SetFree,
     SetNew, Cleanup, CleanupTable, CleanupDestroy, FreeTable, Races,
     handling, NetworkStarts, NetworkStops, Event, Status, EventTest,
     EventLoad, EventCall, Receive, Unreadable, NoMethod, NoService,
     Unserved, Run, Replied, Answer, UseAfterFree, Crash
<1>5. raced' \in BOOLEAN /\ wild' \in BOOLEAN /\ running' \in BOOLEAN
  BY DEF Next, vars, Typed, MainStep, CallbackSet, SetArgument, SetFree,
     SetNew, Cleanup, CleanupTable, CleanupDestroy, FreeTable, Races,
     handling, NetworkStarts, NetworkStops, Event, Begins, Status,
     EventTest, EventLoad, EventCall, Receive, Unreadable, NoMethod,
     NoService, Unserved, Run, Runs, Replied, Goes, Answer, UseAfterFree,
     Crash
<1>6. told'.raced \in BOOLEAN
  <2>1. CASE EventCall \/ EventLoad
    <3>1. PICK b \in {raced, TRUE}, f \in {callback, told.fn},
               a \in {0, argument}, k \in {0, Sets} :
             told' = [fn |-> f, arg |-> a, last |-> k, raced |-> b]
      BY <2>1 DEF EventCall, EventLoad
    <3>2. b \in BOOLEAN
      BY <3>1 DEF Typed
    <3> QED
      BY <3>1, <3>2
  <2>2. told' = told \/ EventCall \/ EventLoad
    BY DEF Next, vars, CallbackSet, SetArgument, SetFree, SetNew, Cleanup,
       CleanupTable, CleanupDestroy, FreeTable, Races, handling,
       NetworkStarts, NetworkStops, Event, Status, EventTest, Receive,
       Unreadable, NoMethod, NoService, Unserved, Run, Replied, Answer,
       UseAfterFree, Crash
  <2> QED
    BY <2>1, <2>2 DEF Typed
<1> QED
  BY <1>2, <1>3, <1>4, <1>5, <1>6 DEF Typed

-----------------------------------------------------------------------------
LEMMA TableStep == Typed /\ TableInv /\ [Next]_vars => TableInv'
<1> SUFFICES ASSUME Typed, TableInv, [Next]_vars PROVE TableInv'
  OBVIOUS
<1>1. Sets \in Nat /\ table \in Nat /\ freed \subseteq Nat
  BY SetsStep DEF Typed
<1>2. CASE CallbackSet
  <2>1. Sets' = Sets + 1 /\ main = "idle" /\ main' = "set_arg"
           /\ UNCHANGED <<table, freed>>
    BY <1>2, SetsStep DEF CallbackSet
  <2> QED
    BY <1>1, <2>1 DEF TableInv, Setting
<1>3. CASE MainStep /\ ~CallbackSet
  <2>1. Sets' = Sets
    BY <1>3, SetsStep
  <2>2. CASE SetFree \/ CleanupTable
    <3>1. /\ freed' = freed \cup ({table} \ {0}) /\ table' = table
          /\ \/ main = "set_free" /\ main' = "set_new"
             \/ main = "x_table" /\ main' = "x_destroy"
      BY <2>2 DEF SetFree, CleanupTable, FreeTable
    <3>2. \A k \in freed' : k \in freed \/ k = table
      BY <3>1
    <3> QED
      BY <1>1, <2>1, <3>1, <3>2 DEF TableInv, Setting
  <2>3. CASE SetNew
    BY <1>1, <2>1, <2>3 DEF SetNew, TableInv, Setting
  <2>4. CASE SetArgument \/ Cleanup \/ CleanupDestroy
    BY <1>1, <2>1, <2>4 DEF SetArgument, Cleanup, CleanupDestroy, TableInv,
       Setting
  <2> QED
    BY <1>3, <2>2, <2>3, <2>4 DEF MainStep
<1>4. CASE UNCHANGED appVars
  BY <1>4 DEF appVars, TableInv, Setting, Sets
<1> QED
  BY <1>2, <1>3, <1>4, Steps

LEMMA RaceStep ==
    Typed /\ TableInv /\ RaceInv /\ [Next]_vars => RaceInv'
<1> SUFFICES ASSUME Typed, TableInv, RaceInv, [Next]_vars PROVE RaceInv'
  OBVIOUS
<1>1. CASE MainStep
  <2>1. net' = "idle" \/ raced'
    BY <1>1 DEF MainStep, CallbackSet, SetArgument, SetFree, SetNew, Cleanup,
       CleanupTable, CleanupDestroy, FreeTable, Races, handling
  <2> QED
    BY <2>1 DEF RaceInv, Unmet
<1>2. CASE Event
  <2>1. net = "idle" /\ net' \in {"status", "test"}
           /\ raced' = (main # "idle") /\ main' = main
    BY <1>2 DEF Event, Begins, appVars
  <2> QED
    BY <2>1 DEF RaceInv, Unmet
<1>3. CASE Receive
  <2>1. net = "idle" /\ net' = "do" /\ raced' = (main # "idle")
           /\ d' = table /\ UNCHANGED <<main, freed>>
    BY <1>3 DEF Receive, Begins, appVars
  <2> QED
    BY <2>1 DEF RaceInv, Unmet, TableInv
<1>4. CASE EventLoad \/ EventTest \/ EventCall \/ Status
  <2>1. net # "idle" /\ UNCHANGED <<main, callback, offered, raced>>
    BY <1>4 DEF EventLoad, EventTest, EventCall, Status, Goes, appVars
  <2>2. /\ net' \in {"load", "call", "test", "idle"}
        /\ net' = "load" => Hook(callback)
        /\ net' = "call" => told'.fn = callback
    BY <1>4 DEF EventLoad, EventTest, EventCall, Status, Goes
  <2> QED
    BY <2>1, <2>2 DEF RaceInv, Unmet, Hook
<1>5. CASE Unreadable \/ NoMethod \/ NoService \/ Unserved \/ Run \/ Answer
  <2>1. /\ net # "idle" /\ net' \in {"idle", "answer"}
        /\ UNCHANGED <<main, raced>>
    BY <1>5 DEF Unreadable, NoMethod, NoService, Unserved, Run, Runs, Answer,
       Replied, Goes, appVars, Readable, TableRead
  <2> QED
    BY <2>1 DEF RaceInv, Unmet
<1>6. CASE NetworkStarts \/ NetworkStops \/ UseAfterFree \/ UNCHANGED vars
  <2>1. UNCHANGED <<main, net, raced, d, freed, callback, offered, told>>
    BY <1>6 DEF NetworkStarts, NetworkStops, UseAfterFree, Crash, vars,
       appVars, handling
  <2> QED
    BY <2>1 DEF RaceInv, Unmet, Hook
<1> QED
  BY <1>1, <1>2, <1>3, <1>4, <1>5, <1>6 DEF Next, MainStep

LEMMA LatestStep ==
    Typed /\ RaceInv /\ LatestInv /\ [Next]_vars => LatestInv'
<1> SUFFICES ASSUME Typed, RaceInv, LatestInv, [Next]_vars PROVE LatestInv'
  OBVIOUS
<1>1. callback' = Sets' /\ (main' # "set_arg" => argument' = Sets')
  <2>1. CASE CallbackSet
    BY <2>1, SetsStep DEF CallbackSet
  <2>2. CASE MainStep /\ ~CallbackSet
    BY <2>2, SetsStep DEF MainStep, SetArgument, SetFree, SetNew, Cleanup,
       CleanupTable, CleanupDestroy, FreeTable, LatestInv
  <2>3. CASE UNCHANGED appVars
    BY <2>3 DEF appVars, LatestInv, Sets
  <2> QED
    BY <2>1, <2>2, <2>3, Steps
<1>2. EventToLatest'
  <2>1. CASE EventCall
    <3>1. net = "call" /\ told' = [fn |-> told.fn, arg |-> argument,
                                   last |-> Sets, raced |-> raced]
      BY <2>1 DEF EventCall
    <3>2. ~raced => told.fn = Sets /\ argument = Sets
      BY <3>1 DEF RaceInv, Unmet, LatestInv
    <3> QED
      BY <3>1, <3>2 DEF EventToLatest
  <2>2. CASE EventLoad
    BY <2>2 DEF EventLoad, EventToLatest
  <2>3. told' = told \/ EventCall \/ EventLoad
    BY DEF Next, vars, CallbackSet, SetArgument, SetFree, SetNew, Cleanup,
       CleanupTable, CleanupDestroy, FreeTable, Races, handling,
       NetworkStarts, NetworkStops, Event, Status, EventTest, Receive,
       Unreadable, NoMethod, NoService, Unserved, Run, Replied, Answer,
       UseAfterFree, Crash
  <2> QED
    BY <2>1, <2>2, <2>3 DEF LatestInv, EventToLatest
<1> QED
  BY <1>1, <1>2 DEF LatestInv

LEMMA UseStep == UseInv /\ [Next]_vars => UseInv'
<1> SUFFICES ASSUME UseInv, [Next]_vars PROVE UseInv'
  OBVIOUS
<1>1. UsesLiveUnlessRaced'
  <2>1. CASE UseAfterFree
    <3>1. net # "idle" /\ (net = "status" => GwIdFreed)
             /\ (net = "load" => ~Hook(callback))
             /\ (net = "do" => d \in freed) /\ net \in {"status", "load", "do"}
      BY <2>1 DEF UseAfterFree, TableRead, Readable
    <3>2. raced /\ raced' = raced
      BY <2>1, <3>1 DEF UseInv, RaceInv, Unmet, GwIdFreed, UseAfterFree, Crash
    <3> QED
      BY <3>2 DEF UsesLiveUnlessRaced
  <2>2. CASE UNCHANGED vars
    BY <2>2 DEF vars, UseInv, UsesLiveUnlessRaced
  <2>3. CASE Next /\ ~UseAfterFree
    <3>1. ~wild'
      BY <2>3 DEF Next, CallbackSet, SetArgument, SetFree, SetNew, Cleanup,
         CleanupTable, CleanupDestroy, FreeTable, Races, NetworkStarts,
         NetworkStops, Event, Begins, Status, EventTest, EventLoad,
         EventCall, Receive, Unreadable, NoMethod, NoService, Unserved,
         Run, Runs, Replied, Goes, Answer
    <3> QED
      BY <3>1 DEF UsesLiveUnlessRaced
  <2> QED
    BY <2>1, <2>2, <2>3
<1>2. NothingAfterCleanup'
  BY DEF UseInv, NothingAfterCleanup, Next, vars, appVars, handling,
     CallbackSet, SetArgument, SetFree, SetNew, Cleanup, CleanupTable,
     CleanupDestroy, FreeTable, Races, NetworkStarts, NetworkStops, Event,
     Begins, Status, EventTest, EventLoad, EventCall, Receive, Unreadable,
     NoMethod, NoService, Unserved, Run, Runs, Replied, Goes, Answer,
     UseAfterFree, Crash, Readable, TableRead
<1> QED
  BY <1>1, <1>2, TypedStep, TableStep, RaceStep, LatestStep DEF UseInv

(* Freed memory is never used and NULL never called, unless a call of the  *)
(* main thread met what was being handled (mqtt.c:490-503, 594-604).       *)
THEOREM LiveUnlessRaced == Spec => []UsesLiveUnlessRaced
<1>1. UseInv => UsesLiveUnlessRaced
  BY DEF UseInv
<1> QED
  BY UseInit, UseStep, <1>1, PTL DEF Spec

(* An event calls the callback installed last with the argument installed  *)
(* with it, unless a call of the main thread met it (mqtt.c:488-489).      *)
THEOREM EventsToLatest == Spec => []EventToLatest
<1>1. UseInv => EventToLatest
  BY DEF UseInv, LatestInv
<1> QED
  BY UseInit, UseStep, <1>1, PTL DEF Spec

(* After mqtt_cleanup returned no callback runs and none will              *)
(* (mqtt.c:606-609).                                                       *)
THEOREM NothingAfter == Spec => []NothingAfterCleanup
<1>1. UseInv => NothingAfterCleanup
  BY DEF UseInv
<1> QED
  BY UseInit, UseStep, <1>1, PTL DEF Spec

-----------------------------------------------------------------------------
(* A request that must be answered is the last of those due from its       *)
(* arrival until its answer is published; all before it are answered.      *)
Pending == Readable \/ net = "answer"

AnswerTyped ==
    /\ received \in Seq(Requests) /\ due \in Seq(Nat)
    /\ answers \in Seq(Replies) /\ reply \in Replies

AnswerInv ==
    /\ AnswerTyped
    /\ Pending => Len(due) = Len(answers) + 1
    /\ ~Pending => Len(due) = Len(answers) \/ main = "gone"
    /\ Readable => due[Len(due)] = Number
    /\ net = "answer" => due[Len(due)] = reply.id
    /\ main = "gone" => ~running /\ net = "idle"
    /\ AnsweredInOrder

(* A step that leaves requests and answers alone. *)
LEMMA AnswerKept ==
    ASSUME AnswerInv,
           UNCHANGED <<received, due, answers, reply>>,
           Readable' <=> Readable, net' = "answer" <=> net = "answer",
           main' = "gone" <=> main = "gone",
           main' = "gone" => ~running' /\ net' = "idle"
    PROVE  AnswerInv'
<1>1. AnswerTyped' /\ Number' = Number /\ (Pending' <=> Pending)
  BY DEF AnswerInv, AnswerTyped, Number, Pending
<1>2. AnsweredInOrder'
  <2>1. net' = "idle" /\ main' # "gone" => ~Pending
    BY DEF Pending, Readable
  <2> QED
    BY <2>1 DEF AnswerInv, AnsweredInOrder
<1> QED
  BY <1>1, <1>2 DEF AnswerInv

LEMMA AnswerStep == AnswerInv /\ [Next]_vars => AnswerInv'
<1> SUFFICES ASSUME AnswerInv, [Next]_vars PROVE AnswerInv'
  OBVIOUS
<1>t. /\ received \in Seq(Requests) /\ due \in Seq(Nat)
      /\ answers \in Seq(Replies) /\ reply \in Replies
      /\ Len(received) \in Nat /\ Len(due) \in Nat /\ Len(answers) \in Nat
  BY DEF AnswerInv, AnswerTyped
<1>1. CASE CleanupDestroy
  <2>1. /\ UNCHANGED <<received, due, answers, reply>>
        /\ ~running' /\ net' = "idle" /\ main' = "gone" /\ main # "gone"
    BY <1>1 DEF CleanupDestroy
  <2>2. ~Pending' /\ ~Readable' /\ AnsweredInOrder'
    BY <2>1 DEF Pending, Readable, AnsweredInOrder, AnswerInv
  <2> QED
    BY <2>1, <2>2 DEF AnswerInv, AnswerTyped
<1>2. CASE (MainStep /\ ~CleanupDestroy) \/ NetworkStarts \/ NetworkStops
           \/ UseAfterFree \/ UNCHANGED vars
  <2>1. UNCHANGED handling
    BY <1>2 DEF MainStep, CallbackSet, SetArgument, SetFree, SetNew, Cleanup,
       CleanupTable, FreeTable, Races, NetworkStarts, NetworkStops,
       UseAfterFree, Crash, vars
  <2>2. /\ main' = "gone" <=> main = "gone"
        /\ main = "gone" => running' = running
    BY <1>2 DEF MainStep, CallbackSet, SetArgument, SetFree, SetNew, Cleanup,
       CleanupTable, FreeTable, Races, NetworkStarts, NetworkStops,
       UseAfterFree, Crash, vars, appVars
  <2> QED
    BY <2>1, <2>2, AnswerKept
       DEF AnswerInv, handling, Readable, request, Number
<1>3. CASE Event \/ Status \/ EventTest \/ EventLoad \/ EventCall
  <2>1. /\ UNCHANGED <<received, due, answers, reply, main, running>>
        /\ main # "gone"
        /\ net \notin {"do", "answer"} /\ net' \notin {"do", "answer"}
    BY <1>3 DEF Event, Begins, Status, EventTest, EventLoad, EventCall, Goes,
       appVars, AnswerInv
  <2> QED
    BY <2>1, AnswerKept DEF Readable
<1>4. CASE Receive
  <2>1. /\ net = "idle" /\ net' = "do" /\ d' = table /\ running
        /\ UNCHANGED <<answers, reply, main, running>>
        /\ main # "gone"
    BY <1>4 DEF Receive, Begins, appVars, AnswerInv
  <2>2. PICK r \in Requests :
           /\ received' = Append(received, r)
           /\ due' = IF r.method # "unreadable" /\ table # 0
                     THEN Append(due, Len(received) + 1) ELSE due
    BY <1>4 DEF Receive
  <2>3. Len(due) = Len(answers)
    BY <2>1 DEF AnswerInv, Pending, Readable
  <2>4. /\ received' \in Seq(Requests)
        /\ Number' = Len(received) + 1 /\ request' = r
    BY <1>t, <2>2 DEF Number, request
  <2>5. Readable' <=> r.method # "unreadable" /\ table # 0
    BY <2>1, <2>4 DEF Readable
  <2>6. CASE r.method # "unreadable" /\ table # 0
    <3>1. due' = Append(due, Len(received) + 1)
      BY <2>2, <2>6
    <3>2. /\ due' \in Seq(Nat) /\ Len(due') = Len(due) + 1
          /\ due'[Len(due')] = Len(received) + 1
          /\ \A i \in 1 .. Len(due) : due'[i] = due[i]
      BY <1>t, <3>1
    <3>3. AnsweredInOrder'
      BY <1>t, <2>1, <2>3, <3>2 DEF AnsweredInOrder, AnswerInv
    <3> QED
      BY <1>t, <2>1, <2>3, <2>4, <2>5, <2>6, <3>2, <3>3
         DEF AnswerInv, AnswerTyped, Pending
  <2>7. CASE ~(r.method # "unreadable" /\ table # 0)
    <3>1. due' = due
      BY <2>2, <2>7
    <3>2. AnsweredInOrder'
      BY <1>t, <2>1, <2>3, <3>1 DEF AnsweredInOrder, AnswerInv
    <3> QED
      BY <1>t, <2>1, <2>3, <2>4, <2>5, <2>7, <3>1, <3>2
         DEF AnswerInv, AnswerTyped, Pending
  <2> QED
    BY <2>6, <2>7
<1>5. CASE Unreadable
  <2>1. /\ UNCHANGED <<received, due, answers, reply, main, running>>
        /\ main # "gone"
        /\ net = "do" /\ ~Readable /\ net' = "idle"
    BY <1>5 DEF Unreadable, Goes, appVars, AnswerInv
  <2>2. ~Readable'
    BY <2>1 DEF Readable
  <2> QED
    BY <2>1, <2>2, AnswerKept
<1>6. CASE NoMethod \/ NoService \/ Unserved \/ Run
  <2>1. /\ Readable /\ net' = "answer"
        /\ UNCHANGED <<received, due, answers, main, running>>
        /\ \E kind \in {"result", "-32601", "-32000"} :
              reply' = [id |-> Number, kind |-> kind]
    BY <1>6 DEF NoMethod, NoService, Unserved, Run, Runs, Replied, Goes,
       TableRead, appVars
  <2>2. net = "do" /\ main # "gone"
    BY <2>1 DEF Readable, AnswerInv
  <2>3. reply' \in Replies /\ reply'.id = Number
    <3>1. Number \in Nat
      BY <1>t DEF Number
    <3> QED
      BY <2>1, <3>1 DEF Replies
  <2>4. ~Readable' /\ Pending' /\ Pending
    BY <2>1 DEF Readable, Pending
  <2>5. AnsweredInOrder'
    BY <2>1, <2>2 DEF AnsweredInOrder, AnswerInv
  <2> QED
    BY <1>t, <2>1, <2>2, <2>3, <2>4, <2>5 DEF AnswerInv, AnswerTyped
<1>7. CASE Answer
  <2>1. /\ net = "answer" /\ net' = "idle" /\ main # "gone"
        /\ answers' = Append(answers, reply)
        /\ UNCHANGED <<received, due, reply, main, running>>
    BY <1>7 DEF Answer, Goes, appVars, AnswerInv
  <2>2. Len(due) = Len(answers) + 1 /\ due[Len(due)] = reply.id
    BY <2>1 DEF AnswerInv, Pending
  <2>3. /\ answers' \in Seq(Replies) /\ Len(answers') = Len(due)
        /\ answers'[Len(due)] = reply
        /\ \A i \in 1 .. Len(answers) : answers'[i] = answers[i]
    BY <1>t, <2>1, <2>2
  <2>4. \A i \in DOMAIN answers' : answers'[i].id = due[i]
    <3>1. \A i \in 1 .. Len(answers) : answers[i].id = due[i]
      BY <1>t DEF AnswerInv, AnsweredInOrder
    <3>2. DOMAIN answers' = 1 .. Len(answers) + 1
      BY <2>2, <2>3
    <3>3. ASSUME NEW i \in 1 .. Len(answers) + 1
          PROVE  answers'[i].id = due[i]
      <4>1. CASE i \in 1 .. Len(answers)
        BY <2>3, <3>1, <4>1
      <4>2. CASE i = Len(due)
        BY <2>2, <2>3, <4>2
      <4> QED
        BY <1>t, <2>2, <4>1, <4>2
    <3> QED
      BY <3>2, <3>3
  <2>5. AnsweredInOrder' /\ ~Pending' /\ ~Readable'
    BY <1>t, <2>1, <2>3, <2>4 DEF AnsweredInOrder, Pending, Readable
  <2> QED
    BY <1>t, <2>1, <2>3, <2>5 DEF AnswerInv, AnswerTyped
<1> QED
  BY <1>1, <1>2, <1>3, <1>4, <1>5, <1>6, <1>7 DEF Next, MainStep

(* Every request with an id that reaches an application with callbacks is  *)
(* answered once, in the order of arrival (device_management.c:136-201).   *)
THEOREM AnswersInOrder == Spec => []AnsweredInOrder
<1>1. Init => AnswerInv
  BY DEF Init, AnswerInv, AnswerTyped, Pending, Readable, AnsweredInOrder,
     Replies
<1>2. AnswerInv => AnsweredInOrder
  BY DEF AnswerInv
<1> QED
  BY <1>1, <1>2, AnswerStep, PTL DEF Spec

-----------------------------------------------------------------------------
(* What ran: the callbacks of one request each, in the order of arrival,   *)
(* the present one not yet while it is in device_management_do; and the    *)
(* table passed to it is the latest unless the main thread met it.         *)
RanRecords == [id : Nat, method : Services, arg : Nat, ok : BOOLEAN,
               since : Nat]

RanInv ==
    /\ ran \in Seq(RanRecords) /\ Len(ran) <= Number
    /\ net = "do" => Number > 0 /\ Len(ran) < Number
    /\ \A i \in 1 .. Len(ran) :
          /\ ran[i].id \in 1 .. Number
          /\ net = "do" => ran[i].id < Number
          /\ ran[i].arg \in 1 .. Sets
    /\ RanAsAsked

PassedInv ==
    /\ d <= Sets
    /\ main = "idle" => table = Sets
    /\ Unmet /\ net = "do" => d = Sets

(* The numbers of what must be answered rise, so that a callback run for   *)
(* the present request says nothing about the answers given before.        *)
DoneInv ==
    /\ \A i \in 1 .. Len(due) : due[i] \in 1 .. Number
    /\ \A i, j \in 1 .. Len(due) : i < j => due[i] < due[j]
    /\ net = "answer" =>
          (reply.kind = "result"
             <=> \E j \in DOMAIN ran : ran[j].id = reply.id /\ ran[j].ok)
    /\ ResultMeansDone

-----------------------------------------------------------------------------
(* The steps that tell a request from another, and what the rest keeps. *)
QuietStep ==
    /\ UNCHANGED <<received, due, ran, answers, reply, d>>
    /\ net' = "do" => net = "do" /\ raced' = (raced \/ main' # main)
    /\ net' = "answer" => net = "answer"

Refuse == NoMethod \/ NoService \/ Unserved

LEMMA Kinds ==
    ASSUME Typed, [Next]_vars
    PROVE  QuietStep \/ Receive \/ Refuse \/ Run \/ Answer
<1>1. CASE MainStep
  <2>1. UNCHANGED <<received, due, ran, answers, reply, d>>
    BY <1>1 DEF MainStep, CallbackSet, SetArgument, SetFree, SetNew, Cleanup,
       CleanupTable, CleanupDestroy, FreeTable, Races, handling
  <2>2. net' = "idle" \/ (net' = net /\ raced' = (net # "idle")
                            /\ main' # main)
    BY <1>1 DEF MainStep, CallbackSet, SetArgument, SetFree, SetNew, Cleanup,
       CleanupTable, CleanupDestroy, FreeTable, Races, handling
  <2> QED
    BY <2>1, <2>2 DEF QuietStep
<1>2. CASE Event \/ Status \/ EventTest \/ EventLoad \/ EventCall
  BY <1>2 DEF Event, Begins, Status, EventTest, EventLoad, EventCall, Goes,
     QuietStep
<1>3. CASE NetworkStarts \/ NetworkStops \/ UseAfterFree \/ UNCHANGED vars
  <2>1. UNCHANGED <<handling, main, raced>>
    BY <1>3 DEF NetworkStarts, NetworkStops, UseAfterFree, Crash, vars,
       appVars
  <2>2. raced' = (raced \/ main' # main)
    BY <2>1 DEF Typed
  <2> QED
    BY <2>1, <2>2 DEF QuietStep, handling
<1>4. CASE Unreadable
  BY <1>4 DEF Unreadable, Goes, QuietStep
<1> QED
  BY <1>1, <1>2, <1>3, <1>4 DEF Next, MainStep, Refuse

(* Installations are only added. *)
LEMMA OfferedGrows ==
    ASSUME Typed, [Next]_vars
    PROVE  /\ Sets \in Nat /\ Sets' \in Nat /\ Sets <= Sets'
           /\ \A k \in 1 .. Sets : offered'[k] = offered[k]
<1>1. CASE CallbackSet
  <2>1. PICK i \in Installations : offered' = Append(offered, i)
    BY <1>1 DEF CallbackSet
  <2> QED
    BY <1>1, <2>1, SetsStep DEF Typed, Sets
<1> QED
  BY <1>1, SetsStep

(* The table that _cb_message passes on is the latest installation's,      *)
(* unless the main thread met the request.                                 *)
LEMMA PassedStep ==
    UseInv /\ PassedInv /\ [Next]_vars => PassedInv'
<1> SUFFICES ASSUME UseInv, PassedInv, [Next]_vars PROVE PassedInv'
  OBVIOUS
<1>t. /\ Typed /\ TableInv /\ RaceInv /\ Sets \in Nat /\ Sets' \in Nat
      /\ Sets <= Sets' /\ d \in Nat /\ raced \in BOOLEAN
  BY OfferedGrows DEF UseInv, Typed
<1>1. main' = "idle" => table' = Sets'
  <2>1. CASE MainStep /\ ~CallbackSet
    BY <2>1, SetsStep, <1>t DEF MainStep, SetArgument, SetFree, SetNew,
       Cleanup, CleanupTable, CleanupDestroy, FreeTable
  <2>2. CASE CallbackSet
    BY <2>2 DEF CallbackSet
  <2>3. CASE UNCHANGED appVars
    BY <2>3 DEF appVars, PassedInv, Sets
  <2> QED
    BY <2>1, <2>2, <2>3, Steps
<1>2. CASE QuietStep
  <2>1. ASSUME Unmet', net' = "do" PROVE Unmet /\ net = "do" /\ Sets' = Sets
    <3>1. net = "do" /\ ~raced /\ main' = main
      BY <1>2, <2>1, <1>t DEF QuietStep, Unmet
    <3>2. ~CallbackSet
      BY <3>1 DEF CallbackSet
    <3> QED
      BY <3>1, <3>2, SetsStep, <1>t DEF Unmet
  <2> QED
    BY <1>1, <1>2, <1>t, <2>1 DEF QuietStep, PassedInv
<1>3. CASE Receive
  <2>1. /\ d' = table /\ UNCHANGED <<main, offered>>
        /\ raced' = (main # "idle")
    BY <1>3 DEF Receive, Begins, appVars
  <2> QED
    BY <1>1, <1>t, <2>1 DEF PassedInv, TableInv, Unmet, Sets
<1>4. CASE Refuse \/ Run \/ Answer
  <2>1. d' = d /\ net' # "do"
    BY <1>4 DEF Refuse, NoMethod, NoService, Unserved, Run, Replied, Answer,
       Goes
  <2> QED
    BY <1>1, <1>t, <2>1 DEF PassedInv
<1> QED
  BY <1>2, <1>3, <1>4, <1>t, Kinds

-----------------------------------------------------------------------------
LEMMA RanStep ==
    UseInv /\ PassedInv /\ AnswerTyped /\ RanInv /\ [Next]_vars => RanInv'
<1> SUFFICES ASSUME UseInv, PassedInv, AnswerTyped, RanInv, [Next]_vars
             PROVE  RanInv'
  OBVIOUS
<1>t. /\ Typed /\ received \in Seq(Requests) /\ Number \in Nat
      /\ ran \in Seq(RanRecords) /\ Len(ran) \in Nat
      /\ Sets \in Nat /\ Sets' \in Nat /\ Sets <= Sets'
      /\ \A k \in 1 .. Sets : offered'[k] = offered[k]
  BY OfferedGrows DEF UseInv, AnswerTyped, RanInv, Number
<1>k. ASSUME ran' = ran, Number' \in Nat, Number <= Number',
             \A k \in 1 .. Number : received'[k] = received[k],
             net' = "do" => Number' > 0 /\ (net = "do" \/ Number < Number')
      PROVE  RanInv'
  <2>1. RanAsAsked'
    <3>1. \A i \in DOMAIN ran : /\ ran[i].id \in 1 .. Number
                                /\ ran[i].arg \in 1 .. Sets
      BY <1>t DEF RanInv
    <3>2. \A i \in DOMAIN ran :
             /\ received'[ran[i].id] = received[ran[i].id]
             /\ offered'[ran[i].arg] = offered[ran[i].arg]
      BY <1>k, <1>t, <3>1
    <3> QED
      BY <1>k, <3>2 DEF RanInv, RanAsAsked
  <2>2. \A i \in 1 .. Len(ran) : ran[i].id \in Nat /\ ran[i].arg \in Nat
    BY <1>t DEF RanInv
  <2> QED
    BY <1>k, <1>t, <2>1, <2>2 DEF RanInv
<1>1. CASE QuietStep \/ Refuse \/ Answer
  <2>1. ran' = ran /\ received' = received /\ (net' = "do" => net = "do")
    BY <1>1 DEF QuietStep, Refuse, NoMethod, NoService, Unserved, Replied,
       Answer, Goes
  <2> QED
    BY <1>t, <2>1, <1>k DEF RanInv, Number
<1>2. CASE Receive
  <2>1. ran' = ran
    BY <1>2 DEF Receive
  <2>2. PICK r \in Requests : received' = Append(received, r)
    BY <1>2 DEF Receive
  <2>3. /\ Number' = Number + 1
        /\ \A k \in 1 .. Number : received'[k] = received[k]
    BY <1>t, <2>2 DEF Number
  <2> QED
    BY <1>t, <2>1, <2>3, <1>k
<1>3. CASE Run
  <2>1. PICK ok \in BOOLEAN : Runs(ok)
    BY <1>3 DEF Run
  <2> DEFINE e == [id |-> Number, method |-> request.method, arg |-> d,
                   ok |-> ok, since |-> IF raced THEN 0 ELSE Sets]
  <2>2. /\ ran' = Append(ran, e) /\ net = "do" /\ d # 0
        /\ request.method \in Services /\ request.method \in offered[d].ops
        /\ request.method \in WithParams => request.whole
    BY <2>1 DEF Runs, TableRead, Readable, Served
  <2>3. /\ UNCHANGED <<received, offered>> /\ net' = "answer"
    BY <1>3 DEF Run, Replied, Goes, appVars
  <2>4. d \in 1 .. Sets /\ (~raced => d = Sets)
    BY <1>t, <2>2 DEF UseInv, Typed, PassedInv, Unmet
  <2>5. e \in RanRecords /\ e.since <= e.arg
    BY <1>t, <2>2, <2>4 DEF RanRecords, UseInv, Typed
  <2>6. /\ ran' \in Seq(RanRecords) /\ Len(ran') = Len(ran) + 1
        /\ ran'[Len(ran) + 1] = e
        /\ \A i \in 1 .. Len(ran) : ran'[i] = ran[i]
    BY <1>t, <2>2, <2>5
  <2>7. \A i \in 1 .. Len(ran) : ran[i].id \in 1 .. Number
                                   /\ ran[i].id < Number
    BY <2>2 DEF RanInv
  <2>n. Number > 0 /\ Len(ran) < Number /\ request = received[Number]
    BY <2>2 DEF RanInv, request
  <2> HIDE DEF e
  <2>e. /\ e.id = Number /\ e.method = request.method /\ e.arg = d
    BY DEF e
  <2>8. RanAsAsked'
    <3>1. ASSUME NEW i \in 1 .. Len(ran) + 1
          PROVE  LET r == received[ran'[i].id] IN
                   /\ r.method = ran'[i].method
                   /\ r.method \in WithParams => r.whole
                   /\ r.method \in offered[ran'[i].arg].ops
                   /\ ran'[i].arg >= ran'[i].since
      <4>1. CASE i \in 1 .. Len(ran)
        BY <1>t, <2>6, <4>1, SMTT(20) DEF RanInv, RanAsAsked
      <4>2. CASE i = Len(ran) + 1
        <5>1. ran'[i] = e /\ e.since \in Nat /\ e.arg \in Nat
          BY <2>5, <2>6, <4>2 DEF RanRecords
        <5> QED
          BY <2>2, <2>5, <2>n, <2>e, <5>1
      <4> QED
        BY <1>t, <4>1, <4>2
    <3>2. ASSUME NEW i \in 1 .. Len(ran) + 1, NEW j \in 1 .. Len(ran) + 1,
                 i < j
          PROVE  ran'[i].id < ran'[j].id
      <4>1. CASE j \in 1 .. Len(ran)
        <5>1. i \in 1 .. Len(ran) /\ DOMAIN ran = 1 .. Len(ran)
          BY <1>t, <3>2, <4>1
        <5>2. ran[i].id < ran[j].id
          BY <3>2, <4>1, <5>1 DEF RanInv, RanAsAsked
        <5> QED
          BY <2>6, <4>1, <5>1, <5>2
      <4>2. CASE j = Len(ran) + 1
        <5>1. i \in 1 .. Len(ran)
          BY <1>t, <3>2, <4>2
        <5>2. ran'[i] = ran[i] /\ ran[i].id < Number
          BY <2>6, <2>7, <5>1
        <5>3. ran'[j].id = Number
          BY <2>6, <2>e, <4>2
        <5> QED
          BY <5>2, <5>3
      <4> QED
        BY <1>t, <4>1, <4>2
    <3>3. DOMAIN ran' = 1 .. Len(ran) + 1
      BY <2>6
    <3> QED
      BY <2>3, <3>1, <3>2, <3>3 DEF RanAsAsked
  <2>9. \A i \in 1 .. Len(ran') :
           ran'[i].id \in 1 .. Number /\ ran'[i].arg \in 1 .. Sets
    <3>1. \A i \in 1 .. Len(ran) :
             ran'[i].id \in 1 .. Number /\ ran'[i].arg \in 1 .. Sets
      BY <2>6 DEF RanInv
    <3>2. /\ ran'[Len(ran) + 1].id \in 1 .. Number
          /\ ran'[Len(ran) + 1].arg \in 1 .. Sets
      BY <1>t, <2>4, <2>6, <2>n, <2>e
    <3>3. \A i \in 1 .. Len(ran') : i \in 1 .. Len(ran) \/ i = Len(ran) + 1
      BY <1>t, <2>6
    <3> QED
      BY <3>1, <3>2, <3>3
  <2>10. Number' = Number /\ Sets' = Sets
    BY <2>3 DEF Number, Sets
  <2> QED
    BY <1>t, <2>3, <2>6, <2>8, <2>9, <2>10, <2>n DEF RanInv
<1> QED
  BY <1>t, <1>1, <1>2, <1>3, Kinds

(* No answer speaks of the request being handled before it is published.   *)
LEMMA DoneStep ==
    AnswerInv /\ RanInv /\ DoneInv /\ [Next]_vars /\ Typed => DoneInv'
<1> SUFFICES ASSUME AnswerInv, RanInv, DoneInv, [Next]_vars, Typed
             PROVE  DoneInv'
  OBVIOUS
<1>t. /\ received \in Seq(Requests) /\ Number \in Nat
      /\ due \in Seq(Nat) /\ answers \in Seq(Replies)
      /\ Len(due) \in Nat /\ Len(answers) \in Nat
      /\ ran \in Seq(RanRecords) /\ Len(ran) \in Nat
      /\ DOMAIN ran = 1 .. Len(ran) /\ DOMAIN answers = 1 .. Len(answers)
  BY DEF AnswerInv, AnswerTyped, RanInv, Number
<1>1. CASE QuietStep
  <2>1. /\ UNCHANGED <<received, due, ran, answers, reply>>
        /\ net' = "answer" => net = "answer"
    BY <1>1 DEF QuietStep
  <2> QED
    BY <2>1 DEF DoneInv, ResultMeansDone, Number
<1>2. CASE Receive
  <2>1. UNCHANGED <<ran, answers, reply>> /\ net' = "do"
    BY <1>2 DEF Receive, Begins
  <2>2. PICK r \in Requests :
           /\ received' = Append(received, r)
           /\ due' = IF r.method # "unreadable" /\ table # 0
                     THEN Append(due, Len(received) + 1) ELSE due
    BY <1>2 DEF Receive
  <2>3. Number' = Number + 1
    BY <1>t, <2>2 DEF Number
  <2>r. ResultMeansDone' /\ net' # "answer"
    BY <2>1 DEF DoneInv, ResultMeansDone
  <2>d. /\ \A i \in 1 .. Len(due) : due[i] \in 1 .. Number
        /\ \A i, j \in 1 .. Len(due) : i < j => due[i] < due[j]
    BY DEF DoneInv
  <2>4. CASE due' = due
    <3>1. \A i \in 1 .. Len(due') : due'[i] \in 1 .. Number'
      BY <1>t, <2>3, <2>4, <2>d
    <3> QED
      BY <2>4, <2>r, <2>d, <3>1 DEF DoneInv
  <2>5. CASE due' = Append(due, Number + 1)
    <3>1. /\ Len(due') = Len(due) + 1 /\ due'[Len(due) + 1] = Number + 1
          /\ \A i \in 1 .. Len(due) : due'[i] = due[i]
      BY <1>t, <2>5
    <3>2. \A i \in 1 .. Len(due') : due'[i] \in 1 .. Number'
      <4> SUFFICES ASSUME NEW i \in 1 .. Len(due) + 1
                   PROVE  due'[i] \in 1 .. Number + 1
        BY <2>3, <3>1
      <4>1. CASE i \in 1 .. Len(due)
        <5>1. due'[i] = due[i] /\ due[i] \in 1 .. Number
          BY <2>d, <3>1, <4>1
        <5> QED
          BY <1>t, <5>1
      <4>2. CASE i = Len(due) + 1
        BY <1>t, <3>1, <4>2
      <4> QED
        BY <1>t, <4>1, <4>2
    <3>3. ASSUME NEW i \in 1 .. Len(due'), NEW j \in 1 .. Len(due'), i < j
          PROVE  due'[i] < due'[j]
      <4>1. i \in 1 .. Len(due) /\ due'[i] = due[i] /\ due[i] \in 1 .. Number
        BY <1>t, <2>d, <3>1, <3>3
      <4>2. CASE j \in 1 .. Len(due)
        BY <2>d, <3>1, <3>3, <4>1, <4>2
      <4>3. CASE j = Len(due) + 1
        BY <1>t, <3>1, <4>1, <4>3
      <4> QED
        BY <1>t, <3>1, <4>2, <4>3
    <3> QED
      BY <2>r, <3>2, <3>3 DEF DoneInv
  <2> QED
    BY <2>2, <2>4, <2>5 DEF Number
<1>3. CASE Refuse
  <2>1. /\ UNCHANGED <<received, due, ran, answers>> /\ net = "do"
        /\ reply'.id = Number /\ reply'.kind # "result"
    BY <1>3 DEF Refuse, NoMethod, NoService, Unserved, Replied, Readable,
       TableRead, Goes
  <2>2. \A j \in DOMAIN ran : ran[j].id # Number
    BY <1>t, <2>1 DEF RanInv
  <2>3. /\ reply'.kind = "result" <=>
              \E j \in DOMAIN ran' : ran'[j].id = reply'.id /\ ran'[j].ok
        /\ ResultMeansDone'
    BY <2>1, <2>2 DEF DoneInv, ResultMeansDone
  <2> QED
    BY <2>1, <2>3 DEF DoneInv, Number
<1>4. CASE Run
  <2>1. PICK ok \in BOOLEAN :
           Runs(ok) /\ Replied(IF ok THEN "result" ELSE "-32000")
    BY <1>4 DEF Run
  <2>2. PICK e \in {[id |-> Number, method |-> request.method, arg |-> d,
                     ok |-> ok, since |-> IF raced THEN 0 ELSE Sets]} :
           ran' = Append(ran, e)
    BY <2>1 DEF Runs
  <2>3. /\ e.id = Number /\ e.ok = ok /\ net = "do"
        /\ UNCHANGED <<received, due, answers>>
        /\ reply'.id = Number /\ (reply'.kind = "result" <=> ok)
    BY <2>1, <2>2 DEF Replied, Runs, TableRead, Readable, Goes
  <2>4. /\ DOMAIN ran' = 1 .. Len(ran) + 1 /\ ran'[Len(ran) + 1] = e
        /\ \A j \in 1 .. Len(ran) : ran'[j] = ran[j]
    BY <1>t, <2>2
  <2>5. \A j \in 1 .. Len(ran) : ran[j].id # Number
    BY <1>t, <2>3 DEF RanInv
  <2>6. reply'.kind = "result" <=>
           \E j \in DOMAIN ran' : ran'[j].id = reply'.id /\ ran'[j].ok
    <3>1. \A j \in DOMAIN ran' :
             ran'[j].id = Number => j = Len(ran) + 1
      <4>0. Len(ran) \in Nat
        BY <1>t
      <4>1. \A j \in 1 .. Len(ran) + 1 :
               j \in 1 .. Len(ran) \/ j = Len(ran) + 1
        BY <4>0
      <4> QED
        BY <2>4, <2>5, <4>1
    <3>2. /\ Len(ran) + 1 \in DOMAIN ran'
          /\ ran'[Len(ran) + 1].id = Number /\ ran'[Len(ran) + 1].ok = ok
      BY <1>t, <2>3, <2>4
    <3> QED
      BY <2>3, <3>1, <3>2
  <2>7. ResultMeansDone'
    <3>1. \A i \in 1 .. Len(answers) : answers[i].id # Number
      <4>1. Len(due) = Len(answers) + 1 /\ due[Len(due)] = Number
        <5>1. Readable
          BY <2>1 DEF Runs, TableRead
        <5> QED
          BY <5>1 DEF AnswerInv, Pending
      <4>2. \A i \in 1 .. Len(answers) :
               answers[i].id = due[i] /\ due[i] < due[Len(due)]
        <5> SUFFICES ASSUME NEW i \in 1 .. Len(answers)
                     PROVE  answers[i].id = due[i] /\ due[i] < due[Len(due)]
          OBVIOUS
        <5>1. /\ i \in 1 .. Len(due) /\ Len(due) \in 1 .. Len(due)
              /\ i < Len(due)
          BY <1>t, <4>1
        <5> QED
          BY <1>t, <5>1 DEF AnswerInv, AnsweredInOrder, DoneInv
      <4>3. \A i \in 1 .. Len(answers) : due[i] \in Nat
        BY <1>t, <4>1
      <4> QED
        BY <1>t, <4>1, <4>2, <4>3
    <3>2. ASSUME NEW i \in 1 .. Len(answers)
          PROVE  (\E j \in 1 .. Len(ran) + 1 :
                     ran'[j].id = answers[i].id /\ ran'[j].ok)
                 <=> \E j \in 1 .. Len(ran) :
                        ran[j].id = answers[i].id /\ ran[j].ok
      BY <1>t, <2>3, <2>4, <3>1
    <3> QED
      BY <1>t, <2>3, <2>4, <3>2 DEF DoneInv, ResultMeansDone
  <2> QED
    BY <2>3, <2>6, <2>7 DEF DoneInv, Number
<1>5. CASE Answer
  <2>1. /\ UNCHANGED <<received, due, ran, reply>> /\ net = "answer"
        /\ answers' = Append(answers, reply) /\ net' = "idle"
        /\ reply \in Replies
    BY <1>5 DEF Answer, Goes, AnswerInv, AnswerTyped
  <2>2. /\ DOMAIN answers' = 1 .. Len(answers) + 1
        /\ answers'[Len(answers) + 1] = reply
        /\ \A i \in 1 .. Len(answers) : answers'[i] = answers[i]
    BY <1>t, <2>1
  <2>3. ASSUME NEW i \in 1 .. Len(answers) + 1
        PROVE  answers'[i].kind = "result"
                  <=> \E j \in DOMAIN ran : ran[j].id = answers'[i].id
                                              /\ ran[j].ok
    <3>1. CASE i \in 1 .. Len(answers)
      <4>1. answers'[i] = answers[i] /\ i \in DOMAIN answers
        BY <1>t, <2>2, <3>1
      <4>2. answers[i].kind = "result"
               <=> \E j \in DOMAIN ran :
                      ran[j].id = answers[i].id /\ ran[j].ok
        BY <4>1 DEF DoneInv, ResultMeansDone
      <4> QED
        BY <4>1, <4>2
    <3>2. CASE i = Len(answers) + 1
      <4>1. answers'[i] = reply
        BY <2>2, <3>2
      <4>2. reply.kind = "result"
               <=> \E j \in DOMAIN ran : ran[j].id = reply.id /\ ran[j].ok
        BY <2>1 DEF DoneInv
      <4> QED
        BY <4>1, <4>2
    <3> QED
      BY <1>t, <3>1, <3>2
  <2> QED
    BY <2>1, <2>2, <2>3 DEF DoneInv, ResultMeansDone, Number
<1> QED
  BY <1>1, <1>2, <1>3, <1>4, <1>5, Kinds

LEMMA DeepInvariant ==
    Spec => [](UseInv /\ AnswerInv /\ PassedInv /\ RanInv /\ DoneInv)
<1>1. Init => UseInv /\ AnswerInv
  BY UseInit
     DEF Init, AnswerInv, AnswerTyped, Pending, Readable, AnsweredInOrder,
     Replies
<1>2. Init => PassedInv /\ RanInv /\ DoneInv
  <2> SUFFICES ASSUME Init PROVE PassedInv /\ RanInv /\ DoneInv
    OBVIOUS
  <2>1. /\ Sets = 0 /\ Number = 0 /\ ran = <<>> /\ due = <<>>
        /\ answers = <<>> /\ net = "idle" /\ d = 0 /\ table = 0
    BY DEF Init, Sets, Number
  <2>2. Len(ran) = 0 /\ DOMAIN ran = {} /\ ran \in Seq(RanRecords)
    BY <2>1
  <2>3. PassedInv /\ RanInv
    BY <2>1, <2>2 DEF PassedInv, RanInv, RanAsAsked, Unmet
  <2>4. DoneInv
    BY <2>1 DEF DoneInv, ResultMeansDone
  <2> QED
    BY <2>3, <2>4
<1>3. UseInv => Typed
  BY DEF UseInv
<1>4. AnswerInv => AnswerTyped
  BY DEF AnswerInv
<1> QED
  BY <1>1, <1>2, <1>3, <1>4, UseStep, AnswerStep, PassedStep, RanStep,
     DoneStep, PTL DEF Spec

(* A callback runs once at most for a request, for the method it names, on *)
(* the parameters it needs, and one of the last completed installation if  *)
(* the main thread did not meet the request (device_management.c:74-119,   *)
(* mqtt.c:488-503).                                                        *)
THEOREM CallbacksAsAsked == Spec => []RanAsAsked
<1>1. RanInv => RanAsAsked
  BY DEF RanInv
<1> QED
  BY <1>1, DeepInvariant, PTL

(* The server is told "result" for exactly the requests whose callback     *)
(* returned true (device_management.c:191-199).                            *)
THEOREM ResultsTrue == Spec => []ResultMeansDone
<1>1. DoneInv => ResultMeansDone
  BY DEF DoneInv
<1> QED
  BY <1>1, DeepInvariant, PTL

-----------------------------------------------------------------------------
(* The refinement.  What the server is promised changes only in five of    *)
(* the classes of steps above.                                             *)
LEMMA GoneStays ==
    [Next]_vars => /\ main = "gone" => main' = "gone"
                   /\ Receive \/ Refuse \/ Run \/ Answer => main' = main
<1> SUFFICES ASSUME [Next]_vars
             PROVE  /\ main = "gone" => main' = "gone"
                    /\ Receive \/ Refuse \/ Run \/ Answer => main' = main
  OBVIOUS
<1>1. ASSUME main = "gone" PROVE main' = "gone"
  <2>1. ~MainStep
    BY <1>1 DEF MainStep, CallbackSet, SetArgument, SetFree, SetNew, Cleanup,
       CleanupTable, CleanupDestroy, FreeTable
  <2> QED
    BY <1>1, <2>1, Steps DEF appVars
<1>2. Receive \/ Refuse \/ Run \/ Answer => main' = main
  BY DEF Receive, Begins, Refuse, NoMethod, NoService, Unserved, Run,
     Replied, Answer, Goes, appVars
<1> QED
  BY <1>1, <1>2

LEMMA ServerStep ==
    UseInv /\ AnswerInv /\ RanInv /\ DoneInv /\ [Next]_vars
        => [Server!Next]_(Server!service)
<1> SUFFICES ASSUME UseInv, AnswerInv, RanInv, DoneInv, [Next]_vars
             PROVE  [Server!Next]_(Server!service)
  OBVIOUS
<1> USE DEF Server!service
<1>t. /\ Typed /\ received \in Seq(Requests) /\ Number \in Nat
      /\ due \in Seq(Nat) /\ answers \in Seq(Replies)
      /\ Len(due) \in Nat /\ Len(answers) \in Nat
      /\ ran \in Seq(RanRecords) /\ Len(ran) \in Nat
      /\ DOMAIN ran = 1 .. Len(ran)
  BY DEF UseInv, AnswerInv, AnswerTyped, RanInv, Number
<1>1. CASE QuietStep
  <2>1. /\ UNCHANGED <<received, due, ran, answers>>
        /\ main = "gone" => main' = "gone"
    BY <1>1, GoneStays DEF QuietStep
  <2>2. UNCHANGED <<Number, due, Did, answers>>
    BY <2>1 DEF Number, Did
  <2>3. CASE main' = "gone" /\ main # "gone"
    BY <2>2, <2>3 DEF Server!Next, Server!Close
  <2>4. CASE main' = "gone" <=> main = "gone"
    BY <2>2, <2>4
  <2> QED
    BY <2>1, <2>3, <2>4
<1>2. CASE Receive
  <2>1. /\ UNCHANGED <<ran, answers, main>> /\ net = "idle" /\ running
        /\ main # "gone"
    BY <1>2, GoneStays DEF Receive, Begins, AnswerInv
  <2>2. PICK r \in Requests :
           /\ received' = Append(received, r)
           /\ due' = IF r.method # "unreadable" /\ table # 0
                     THEN Append(due, Len(received) + 1) ELSE due
    BY <1>2 DEF Receive
  <2>3. Number' = Number + 1 /\ due' \in {due, Append(due, Number')}
    <3>1. Number' = Number + 1 /\ Number = Len(received)
      BY <1>t, <2>2 DEF Number
    <3> QED
      BY <2>2, <3>1
  <2>4. Len(due) = Len(answers) /\ Did' = Did
    BY <2>1 DEF AnswerInv, Pending, Readable, Did
  <2> QED
    BY <1>t, <2>1, <2>3, <2>4 DEF Server!Next, Server!Arrive, Server!Waiting
<1>3. CASE Refuse
  <2>1. UNCHANGED <<received, due, ran, answers, main>>
    BY <1>3, GoneStays DEF Refuse, NoMethod, NoService, Unserved, Replied,
       Goes
  <2> QED
    BY <2>1 DEF Number, Did
<1>4. CASE Run
  <2>1. PICK ok \in BOOLEAN :
           Runs(ok) /\ Replied(IF ok THEN "result" ELSE "-32000")
    BY <1>4 DEF Run
  <2>2. PICK e \in {[id |-> Number, method |-> request.method, arg |-> d,
                     ok |-> ok, since |-> IF raced THEN 0 ELSE Sets]} :
           ran' = Append(ran, e)
    BY <2>1 DEF Runs
  <2>3. /\ e.id = Number /\ e.ok = ok /\ Readable /\ net = "do"
        /\ UNCHANGED <<received, due, answers, main>>
    BY <1>4, <2>1, <2>2, GoneStays DEF Replied, Runs, TableRead, Readable,
       Goes
  <2>4. /\ DOMAIN ran' = 1 .. Len(ran) + 1 /\ ran'[Len(ran) + 1] = e
        /\ \A i \in 1 .. Len(ran) : ran'[i] = ran[i]
    BY <1>t, <2>2
  <2>5. Did' = Did \cup {[id |-> Number, ok |-> ok]}
    <3>1. \A i : i \in DOMAIN ran' <=> i \in DOMAIN ran \/ i = Len(ran) + 1
      BY <1>t, <2>4
    <3> QED
      BY <1>t, <2>3, <2>4, <3>1 DEF Did
  <2>6. \A a \in Did : a.id # Number
    BY <1>t, <2>3 DEF RanInv, Did
  <2>7. /\ main # "gone" /\ Len(due) > Len(answers)
        /\ due[Len(due)] = Number /\ Number' = Number
    BY <1>t, <2>3 DEF AnswerInv, Pending, Number
  <2> QED
    BY <2>3, <2>5, <2>6, <2>7
       DEF Server!Next, Server!Do, Server!Waiting, Server!Asked
<1>5. CASE Answer
  <2>1. /\ UNCHANGED <<received, due, ran, main>> /\ net = "answer"
        /\ answers' = Append(answers, reply) /\ reply \in Replies
    BY <1>5, GoneStays DEF Answer, Goes, AnswerInv, AnswerTyped
  <2>2. /\ main # "gone" /\ Len(due) > Len(answers)
        /\ due[Len(due)] = reply.id
    BY <1>t, <2>1 DEF AnswerInv, Pending
  <2>3. /\ reply.kind \in {"result", "-32601", "-32000"}
        /\ reply = [id |-> reply.id, kind |-> reply.kind]
    BY <2>1 DEF Replies
  <2>4. reply.kind = "result" <=> [id |-> reply.id, ok |-> TRUE] \in Did
    <3>1. \A i \in DOMAIN ran : ran[i].ok \in BOOLEAN
      <4>1. \A i \in DOMAIN ran : ran[i] \in RanRecords
        BY <1>t
      <4> QED
        BY <4>1 DEF RanRecords
    <3>2. [id |-> reply.id, ok |-> TRUE] \in Did
             <=> \E i \in DOMAIN ran : ran[i].id = reply.id /\ ran[i].ok
      BY <3>1 DEF Did
    <3> QED
      BY <2>1, <3>2 DEF DoneInv
  <2>5. Number' = Number /\ Did' = Did
    BY <2>1 DEF Number, Did
  <2> QED
    BY <2>1, <2>2, <2>3, <2>4, <2>5
       DEF Server!Next, Server!Answer, Server!Waiting, Server!Asked
<1> QED
  BY <1>t, <1>1, <1>2, <1>3, <1>4, <1>5, Kinds

(* For any requests, callbacks and installations that meet them: what the  *)
(* server sees are the steps of RequestServer.                             *)
THEOREM Implements == Spec => ImplementsServer
<1>1. Init => Server!Init
  <2> SUFFICES ASSUME Init PROVE Server!Init
    OBVIOUS
  <2>1. Number = 0 /\ DOMAIN ran = {}
    BY DEF Init, Number
  <2> QED
    BY <2>1 DEF Init, Server!Init, Did
<1> QED
  BY <1>1, ServerStep, DeepInvariant, PTL
     DEF Spec, ImplementsServer, Server!Spec

-----------------------------------------------------------------------------
(* TypeOK adds to the types used so far what only it speaks of: where the  *)
(* threads are, and the bounds.                                            *)
PlacesInv ==
    /\ main \in {"idle", "set_arg", "set_free", "set_new",
                 "x_table", "x_destroy", "gone"}
    /\ net \in {"idle", "do", "answer", "status", "test", "load", "call"}
    /\ Sets <= MaxSets /\ Number <= MaxRequests
    /\ argument \in 0 .. Sets /\ 0 \notin freed
    /\ events \in 0 .. MaxEvents /\ runs \in 0 .. MaxRuns

LEMMA PlacesStep == Typed /\ AnswerTyped /\ PlacesInv /\ [Next]_vars
                        => PlacesInv'
<1> SUFFICES ASSUME Typed, AnswerTyped, PlacesInv, [Next]_vars
             PROVE  PlacesInv'
  OBVIOUS
<1>t. /\ Sets \in Nat /\ received \in Seq(Requests) /\ Number \in Nat
      /\ table \in Nat
  BY SetsStep DEF Typed, AnswerTyped, Number
<1> USE BoundsAssumption
<1>1. CASE CallbackSet
  <2>1. /\ Sets' = Sets + 1 /\ Sets < MaxSets /\ main' = "set_arg"
        /\ UNCHANGED <<argument, freed, net, received, events, runs>>
    BY <1>1, SetsStep DEF CallbackSet, Races, handling
  <2> QED
    BY <1>t, <2>1 DEF PlacesInv, Number
<1>2. CASE MainStep /\ ~CallbackSet
  <2>1. Sets' = Sets /\ UNCHANGED <<received, events, runs>>
    BY <1>2, SetsStep DEF MainStep, SetArgument, SetFree, SetNew, Cleanup,
       CleanupTable, CleanupDestroy, FreeTable, Races, handling
  <2>2. argument' \in {argument, Sets} /\ net' \in {net, "idle"}
    BY <1>2 DEF MainStep, SetArgument, SetFree, SetNew, Cleanup,
       CleanupTable, CleanupDestroy, FreeTable, Races, handling
  <2>3. /\ main' \in {"set_free", "set_new", "idle", "x_table", "x_destroy",
                      "gone"}
        /\ 0 \notin freed'
    BY <1>2 DEF MainStep, SetArgument, SetFree, SetNew, Cleanup,
       CleanupTable, CleanupDestroy, FreeTable, PlacesInv
  <2> QED
    BY <1>t, <2>1, <2>2, <2>3 DEF PlacesInv, Number
<1>3. CASE NetworkStarts \/ NetworkStops \/ UseAfterFree \/ UNCHANGED vars
  <2>1. UNCHANGED <<appVars, net, received, events>>
    BY <1>3 DEF NetworkStarts, NetworkStops, UseAfterFree, Crash, vars,
       handling
  <2>2. runs' \in 0 .. MaxRuns
    BY <1>3 DEF NetworkStarts, NetworkStops, UseAfterFree, Crash, vars,
       PlacesInv
  <2> QED
    BY <2>1, <2>2 DEF PlacesInv, Number, Sets, appVars
<1>4. CASE Event
  <2>1. /\ UNCHANGED <<appVars, received, runs>>
        /\ net' \in {"status", "test"} /\ events' \in 0 .. MaxEvents
    BY <1>4 DEF Event, Begins, PlacesInv
  <2> QED
    BY <2>1 DEF PlacesInv, Number, Sets, appVars
<1>5. CASE Receive
  <2>1. /\ UNCHANGED <<appVars, events, runs>> /\ net' = "do"
        /\ Len(received) < MaxRequests
        /\ \E r \in Requests : received' = Append(received, r)
    BY <1>5 DEF Receive, Begins
  <2>2. Number' = Number + 1
    BY <1>t, <2>1 DEF Number
  <2> QED
    BY <1>t, <2>1, <2>2 DEF PlacesInv, Number, Sets, appVars
<1>6. CASE Status \/ EventTest \/ EventLoad \/ EventCall \/ Unreadable
           \/ NoMethod \/ NoService \/ Unserved \/ Run \/ Answer
  <2>1. /\ UNCHANGED <<appVars, events, runs, received>>
        /\ net' \in {"test", "load", "idle", "call", "answer"}
    BY <1>6 DEF Status, EventTest, EventLoad, EventCall, Unreadable, NoMethod,
       NoService, Unserved, Run, Answer, Replied, Goes
  <2> QED
    BY <2>1 DEF PlacesInv, Number, Sets, appVars
<1> QED
  BY <1>1, <1>2, <1>3, <1>4, <1>5, <1>6 DEF Next, MainStep

(* Type correctness: among others, nothing is freed that was not made,     *)
(* more callbacks never run than requests arrive, nor are more answers     *)
(* published than are due.                                                 *)
THEOREM TypeCorrect == Spec => []TypeOK
<1>1. Init => PlacesInv
  BY BoundsAssumption DEF Init, PlacesInv, Sets, Number
<1>2. UseInv /\ AnswerInv /\ PassedInv /\ RanInv /\ PlacesInv => TypeOK
  <2> SUFFICES ASSUME UseInv, AnswerInv, PassedInv, RanInv, PlacesInv
               PROVE  TypeOK
    OBVIOUS
  <2>1. /\ Sets \in Nat /\ offered \in Seq(Installations)
        /\ callback \in 0 .. Sets /\ table \in 0 .. Sets /\ d \in 0 .. Sets
        /\ freed \subseteq 1 .. Sets
    BY DEF UseInv, Typed, TableInv, LatestInv, PassedInv, PlacesInv, Sets
  <2>2. /\ running \in BOOLEAN /\ wild \in BOOLEAN /\ raced \in BOOLEAN
    BY DEF UseInv, Typed
  <2>3. /\ reply \in Replies /\ received \in Seq(Requests)
        /\ due \in Seq(Nat) /\ answers \in Seq(Replies)
        /\ Len(answers) <= Len(due) /\ Len(ran) <= Len(received)
    BY DEF AnswerInv, AnswerTyped, AnsweredInOrder, RanInv, Number
  <2> QED
    BY <2>1, <2>2, <2>3 DEF PlacesInv, TypeOK, Number
<1>3. UseInv => Typed
  BY DEF UseInv
<1>4. AnswerInv => AnswerTyped
  BY DEF AnswerInv
<1> QED
  BY <1>1, <1>2, <1>3, <1>4, PlacesStep, DeepInvariant, PTL DEF Spec
=============================================================================
