-------------------------- MODULE DeviceManagement --------------------------
(***************************************************************************)
(* The application's callbacks and the requests of the server              *)
(* (library/src/mqtt/device_management.c; mqtt_callback_set, mqtt_cleanup, *)
(* _cb_connected, _cb_disconnected, _cb_publish, _cb_message of mqtt.c).   *)
(* The main thread installs callbacks and at last cleans up; the network   *)
(* thread calls them and answers requests.  Nothing locks what they share, *)
(* so the main thread's assignments and frees are steps of their own.      *)
(*                                                                         *)
(* The k-th call of mqtt_callback_set is installation k; it stands for the *)
(* struct, the argument and the device_management table it makes.  A       *)
(* request is numbered on arrival; the number stands for the JSON id.      *)
(***************************************************************************)
EXTENDS Integers, Sequences

CONSTANTS
    Services,       \* the methods requests are made for
    MaxRequests,    \* bound: requests
    MaxEvents,      \* bound: connections, losses and deliveries
    MaxSets,        \* bound: calls of mqtt_callback_set
    MaxRuns         \* bound: starts of the network thread

(* _services_ops, and what each of them needs in "params" *)
Methods == {"controlActuator", "timeSync", "setProperty", "poweroff",
            "reboot", "restart", "swUpdate", "swInfo"}
WithParams == {"controlActuator", "timeSync", "setProperty"}

ASSUME ServicesAssumption == Services \subseteq Methods

ASSUME BoundsAssumption ==
    /\ MaxRequests \in Nat /\ MaxEvents \in Nat
    /\ MaxSets \in Nat /\ MaxRuns \in Nat

(* What can arrive: "unreadable" is no JSON or has no id, "missing" has no *)
(* method; whole says that "params" holds all the method needs.  A method  *)
(* is a string: one that is null, which crashes the code, is left out.     *)
Requests ==
    {r \in [method : Services \cup {"unreadable", "missing", "unknown"},
            whole : BOOLEAN] : r.whole \/ r.method \in WithParams}

(* What can be installed: the callbacks of requests that are not NULL, and *)
(* whether those of events are.                                            *)
Installations == [ops : SUBSET Services, hook : BOOLEAN]

Replies == [id : Nat, kind : {"result", "-32601", "-32000"}]

VARIABLES
    main,       \* where the main thread is; "idle" between its calls
    offered,    \* the installations, in order
    callback,   \* t->callback: an installation, or 0 after calloc
    argument,   \* t->callback_arg: an installation's, or 0
    table,      \* t->device_management: an installation's, or 0 for NULL
    freed,      \* the tables that were freed
    running,    \* the network thread exists
    net,        \* where the network thread is; "idle" between callbacks
    d,          \* the table _cb_message has passed to device_management_do
    reply,      \* the answer being built
    answers,    \* answers published
    wild,       \* freed memory was used or NULL called: anything may follow
    received,   \* history: requests that arrived
    due,        \* history: the numbers of those that must be answered
    ran,        \* history: callbacks called for requests
    told,       \* history: the last callback called for an event
    raced,      \* history: what is handled met a call of the main thread
    events, runs    \* histories, for the bounds

appVars == <<main, offered, callback, argument, table, freed>>
handling == <<net, d, reply, answers, received, due, ran, told, events>>
vars == <<appVars, running, handling, wild, raced, runs>>

Sets == Len(offered)

TypeOK ==
    /\ main \in {"idle", "set_arg", "set_free", "set_new",
                 "x_table", "x_destroy", "gone"}
    /\ offered \in Seq(Installations) /\ Sets <= MaxSets
    /\ callback \in 0 .. Sets /\ argument \in 0 .. Sets
    /\ table \in 0 .. Sets /\ d \in 0 .. Sets /\ freed \subseteq 1 .. Sets
    /\ running \in BOOLEAN /\ wild \in BOOLEAN /\ raced \in BOOLEAN
    /\ net \in {"idle", "do", "answer", "status", "test", "load", "call"}
    /\ reply \in Replies
    /\ received \in Seq(Requests) /\ Len(received) <= MaxRequests
    /\ due \in Seq(Nat) /\ answers \in Seq(Replies)
    /\ Len(ran) <= Len(received) /\ Len(answers) <= Len(due)
    /\ events \in 0 .. MaxEvents /\ runs \in 0 .. MaxRuns

(* mqtt_init: calloc, so every callback is NULL and there is no table. *)
Init ==
    /\ main = "idle" /\ offered = <<>> /\ callback = 0 /\ argument = 0
    /\ table = 0 /\ freed = {} /\ d = 0
    /\ running = FALSE /\ wild = FALSE /\ raced = FALSE
    /\ net = "idle" /\ received = <<>> /\ due = <<>> /\ ran = <<>>
    /\ reply = [id |-> 0, kind |-> "-32000"] /\ answers = <<>>
    /\ told = [fn |-> 0, arg |-> 0, last |-> 0, raced |-> FALSE]
    /\ events = 0 /\ runs = 0

-----------------------------------------------------------------------------
(* The main thread. *)

(* Its step meets whatever the network thread is handling. *)
Races ==
    /\ raced' = (net # "idle")
    /\ UNCHANGED <<running, handling, wild, runs>>

(* mqtt_callback_set: the struct is copied. *)
CallbackSet ==
    /\ main = "idle" /\ Sets < MaxSets
    /\ \E i \in Installations : offered' = Append(offered, i)
    /\ callback' = Sets + 1
    /\ main' = "set_arg"
    /\ UNCHANGED <<argument, table, freed>> /\ Races

(* Mutant: the argument of the first call is kept. *)
SetArgumentOnce ==
    /\ main = "set_arg"
    /\ argument' = IF argument = 0 THEN Sets ELSE argument
    /\ main' = "set_free"
    /\ UNCHANGED <<offered, callback, table, freed>> /\ Races

SetArgument ==
    /\ main = "set_arg"
    /\ argument' = Sets
    /\ main' = "set_free"
    /\ UNCHANGED <<offered, callback, table, freed>> /\ Races

(* device_management_cleanup of the old table; the pointer is left. *)
FreeTable(from, to) ==
    /\ main = from
    /\ freed' = freed \cup ({table} \ {0})
    /\ main' = to
    /\ UNCHANGED <<offered, callback, argument, table>> /\ Races

SetFree == FreeTable("set_free", "set_new")

(* Mutant: no table is made for a struct without request callbacks. *)
SetNewIfAny ==
    /\ main = "set_new"
    /\ table' = IF offered[Sets].ops = {} THEN table ELSE Sets
    /\ main' = "idle"
    /\ UNCHANGED <<offered, callback, argument, freed>> /\ Races

SetNew ==
    /\ main = "set_new"
    /\ table' = Sets
    /\ main' = "idle"
    /\ UNCHANGED <<offered, callback, argument, freed>> /\ Races

(* mqtt_cleanup: gw_id and the other strings are freed, then the table. *)
Cleanup ==
    /\ main = "idle"
    /\ main' = "x_table"
    /\ UNCHANGED <<offered, callback, argument, table, freed>> /\ Races

CleanupTable == FreeTable("x_table", "x_destroy")

(* mosquitto_destroy: the network thread is cancelled wherever it is, and  *)
(* joined.                                                                 *)
CleanupDestroy ==
    /\ main = "x_destroy"
    /\ main' = "gone"
    /\ running' = FALSE
    /\ net' = "idle"
    /\ UNCHANGED <<offered, callback, argument, table, freed, d, reply,
                   answers, received, due, ran, told, events, wild, raced,
                   runs>>

(* mqtt_connect *)
NetworkStarts ==
    /\ main = "idle" /\ ~running /\ runs < MaxRuns
    /\ running' = TRUE
    /\ runs' = runs + 1
    /\ UNCHANGED <<appVars, handling, wild, raced>>

(* mqtt_disconnect joins the network thread. *)
NetworkStops ==
    /\ main = "idle" /\ running /\ net = "idle"
    /\ running' = FALSE
    /\ UNCHANGED <<appVars, handling, wild, raced, runs>>

-----------------------------------------------------------------------------
(* The network thread: events. *)

Begins(at) ==
    /\ running /\ net = "idle"
    /\ net' = at
    /\ raced' = (main # "idle")
    /\ UNCHANGED <<appVars, running, wild, runs>>

(* _cb_connected publishes first; _cb_disconnected and _cb_publish do not. *)
Event ==
    /\ events < MaxEvents
    /\ events' = events + 1
    /\ Begins("status") \/ Begins("test")
    /\ UNCHANGED <<d, reply, answers, received, due, ran, told>>

GwIdFreed == main \in {"x_table", "x_destroy"}

Goes(at) ==
    /\ net' = at
    /\ UNCHANGED <<appVars, running, wild, raced, runs, events, received>>

(* Freed memory is read or NULL is called. *)
Crash ==
    /\ wild' = TRUE
    /\ UNCHANGED <<appVars, running, handling, raced, runs>>

(* _mqtt_status_publish writes gw_id into the topic. *)
Status ==
    /\ net = "status" /\ ~GwIdFreed /\ Goes("test")
    /\ UNCHANGED <<d, reply, answers, due, ran, told>>

Hook(k) == k # 0 /\ offered[k].hook

(* if (t->callback.connected), or one of the others *)
EventTest ==
    /\ net = "test" /\ Goes(IF Hook(callback) THEN "load" ELSE "idle")
    /\ UNCHANGED <<d, reply, answers, due, ran, told>>

(* The callback is read again and called with what t->callback_arg is.  It *)
(* is read before the argument; the compiler may do it otherwise, but then *)
(* nothing is called that is not called in this order too.                 *)
EventLoad ==
    /\ net = "load" /\ Hook(callback) /\ Goes("call")
    /\ told' = [fn |-> callback, arg |-> 0, last |-> 0, raced |-> TRUE]
    /\ UNCHANGED <<d, reply, answers, due, ran>>

EventCall ==
    /\ net = "call" /\ Goes("idle")
    /\ told' = [fn |-> told.fn, arg |-> argument, last |-> Sets,
                raced |-> raced]
    /\ UNCHANGED <<d, reply, answers, due, ran>>

-----------------------------------------------------------------------------
(* The network thread: requests.  _cb_message reads t->device_management   *)
(* and passes it to device_management_do.                                  *)
Receive ==
    /\ Len(received) < MaxRequests
    /\ Begins("do")
    /\ d' = table
    /\ \E r \in Requests :
          /\ received' = Append(received, r)
          /\ due' = IF r.method # "unreadable" /\ table # 0
                    THEN Append(due, Len(received) + 1) ELSE due
    /\ UNCHANGED <<reply, answers, ran, told, events>>

(* The request being handled, and its number *)
Number == Len(received)
request == received[Number]

Replied(kind) ==
    /\ reply' = [id |-> Number, kind |-> kind]
    /\ Goes("answer")
    /\ UNCHANGED <<d, answers, due, told>>

Readable == net = "do" /\ d # 0 /\ request.method # "unreadable"

(* NULL: no table, no JSON or no id.  Nothing is published. *)
Unreadable ==
    /\ net = "do" /\ ~Readable /\ Goes("idle")
    /\ UNCHANGED <<d, reply, answers, due, ran, told>>

(* Mutant: a request without a method is treated as one without an id. *)
NoMethodIgnored ==
    /\ Readable /\ request.method = "missing" /\ Goes("idle")
    /\ UNCHANGED <<d, reply, answers, due, ran, told>>

NoMethod ==
    /\ Readable /\ request.method = "missing" /\ Replied("-32601")
    /\ UNCHANGED ran

NoService ==
    /\ Readable /\ request.method = "unknown" /\ Replied("-32000")
    /\ UNCHANGED ran

(* The method is in _services_ops, so the table is read. *)
TableRead == Readable /\ request.method \in Services

(* Mutant: the fields of "params" are not checked. *)
ServedUnchecked == request.method \in offered[d].ops

(* Its callback is not NULL and "params" holds what it needs. *)
Served ==
    /\ request.method \in offered[d].ops
    /\ request.method \in WithParams => request.whole

Unserved ==
    /\ TableRead /\ d \notin freed /\ ~Served /\ Replied("-32000")
    /\ UNCHANGED ran

(* The callback runs and returns ok; since says which installation had     *)
(* been completed when the request arrived, for no race.                   *)
Runs(ok) ==
    /\ TableRead /\ d \notin freed /\ Served
    /\ ran' = Append(ran, [id |-> Number, method |-> request.method,
                           arg |-> d, ok |-> ok,
                           since |-> IF raced THEN 0 ELSE Sets])

(* Mutant: what the callback returns is not looked at. *)
RunUnchecked == \E ok \in BOOLEAN : Runs(ok) /\ Replied("result")

(* Mutant: a callback that fails is tried again. *)
RunAgain ==
    \/ Runs(TRUE) /\ Replied("result")
    \/ Runs(FALSE) /\ Goes("do") /\ UNCHANGED <<d, reply, answers, due, told>>

Run ==
    \E ok \in BOOLEAN :
        Runs(ok) /\ Replied(IF ok THEN "result" ELSE "-32000")

(* mosquitto_publish on the response topic *)
Answer ==
    /\ net = "answer" /\ Goes("idle")
    /\ answers' = Append(answers, reply)
    /\ UNCHANGED <<d, reply, due, ran, told>>

UseAfterFree ==
    /\ \/ net = "status" /\ GwIdFreed
       \/ net = "load" /\ ~Hook(callback)
       \/ TableRead /\ d \in freed
    /\ Crash

Next ==
    /\ ~wild
    /\ \/ CallbackSet \/ SetArgument \/ SetFree \/ SetNew
       \/ Cleanup \/ CleanupTable \/ CleanupDestroy
       \/ NetworkStarts \/ NetworkStops
       \/ Event \/ Status \/ EventTest \/ EventLoad \/ EventCall
       \/ Receive \/ Unreadable \/ NoMethod \/ NoService \/ Unserved \/ Run
       \/ Answer \/ UseAfterFree

Spec == Init /\ [][Next]_vars

-----------------------------------------------------------------------------
(* Properties. *)

(* Every request with an id that reaches an application with callbacks is  *)
(* answered exactly once, in the order of arrival, whichever of the ways   *)
(* through device_management_do it takes (device_management.c:136-201);    *)
(* only mqtt_cleanup may cut off the last answer.                          *)
AnsweredInOrder ==
    /\ Len(due) - Len(answers) \in {0, 1}
    /\ \A i \in DOMAIN answers : answers[i].id = due[i]
    /\ net = "idle" /\ main # "gone" => Len(answers) = Len(due)

(* A callback runs once at most for a request, for the method it names, on *)
(* the parameters it needs, and one of the last completed installation if  *)
(* the main thread did not meet the request (device_management.c:74-119,   *)
(* mqtt.c:488-503).                                                        *)
RanAsAsked ==
    /\ \A i \in DOMAIN ran :
          LET r == received[ran[i].id] IN
             /\ r.method = ran[i].method
             /\ r.method \in WithParams => r.whole
             /\ r.method \in offered[ran[i].arg].ops
             /\ ran[i].arg >= ran[i].since
    /\ \A i, j \in DOMAIN ran : i < j => ran[i].id < ran[j].id

(* The server is told "result" for exactly the requests whose callback     *)
(* returned true (device_management.c:191-199).                            *)
ResultMeansDone ==
    \A i \in DOMAIN answers :
        answers[i].kind = "result"
            <=> \E j \in DOMAIN ran : ran[j].id = answers[i].id /\ ran[j].ok

(* Freed memory is never used and NULL never called, by requests or        *)
(* events, unless mqtt_callback_set or mqtt_cleanup was running while they *)
(* were handled (mqtt.c:490-503, 594-604).                                 *)
UsesLiveUnlessRaced == wild => raced

(* An event calls the callback installed last with the argument installed  *)
(* with it, unless a call of the main thread met it (mqtt.c:488-489).      *)
EventToLatest ==
    ~told.raced => told.fn = told.last /\ told.arg = told.last

(* After mqtt_cleanup returned no callback runs and none will: the         *)
(* instance is freed, so this is what the free at its end relies on        *)
(* (mqtt.c:606-609).                                                       *)
NothingAfterCleanup == main = "gone" => ~running /\ net = "idle"

-----------------------------------------------------------------------------
(* The callbacks that ran, as the server knows them: by request *)
Did == {[id |-> ran[i].id, ok |-> ran[i].ok] : i \in DOMAIN ran}

Server == INSTANCE RequestServer
          WITH arrived <- Number, asked <- due, did <- Did,
               open <- main # "gone"

(* Whatever the application installs meanwhile, and whichever of the five  *)
(* ways a request takes: its callback runs between its arrival and its     *)
(* answer, and both are over before the next request is taken              *)
(* (device_management.c:136-201, mqtt.c:235-249).                          *)
ImplementsServer == Server!Spec
=============================================================================
