----------------------------- MODULE GatewayApp -----------------------------
(***************************************************************************)
(* The people counter's gateway (examples/people-counter/src/gateway.c):   *)
(* the main thread that calls gw_init, gw_connect, gw_disconnect and       *)
(* gw_cleanup, the library's network thread that calls _connected, and the *)
(* threads that glibc starts for each expiry of the status timer.          *)
(*                                                                         *)
(* The library is what ConnectionEvents says of it.  thingplus_cleanup     *)
(* destroys it without a disconnection: the network thread is cancelled    *)
(* while it is in no callback.                                             *)
(***************************************************************************)
EXTENDS Integers, FiniteSets

CONSTANTS
    MaxHandlers,    \* bound: expiries being handled at a time
    MaxLosses,      \* bound: connections refused or lost
    MaxSpurious,    \* bound: returns of pthread_cond_wait without a signal
    MaxCalls        \* bound: calls by the main thread

ASSUME BoundsAssumption ==
    /\ MaxHandlers \in Nat /\ MaxLosses \in Nat
    /\ MaxSpurious \in Nat /\ MaxCalls \in Nat

VARIABLES
    running, told,  \* the library, see ConnectionEvents
    net,            \* where the network thread is inside _connected
    pc,             \* where the main thread is
    ret,            \* what gw_connect last returned
    waiting,        \* the main thread is inside pthread_cond_wait
    gw,             \* struct gw: "none" or "alive"
    connected,      \* gw->connected
    timer,          \* gw->timer_id, 0 when no timer was created
    timers,         \* the timers armed for this struct gw
    created,        \* history: timers created since gw_init
    handlers,       \* threads in _status_publish for this struct gw
    orphans,        \* timers or threads are left that hold a freed struct gw
    stray,          \* history: one of them used it
    stopped,        \* history: gw_disconnect was called since gw_init
    starts,         \* history: calls of thingplus_connect since gw_init
    losses, spurious, calls     \* history, for the bounds

library == <<running, told>>
struct  == <<gw, connected, timer, created, stopped, starts>>
reporters == <<timers, handlers, orphans, stray>>
bounds  == <<losses, spurious, calls>>
vars == <<library, net, pc, ret, waiting, struct, reporters,
          bounds>>

Link == INSTANCE ConnectionEvents

TypeOK ==
    /\ running \in BOOLEAN /\ told \in Link!News
    /\ net \in {"idle", "k_timer", "k_done"}
    /\ pc \in {"idle", "c_wait", "c_block", "x_timer", "x_lib", "x_free"}
    /\ ret \in {"none", "0", "1", "-1"}
    /\ waiting \in BOOLEAN
    /\ gw \in {"none", "alive"}
    /\ connected \in BOOLEAN
    /\ created \in 0 .. MaxLosses + 1 /\ timer \in 0 .. created
    /\ timers \subseteq 1 .. created
    /\ handlers \in 0 .. MaxHandlers
    /\ {stopped, orphans, stray} \subseteq BOOLEAN
    /\ starts \in 0 .. MaxCalls
    /\ losses \in 0 .. MaxLosses /\ spurious \in 0 .. MaxSpurious
    /\ calls \in 0 .. MaxCalls

Init ==
    /\ Link!Init
    /\ net = "idle" /\ pc = "idle" /\ ret = "none" /\ waiting = FALSE
    /\ gw = "none" /\ connected = FALSE /\ timer = 0 /\ timers = {}
    /\ created = 0 /\ handlers = 0 /\ stopped = FALSE /\ starts = 0
    /\ stray = FALSE /\ orphans = FALSE
    /\ losses = 0 /\ spurious = 0 /\ calls = 0

-----------------------------------------------------------------------------
(* The main thread. *)

MainCalls ==
    /\ pc = "idle" /\ calls < MaxCalls
    /\ calls' = calls + 1
    /\ UNCHANGED <<net, waiting, handlers, orphans, stray, losses, spurious>>

(* gw_init: calloc'ed, and _connected installed before any connection. *)
GwInit ==
    /\ MainCalls /\ gw = "none"
    /\ gw' = "alive" /\ connected' = FALSE /\ timer' = 0 /\ created' = 0
    /\ stopped' = FALSE /\ starts' = 0
    /\ UNCHANGED <<library, pc, ret, timers>>

(* gw_connect without a gateway or a certificate. *)
GwConnectRefuses ==
    /\ MainCalls /\ (gw = "none" \/ ~connected)
    /\ ret' = "-1"
    /\ UNCHANGED <<library, pc, struct, timers>>

GwConnectAgain ==
    /\ MainCalls /\ gw = "alive" /\ connected
    /\ ret' = "1"
    /\ UNCHANGED <<library, pc, struct, timers>>

(* Mutant: gw->connected is not looked at. *)
GwConnectUnchecked ==
    /\ MainCalls /\ gw = "alive"
    /\ starts' = starts + 1
    /\ Link!Start \/ UNCHANGED library
    /\ pc' = "c_wait"
    /\ UNCHANGED <<ret, gw, connected, timer, created, stopped, timers>>

(* thingplus_connect, whose result is not looked at. *)
GwConnect ==
    /\ MainCalls /\ gw = "alive" /\ ~connected
    /\ starts' = starts + 1
    /\ Link!Start \/ UNCHANGED library
    /\ pc' = "c_wait"
    /\ UNCHANGED <<ret, gw, connected, timer, created, stopped, timers>>

(* _thingplus_wait: the mutex is taken and given up in pthread_cond_wait, *)
(* whatever has happened before.                                          *)
GwWait ==
    /\ pc = "c_wait"
    /\ waiting' = TRUE
    /\ pc' = "c_block"
    /\ UNCHANGED <<library, net, ret, struct, reporters,
                   bounds>>

SpuriousWakeup ==
    /\ waiting /\ spurious < MaxSpurious
    /\ waiting' = FALSE
    /\ spurious' = spurious + 1
    /\ UNCHANGED <<library, net, pc, ret, struct, reporters,
                   losses, calls>>

GwConnectReturn ==
    /\ pc = "c_block" /\ ~waiting
    /\ ret' = "0"
    /\ pc' = "idle"
    /\ UNCHANGED <<library, net, waiting, struct, reporters,
                   bounds>>

(* _status_publish_timer_stop; expiries being handled go on. *)
TimerStop ==
    /\ timers' = timers \ {timer}
    /\ stopped' = TRUE

GwDisconnect ==
    /\ MainCalls /\ gw = "alive"
    /\ TimerStop
    /\ UNCHANGED <<library, pc, ret, gw, connected, timer, created, starts>>

GwCleanup ==
    /\ MainCalls /\ gw = "alive"
    /\ pc' = "x_timer"
    /\ UNCHANGED <<library, ret, struct, timers>>

CleanupTimer ==
    /\ pc = "x_timer"
    /\ TimerStop
    /\ pc' = "x_lib"
    /\ UNCHANGED <<library, net, ret, waiting, gw, connected, timer, created,
                   starts, handlers, orphans, stray, bounds>>

(* thingplus_cleanup *)
CleanupLibrary ==
    /\ pc = "x_lib" /\ net = "idle"
    /\ running' = FALSE /\ told' = "none"
    /\ pc' = "x_free"
    /\ UNCHANGED <<net, ret, waiting, struct, reporters,
                   bounds>>

(* free(gw), gw = NULL; armed timers and expiries being handled keep the   *)
(* pointer to it.                                                          *)
CleanupFree ==
    /\ pc = "x_free"
    /\ gw' = "none"
    /\ orphans' = (orphans \/ timers # {} \/ handlers > 0)
    /\ timers' = {} /\ handlers' = 0
    /\ pc' = "idle"
    /\ UNCHANGED <<library, net, ret, waiting, connected, timer, created,
                   stopped, starts, stray, bounds>>

-----------------------------------------------------------------------------
(* The network thread. *)

(* Mutant: the flag is set for a connection that was accepted only. *)
CallbackConnectedIfAccepted ==
    /\ net = "idle"
    /\ \/ Link!TellConnected /\ UNCHANGED losses
       \/ Link!TellRefused /\ losses < MaxLosses /\ losses' = losses + 1
    /\ connected' = (connected \/ told' = "connected")
    /\ net' = "k_timer"
    /\ UNCHANGED <<pc, ret, waiting, gw, timer, created, stopped, starts,
                   reporters, spurious, calls>>

(* _connected, whatever the error: first the flag. *)
CallbackConnected ==
    /\ net = "idle"
    /\ \/ Link!TellConnected /\ UNCHANGED losses
       \/ Link!TellRefused /\ losses < MaxLosses /\ losses' = losses + 1
    /\ connected' = TRUE
    /\ net' = "k_timer"
    /\ UNCHANGED <<pc, ret, waiting, gw, timer, created, stopped, starts,
                   reporters, spurious, calls>>

(* Mutant: timer_settime before timer_create, on the timer before it. *)
CallbackTimerLate ==
    /\ net = "k_timer"
    /\ created' = created + 1
    /\ timer' = created + 1
    /\ timers' = timers \cup ({timer} \ {0})
    /\ net' = "k_done"
    /\ UNCHANGED <<library, pc, ret, waiting, gw, connected, stopped, starts,
                   handlers, orphans, stray, bounds>>

(* _status_publish_timer_start: another timer every time. *)
CallbackTimer ==
    /\ net = "k_timer"
    /\ created' = created + 1
    /\ timer' = created + 1
    /\ timers' = timers \cup {created + 1}
    /\ net' = "k_done"
    /\ UNCHANGED <<library, pc, ret, waiting, gw, connected, stopped, starts,
                   handlers, orphans, stray, bounds>>

(* timer_create fails, for want of memory or since the timers that were    *)
(* forgotten have used up the limit: that is printed and timer_id stays.   *)
CallbackTimerFails ==
    /\ net = "k_timer"
    /\ net' = "k_done"
    /\ UNCHANGED <<library, pc, ret, waiting, struct, reporters, bounds>>

(* Mutant: the condition is not signalled. *)
CallbackDoneUnsignalled ==
    /\ net = "k_done"
    /\ net' = "idle"
    /\ UNCHANGED <<library, pc, ret, waiting, struct, reporters, bounds>>

(* _thingplus_done: wakes the main thread if it waits already. *)
CallbackDone ==
    /\ net = "k_done"
    /\ waiting' = FALSE
    /\ net' = "idle"
    /\ UNCHANGED <<library, pc, ret, struct, reporters, bounds>>

(* The end of a connection; no disconnected callback is installed. *)
ConnectionLost ==
    /\ net = "idle" /\ losses < MaxLosses
    /\ Link!TellDisconnected
    /\ losses' = losses + 1
    /\ UNCHANGED <<net, pc, ret, waiting, struct, reporters,
                   spurious, calls>>

(* A refusal is always followed by a disconnection. *)
RefusalEnds ==
    /\ net = "idle" /\ told = "refused"
    /\ Link!TellDisconnected
    /\ UNCHANGED <<net, pc, ret, waiting, struct, reporters,
                   bounds>>

-----------------------------------------------------------------------------
(* Timer threads. *)

Expire ==
    /\ timers # {} /\ handlers < MaxHandlers
    /\ handlers' = handlers + 1
    /\ UNCHANGED <<library, net, pc, ret, waiting, struct, timers, orphans,
                   stray, bounds>>

(* _status_publish reads struct gw and calls the library it points to. *)
StatusPublish ==
    /\ handlers > 0
    /\ handlers' = handlers - 1
    /\ UNCHANGED <<library, net, pc, ret, waiting, struct, timers, orphans,
                   stray, bounds>>

OrphanPublish ==
    /\ orphans
    /\ stray' = TRUE
    /\ UNCHANGED <<library, net, pc, ret, waiting, struct, timers, handlers,
                   orphans, bounds>>

-----------------------------------------------------------------------------
Main == GwWait \/ GwConnectReturn \/ CleanupTimer \/ CleanupLibrary
        \/ CleanupFree

Callback == CallbackTimer \/ CallbackTimerFails \/ CallbackDone

Next ==
    \/ GwInit \/ GwConnectRefuses \/ GwConnectAgain \/ GwConnect
    \/ GwDisconnect \/ GwCleanup \/ Main \/ SpuriousWakeup
    \/ CallbackConnected \/ Callback \/ ConnectionLost \/ RefusalEnds
    \/ Expire \/ StatusPublish \/ OrphanPublish

Spec == Init /\ [][Next]_vars

(* Every thread inside a call goes on, and a running library keeps trying  *)
(* until the server has answered.                                          *)
FairSpec ==
    /\ Spec
    /\ WF_vars(Main) /\ WF_vars(Callback) /\ WF_vars(StatusPublish)
    /\ WF_vars(CallbackConnected) /\ WF_vars(RefusalEnds)

-----------------------------------------------------------------------------
(* Properties. *)

(* When gw_connect returns 0 the callback has run: the flag it returns 1   *)
(* on the next time is set before the wakeup, unless pthread_cond_wait     *)
(* returned without one (gateway.c:116-119).                               *)
ReturnMeansCalledBack ==
    ret = "0" /\ pc = "idle" /\ gw = "alive" /\ starts > 0 /\ spurious = 0
        => connected

(* thingplus_connect is never called a second time on one instance, not    *)
(* even after a loss: a second gw_connect finds the flag set, or the first *)
(* has not returned (gateway.c:140-149).                                   *)
OneConnection == spurious = 0 => starts <= 1

(* While the gateway is connected the timer that timer_id names is armed,  *)
(* from the end of _connected until gw_disconnect, through every           *)
(* reconnection and every later failure of timer_create; unless no         *)
(* timer_create has succeeded yet, when a connected gateway reports        *)
(* nothing (gateway.c:99-120).                                             *)
ReportsWhileConnected ==
    told = "connected" /\ net = "idle" /\ gw = "alive" /\ ~stopped
        => timer \in timers \/ created = 0

(* gw_connect returns whenever its wait began before the first answer of   *)
(* the server, be it a refusal (gateway.c:44-56 and 113-120).              *)
EarlyWaitEnds ==
    pc = "c_block" /\ running /\ told = "none" /\ net = "idle"
        ~> pc = "idle"

(* What examples/people-counter/tests/gateway.cpp:78-81 expects: gw_connect*)
(* returns.  A callback that comes before the wait is lost                 *)
(* (gateway.c:148-149).                                                    *)
GwConnectReturns == pc = "c_block" /\ running ~> pc = "idle"

(* What examples/people-counter/tests/gateway.cpp:55 expects: gw_cleanup   *)
(* causes no bad access.  It frees what timer threads still use.           *)
CleanupIsSafe == ~stray
=============================================================================
