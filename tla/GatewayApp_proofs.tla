------------------------- MODULE GatewayApp_proofs -------------------------
(***************************************************************************)
(* Theorems about GatewayApp for any bounds.                               *)
(***************************************************************************)
EXTENDS GatewayApp, TLAPS

(* While there is no struct gw the main thread is in no call, and the      *)
(* library it was made with is gone.                                       *)
NoneInv ==
    /\ gw = "none" => pc = "idle"
    /\ gw = "none" \/ pc = "x_free" =>
          ~running /\ net = "idle" /\ told = "none"
    /\ net # "idle" => running /\ connected
    /\ waiting => pc = "c_block"
    /\ gw = "none" => timers = {}

(* Whoever has called thingplus_connect waits, or was woken by the         *)
(* callback that sets the flag.                                            *)
ConnectInv ==
    /\ spurious = 0 => starts <= 1
    /\ gw = "alive" /\ spurious = 0 =>
        /\ pc = "c_wait" \/ (pc = "c_block" /\ waiting) \/ connected
              \/ starts = 0
        /\ pc \in {"c_wait", "c_block"} => starts = 1

(* The timer that was made last is armed until gw_disconnect deletes it,   *)
(* whatever happens to the connection and to later calls of timer_create.  *)
TimerInv ==
    gw = "alive" /\ ~stopped => timer \in timers \/ created = 0

(* One timer is made for each connection or refusal.                       *)
CountInv ==
    /\ starts <= calls
    /\ created <= losses + 1
    /\ gw = "alive" /\ pc # "x_free" =>
          /\ created <= losses + (IF told = "connected" THEN 1 ELSE 0)
          /\ net = "k_timer" =>
                created < losses + (IF told = "connected" THEN 1 ELSE 0)

(* The type invariant in three parts, each within one prover's reach. *)
TypeValues ==
    /\ running \in BOOLEAN /\ told \in Link!News
    /\ net \in {"idle", "k_timer", "k_done"}
    /\ pc \in {"idle", "c_wait", "c_block", "x_timer", "x_lib", "x_free"}
    /\ ret \in {"none", "0", "1", "-1"}
    /\ waiting \in BOOLEAN
    /\ gw \in {"none", "alive"}
    /\ connected \in BOOLEAN
    /\ stopped \in BOOLEAN /\ orphans \in BOOLEAN /\ stray \in BOOLEAN

TypeTimers ==
    /\ created \in 0 .. MaxLosses + 1 /\ timer \in 0 .. created
    /\ timers \subseteq 1 .. created

TypeTallies ==
    /\ handlers \in 0 .. MaxHandlers
    /\ starts \in 0 .. MaxCalls
    /\ losses \in 0 .. MaxLosses /\ spurious \in 0 .. MaxSpurious
    /\ calls \in 0 .. MaxCalls

LEMMA TypeParts ==
    TypeOK <=> TypeValues /\ TypeTimers /\ TypeTallies
BY DEF TypeOK, TypeValues, TypeTimers, TypeTallies

Inv ==
    /\ TypeValues /\ TypeTimers /\ TypeTallies
    /\ NoneInv /\ CountInv /\ ConnectInv /\ TimerInv

LEMMA InvInit == Init => Inv
<1> SUFFICES ASSUME Init PROVE Inv
  OBVIOUS
<1>1. TypeValues
  BY DEF Init, TypeValues, Link!Init, Link!News
<1>2. TypeTimers /\ TypeTallies
  BY BoundsAssumption DEF Init, TypeTimers, TypeTallies
<1>3. NoneInv /\ ConnectInv /\ TimerInv
  BY DEF Init, NoneInv, ConnectInv, TimerInv, Link!Init
<1>4. CountInv
  BY BoundsAssumption DEF Init, CountInv
<1> QED
  BY <1>1, <1>2, <1>3, <1>4 DEF Inv

LEMMA ValuesStep ==
    TypeValues /\ [Next]_vars
        => TypeValues'
<1> SUFFICES ASSUME TypeValues,
                    [Next]_vars
             PROVE  TypeValues'
  OBVIOUS
<1> USE DEF TypeValues, Link!News, MainCalls, library, struct, reporters,
        bounds, TimerStop, Link!Start
<1>1. CASE GwInit
  BY <1>1 DEF GwInit
<1>2. CASE GwConnectRefuses \/ GwConnectAgain
  BY <1>2 DEF GwConnectRefuses, GwConnectAgain
<1>3. CASE GwConnect
  BY <1>3 DEF GwConnect
<1>4. CASE GwDisconnect \/ GwCleanup
  BY <1>4 DEF GwDisconnect, GwCleanup
<1>5. CASE SpuriousWakeup
  <2>1. waiting' \in BOOLEAN
    <3>1. waiting' = FALSE
      BY <1>5 DEF SpuriousWakeup
    <3> QED
      BY <3>1
  <2>2. UNCHANGED <<running, told, net, pc, ret, gw, connected, stopped,
                    orphans, stray>>
    BY <1>5 DEF SpuriousWakeup
  <2> QED
    BY <2>1, <2>2
<1>6. CASE GwWait \/ GwConnectReturn
  BY <1>6 DEF GwWait, GwConnectReturn
<1>7. CASE CleanupTimer \/ CleanupLibrary
  BY <1>7 DEF CleanupTimer, CleanupLibrary
<1>8. CASE CleanupFree
  BY <1>8 DEF CleanupFree
<1>9. CASE CallbackConnected
  BY <1>9 DEF CallbackConnected, Link!TellConnected,
     Link!TellRefused, Link!Between
<1>10. CASE CallbackTimer
  BY <1>10 DEF CallbackTimer
<1>16. CASE CallbackTimerFails
  BY <1>16 DEF CallbackTimerFails
<1>11. CASE CallbackDone
  <2>1. net' = "idle" /\ waiting' = FALSE
    BY <1>11 DEF CallbackDone
  <2>2. UNCHANGED <<running, told, pc, ret, gw, connected, stopped,
                    orphans, stray>>
    BY <1>11 DEF CallbackDone
  <2> QED
    BY <2>1, <2>2, ZenonT(30)
<1>12. CASE ConnectionLost \/ RefusalEnds
  BY <1>12 DEF ConnectionLost, RefusalEnds, Link!TellDisconnected
<1>13. CASE Expire \/ StatusPublish
  BY <1>13 DEF Expire, StatusPublish
<1>14. CASE OrphanPublish
  BY <1>14 DEF OrphanPublish
<1>15. CASE UNCHANGED vars
  BY <1>15 DEF vars
<1> QED
  BY <1>1, <1>2, <1>3, <1>4, <1>5, <1>6, <1>7, <1>8, <1>9, <1>10, <1>11,
     <1>12, <1>13, <1>14, <1>15, <1>16 DEF Next, Main, Callback

LEMMA NoneStep ==
    TypeValues /\ NoneInv /\ [Next]_vars
        => NoneInv'
<1> SUFFICES ASSUME TypeValues, NoneInv,
                    [Next]_vars
             PROVE  NoneInv'
  OBVIOUS
<1> USE DEF TypeValues, NoneInv, MainCalls, library, struct, reporters,
        bounds, TimerStop, Link!Start
<1>1. CASE GwInit
  BY <1>1 DEF GwInit
<1>2. CASE GwConnectRefuses \/ GwConnectAgain
  BY <1>2 DEF GwConnectRefuses, GwConnectAgain
<1>3. CASE GwConnect
  BY <1>3 DEF GwConnect
<1>4. CASE GwDisconnect \/ GwCleanup
  BY <1>4 DEF GwDisconnect, GwCleanup
<1>5. CASE SpuriousWakeup
  BY <1>5 DEF SpuriousWakeup
<1>6. CASE GwWait \/ GwConnectReturn
  BY <1>6 DEF GwWait, GwConnectReturn
<1>7. CASE CleanupTimer \/ CleanupLibrary
  BY <1>7 DEF CleanupTimer, CleanupLibrary
<1>8. CASE CleanupFree
  BY <1>8 DEF CleanupFree
<1>9. CASE CallbackConnected
  BY <1>9 DEF CallbackConnected, Link!TellConnected,
     Link!TellRefused, Link!Between
<1>10. CASE CallbackTimer
  BY <1>10 DEF CallbackTimer
<1>16. CASE CallbackTimerFails
  BY <1>16 DEF CallbackTimerFails
<1>11. CASE CallbackDone
  BY <1>11 DEF CallbackDone
<1>12. CASE ConnectionLost \/ RefusalEnds
  BY <1>12 DEF ConnectionLost, RefusalEnds, Link!TellDisconnected
<1>13. CASE Expire \/ StatusPublish
  BY <1>13 DEF Expire, StatusPublish
<1>14. CASE OrphanPublish
  BY <1>14 DEF OrphanPublish
<1>15. CASE UNCHANGED vars
  BY <1>15 DEF vars
<1> QED
  BY <1>1, <1>2, <1>3, <1>4, <1>5, <1>6, <1>7, <1>8, <1>9, <1>10, <1>11,
     <1>12, <1>13, <1>14, <1>15, <1>16 DEF Next, Main, Callback

LEMMA TalliesStep ==
    TypeTallies /\ CountInv /\ [Next]_vars
        => TypeTallies'
<1> SUFFICES ASSUME TypeTallies, CountInv,
                    [Next]_vars
             PROVE  TypeTallies'
  OBVIOUS
<1> USE BoundsAssumption
    DEF TypeTallies, MainCalls, library, struct, reporters,
        bounds, TimerStop, Link!Start
<1>1. CASE GwInit
  BY <1>1 DEF GwInit
<1>2. CASE GwConnectRefuses \/ GwConnectAgain
  BY <1>2 DEF GwConnectRefuses, GwConnectAgain
<1>3. CASE GwConnect
  BY <1>3 DEF GwConnect, CountInv
<1>4. CASE GwDisconnect \/ GwCleanup
  BY <1>4 DEF GwDisconnect, GwCleanup
<1>5. CASE SpuriousWakeup
  BY <1>5 DEF SpuriousWakeup
<1>6. CASE GwWait \/ GwConnectReturn
  BY <1>6 DEF GwWait, GwConnectReturn
<1>7. CASE CleanupTimer \/ CleanupLibrary
  BY <1>7 DEF CleanupTimer, CleanupLibrary
<1>8. CASE CleanupFree
  BY <1>8 DEF CleanupFree
<1>9. CASE CallbackConnected
  BY <1>9 DEF CallbackConnected, Link!TellConnected,
     Link!TellRefused, Link!Between
<1>10. CASE CallbackTimer
  BY <1>10 DEF CallbackTimer
<1>16. CASE CallbackTimerFails
  BY <1>16 DEF CallbackTimerFails
<1>11. CASE CallbackDone
  BY <1>11 DEF CallbackDone
<1>12. CASE ConnectionLost \/ RefusalEnds
  BY <1>12 DEF ConnectionLost, RefusalEnds, Link!TellDisconnected
<1>13. CASE Expire \/ StatusPublish
  BY <1>13 DEF Expire, StatusPublish
<1>14. CASE OrphanPublish
  BY <1>14 DEF OrphanPublish
<1>15. CASE UNCHANGED vars
  BY <1>15 DEF vars
<1> QED
  BY <1>1, <1>2, <1>3, <1>4, <1>5, <1>6, <1>7, <1>8, <1>9, <1>10, <1>11,
     <1>12, <1>13, <1>14, <1>15, <1>16 DEF Next, Main, Callback

LEMMA TimersStep ==
    TypeValues /\ TypeTimers /\ TypeTallies /\ NoneInv /\ CountInv
        /\ [Next]_vars
        => TypeTimers'
<1> SUFFICES ASSUME TypeValues, TypeTimers, TypeTallies,
                    NoneInv, CountInv,
                    [Next]_vars
             PROVE  TypeTimers'
  OBVIOUS
<1> USE BoundsAssumption
    DEF TypeTimers, MainCalls, library, struct, reporters,
        bounds, TimerStop, Link!Start
<1>1. CASE GwInit
  BY <1>1 DEF GwInit, NoneInv
<1>2. CASE GwConnectRefuses \/ GwConnectAgain
  BY <1>2 DEF GwConnectRefuses, GwConnectAgain
<1>3. CASE GwConnect
  BY <1>3 DEF GwConnect
<1>4. CASE GwDisconnect \/ GwCleanup
  BY <1>4 DEF GwDisconnect, GwCleanup
<1>5. CASE SpuriousWakeup
  BY <1>5 DEF SpuriousWakeup
<1>6. CASE GwWait \/ GwConnectReturn
  BY <1>6 DEF GwWait, GwConnectReturn
<1>7. CASE CleanupTimer \/ CleanupLibrary
  BY <1>7 DEF CleanupTimer, CleanupLibrary
<1>8. CASE CleanupFree
  BY <1>8 DEF CleanupFree
<1>9. CASE CallbackConnected
  BY <1>9 DEF CallbackConnected, Link!TellConnected,
     Link!TellRefused, Link!Between
<1>10. CASE CallbackTimer
  <2>1. gw = "alive" /\ pc # "x_free"
    BY <1>10 DEF CallbackTimer, NoneInv, TypeValues
  <2>2. created < MaxLosses + 1
    BY <1>10, <2>1 DEF CallbackTimer, CountInv, TypeTallies
  <2> QED
    BY <1>10, <2>2 DEF CallbackTimer
<1>16. CASE CallbackTimerFails
  BY <1>16 DEF CallbackTimerFails
<1>11. CASE CallbackDone
  BY <1>11 DEF CallbackDone
<1>12. CASE ConnectionLost \/ RefusalEnds
  BY <1>12 DEF ConnectionLost, RefusalEnds, Link!TellDisconnected
<1>13. CASE Expire \/ StatusPublish
  BY <1>13 DEF Expire, StatusPublish
<1>14. CASE OrphanPublish
  BY <1>14 DEF OrphanPublish
<1>15. CASE UNCHANGED vars
  BY <1>15 DEF vars
<1> QED
  BY <1>1, <1>2, <1>3, <1>4, <1>5, <1>6, <1>7, <1>8, <1>9, <1>10, <1>11,
     <1>12, <1>13, <1>14, <1>15, <1>16 DEF Next, Main, Callback

LEMMA CountStep ==
    TypeValues /\ TypeTimers /\ TypeTallies /\ NoneInv /\ CountInv
        /\ [Next]_vars
        => CountInv'
<1> SUFFICES ASSUME TypeValues, TypeTimers, TypeTallies,
                    NoneInv, CountInv,
                    [Next]_vars
             PROVE  CountInv'
  OBVIOUS
<1> USE BoundsAssumption
    DEF TypeValues, TypeTimers, TypeTallies, NoneInv, CountInv, MainCalls,
        library, struct, reporters,
        bounds, TimerStop, Link!Start
<1>1. CASE GwInit
  BY <1>1 DEF GwInit
<1>2. CASE GwConnectRefuses \/ GwConnectAgain
  BY <1>2 DEF GwConnectRefuses, GwConnectAgain
<1>3. CASE GwConnect
  BY <1>3 DEF GwConnect
<1>4. CASE GwDisconnect \/ GwCleanup
  BY <1>4 DEF GwDisconnect, GwCleanup
<1>5. CASE SpuriousWakeup
  BY <1>5 DEF SpuriousWakeup
<1>6. CASE GwWait \/ GwConnectReturn
  BY <1>6 DEF GwWait, GwConnectReturn
<1>7. CASE CleanupTimer \/ CleanupLibrary
  BY <1>7 DEF CleanupTimer, CleanupLibrary
<1>8. CASE CleanupFree
  BY <1>8 DEF CleanupFree
<1>9. CASE CallbackConnected
  BY <1>9 DEF CallbackConnected, Link!TellConnected,
     Link!TellRefused, Link!Between
<1>10. CASE CallbackTimer
  BY <1>10 DEF CallbackTimer
<1>16. CASE CallbackTimerFails
  BY <1>16 DEF CallbackTimerFails
<1>11. CASE CallbackDone
  BY <1>11 DEF CallbackDone
<1>12. CASE ConnectionLost \/ RefusalEnds
  BY <1>12 DEF ConnectionLost, RefusalEnds, Link!TellDisconnected
<1>13. CASE Expire \/ StatusPublish
  BY <1>13 DEF Expire, StatusPublish
<1>14. CASE OrphanPublish
  BY <1>14 DEF OrphanPublish
<1>15. CASE UNCHANGED vars
  BY <1>15 DEF vars
<1> QED
  BY <1>1, <1>2, <1>3, <1>4, <1>5, <1>6, <1>7, <1>8, <1>9, <1>10, <1>11,
     <1>12, <1>13, <1>14, <1>15, <1>16 DEF Next, Main, Callback

LEMMA ConnectStep ==
    TypeValues /\ TypeTallies /\ NoneInv /\ ConnectInv /\ [Next]_vars
        => ConnectInv'
<1> SUFFICES ASSUME TypeValues, TypeTallies, NoneInv, ConnectInv,
                    [Next]_vars
             PROVE  ConnectInv'
  OBVIOUS
<1> USE BoundsAssumption
    DEF TypeValues, TypeTallies, NoneInv, ConnectInv, MainCalls, library,
        struct, reporters,
        bounds, TimerStop, Link!Start
<1>1. CASE GwInit
  BY <1>1 DEF GwInit
<1>2. CASE GwConnectRefuses \/ GwConnectAgain
  BY <1>2 DEF GwConnectRefuses, GwConnectAgain
<1>3. CASE GwConnect
  BY <1>3 DEF GwConnect
<1>4. CASE GwDisconnect \/ GwCleanup
  BY <1>4 DEF GwDisconnect, GwCleanup
<1>5. CASE SpuriousWakeup
  BY <1>5 DEF SpuriousWakeup
<1>6. CASE GwWait \/ GwConnectReturn
  BY <1>6 DEF GwWait, GwConnectReturn
<1>7. CASE CleanupTimer \/ CleanupLibrary
  BY <1>7 DEF CleanupTimer, CleanupLibrary
<1>8. CASE CleanupFree
  BY <1>8 DEF CleanupFree
<1>9. CASE CallbackConnected
  BY <1>9 DEF CallbackConnected, Link!TellConnected,
     Link!TellRefused, Link!Between
<1>10. CASE CallbackTimer
  BY <1>10 DEF CallbackTimer
<1>16. CASE CallbackTimerFails
  BY <1>16 DEF CallbackTimerFails
<1>11. CASE CallbackDone
  BY <1>11 DEF CallbackDone
<1>12. CASE ConnectionLost \/ RefusalEnds
  BY <1>12 DEF ConnectionLost, RefusalEnds, Link!TellDisconnected
<1>13. CASE Expire \/ StatusPublish
  BY <1>13 DEF Expire, StatusPublish
<1>14. CASE OrphanPublish
  BY <1>14 DEF OrphanPublish
<1>15. CASE UNCHANGED vars
  BY <1>15 DEF vars
<1> QED
  BY <1>1, <1>2, <1>3, <1>4, <1>5, <1>6, <1>7, <1>8, <1>9, <1>10, <1>11,
     <1>12, <1>13, <1>14, <1>15, <1>16 DEF Next, Main, Callback

LEMMA TimerStep ==
    TypeValues /\ NoneInv /\ TimerInv /\ [Next]_vars
        => TimerInv'
<1> SUFFICES ASSUME TypeValues, NoneInv, TimerInv,
                    [Next]_vars
             PROVE  TimerInv'
  OBVIOUS
<1> USE DEF TypeValues, NoneInv, TimerInv, MainCalls, library, struct,
        reporters,
        bounds, TimerStop, Link!Start
<1>1. CASE GwInit
  BY <1>1 DEF GwInit
<1>2. CASE GwConnectRefuses \/ GwConnectAgain
  BY <1>2 DEF GwConnectRefuses, GwConnectAgain
<1>3. CASE GwConnect
  BY <1>3 DEF GwConnect
<1>4. CASE GwDisconnect \/ GwCleanup
  BY <1>4 DEF GwDisconnect, GwCleanup
<1>5. CASE SpuriousWakeup
  BY <1>5 DEF SpuriousWakeup
<1>6. CASE GwWait \/ GwConnectReturn
  BY <1>6 DEF GwWait, GwConnectReturn
<1>7. CASE CleanupTimer \/ CleanupLibrary
  BY <1>7 DEF CleanupTimer, CleanupLibrary
<1>8. CASE CleanupFree
  BY <1>8 DEF CleanupFree
<1>9. CASE CallbackConnected
  BY <1>9 DEF CallbackConnected, Link!TellConnected,
     Link!TellRefused, Link!Between
<1>10. CASE CallbackTimer
  BY <1>10 DEF CallbackTimer
<1>16. CASE CallbackTimerFails
  BY <1>16 DEF CallbackTimerFails
<1>11. CASE CallbackDone
  BY <1>11 DEF CallbackDone
<1>12. CASE ConnectionLost \/ RefusalEnds
  BY <1>12 DEF ConnectionLost, RefusalEnds, Link!TellDisconnected
<1>13. CASE Expire \/ StatusPublish
  BY <1>13 DEF Expire, StatusPublish
<1>14. CASE OrphanPublish
  BY <1>14 DEF OrphanPublish
<1>15. CASE UNCHANGED vars
  BY <1>15 DEF vars
<1> QED
  BY <1>1, <1>2, <1>3, <1>4, <1>5, <1>6, <1>7, <1>8, <1>9, <1>10, <1>11,
     <1>12, <1>13, <1>14, <1>15, <1>16 DEF Next, Main, Callback

LEMMA Invariance == Spec => []Inv
<1>1. Inv /\ [Next]_vars => Inv'
  BY NoneStep, CountStep, ConnectStep, TimerStep,
     ValuesStep, TalliesStep, TimersStep DEF Inv
<1> QED
  BY InvInit, <1>1, PTL DEF Spec

-----------------------------------------------------------------------------
(* Every variable keeps its type; no more timers are made than connections *)
(* and refusals are told of (gateway.c:59-111).                            *)
THEOREM TypeCorrect == Spec => []TypeOK
<1>1. Inv => TypeOK
  BY TypeParts DEF Inv
<1> QED
  BY Invariance, <1>1, PTL

(* thingplus_connect is called once for one instance, whatever the         *)
(* callback and the main thread do first (gateway.c:140-149).              *)
THEOREM ConnectsOnce == Spec => []OneConnection
<1>1. Inv => OneConnection
  BY DEF Inv, TypeValues, TypeTallies, ConnectInv, OneConnection
<1> QED
  BY Invariance, <1>1, PTL

(* When gw_connect returns 0 the callback has run (gateway.c:116-119).     *)
THEOREM ReturnsCalledBack == Spec => []ReturnMeansCalledBack
<1>1. Inv => ReturnMeansCalledBack
  BY DEF Inv, TypeValues, TypeTallies, ConnectInv, ReturnMeansCalledBack
<1> QED
  BY Invariance, <1>1, PTL

(* While the gateway is connected the timer that was made last is armed,   *)
(* through reconnections and failures of timer_create; if none was ever    *)
(* made there is nothing to arm (gateway.c:99-120).                        *)
THEOREM Reporting == Spec => []ReportsWhileConnected
<1>1. Inv => ReportsWhileConnected
  BY DEF Inv, TimerInv, ReportsWhileConnected
<1> QED
  BY Invariance, <1>1, PTL
=============================================================================
