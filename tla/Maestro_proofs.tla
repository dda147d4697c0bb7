--------------------------- MODULE Maestro_proofs ---------------------------
(***************************************************************************)
(* Theorems about Maestro for any number of timer threads and any bounds.  *)
(***************************************************************************)
EXTENDS Maestro, TLAPS

Places ==
    {"none", "status", "temperature", "publish_t", "humidity", "publish_h"}

Typed ==
    /\ server \in [Sensors -> Int]
    /\ timer \in [Timers -> [at : Places, reading : Int]]
    /\ climate \in Nat /\ faults \in Nat

(* Before main has called pir_init nothing samples and nothing reports.    *)
Before == {"init", "connect", "register", "htx", "pir"}

Silent ==
    /\ main \in Before \cup {"timer"} => ~armed
    /\ main \in Before =>
          /\ pir = "none" /\ last = "2" /\ ~alive
          /\ \A s \in Sensors : server[s] = Nothing
          /\ \A h \in Timers : timer[h].at = "none" /\ timer[h].reading = 0

(* An error is taken, and shown, only for a reason.                        *)
Excused == htx = "null" \/ faults > 0

MeasuredInv ==
    /\ \A h \in Timers : timer[h].reading = Error => Excused
    /\ ReadingsAreMeasured

Inv == Typed /\ Silent /\ MeasuredInv /\ DoorFollowsUnlessMissed

LEMMA InvInit == Init => Inv
<1> SUFFICES ASSUME Init PROVE Inv
  OBVIOUS
<1>1. Typed
  BY DEF Init, Typed, Places, Nothing
<1>2. Silent
  BY DEF Init, Silent, Before
<1>3. MeasuredInv /\ DoorFollowsUnlessMissed
  BY DEF Init, MeasuredInv, ReadingsAreMeasured, DoorFollowsUnlessMissed,
     Error, Nothing
<1> QED
  BY <1>1, <1>2, <1>3 DEF Inv

-----------------------------------------------------------------------------
(* What a publication does to what the server shows. *)
LEMMA PublishShows ==
    ASSUME Typed, NEW s \in Sensors, NEW v \in Int, Publish(s, v)
    PROVE  /\ server' \in [Sensors -> Int]
           /\ \A u \in Sensors : u # s => server'[u] = server[u]
           /\ server'[s] = v \/ server'[s] = server[s]
           /\ Intact /\ s \in ids => server'[s] = v
<1>1. CASE server' = [server EXCEPT ![s] = v]
  BY <1>1 DEF Typed
<1>2. CASE UNCHANGED server /\ ~(Intact /\ s \in ids)
  BY <1>2 DEF Typed
<1> QED
  BY <1>1, <1>2 DEF Publish

(* What a thread of the timer does to the threads. *)
LEMMA TimerMoves ==
    ASSUME Typed, NEW h \in Timers, NEW p \in Places, NEW r \in Int,
           timer' = [timer EXCEPT ![h] = [at |-> p, reading |-> r]]
               \/ (timer' = [timer EXCEPT ![h].at = p] /\ r = timer[h].reading)
    PROVE  /\ timer' \in [Timers -> [at : Places, reading : Int]]
           /\ \A g \in Timers : g # h => timer'[g] = timer[g]
           /\ timer'[h].reading = r
BY DEF Typed

(* The steps of main; those of the monitoring thread; those of the timer.  *)
MainStep == Main \/ MainExits

LEMMA MainKeeps ==
    ASSUME MainStep
    PROVE  /\ UNCHANGED <<last, missed, timer, server, alive, climate, faults>>
           /\ main' \in Before => main \in Before /\ UNCHANGED <<armed, pir>>
           /\ main' = "timer" => UNCHANGED armed /\ main = "pir"
           /\ htx' # htx => main = "htx"
           /\ ids' # ids => main = "register"
           /\ pir' = pir \/ (main = "pir" /\ pir' = "sleep")
BY DEF MainStep, Main, MainExits, MainGoes, MainInit, MainConnect,
   MainRegister, MainHtx, MainPir, MainTimer, Before, bounds

LEMMA LibraryKeeps ==
    ASSUME Connected \/ Refused \/ Disconnected \/ Break
    PROVE  UNCHANGED <<main, ids, htx, armed, door, climate, timer, server,
                       alive, faults>>
BY DEF Connected, Refused, Disconnected, Break, Library

LEMMA MonitoringKeeps ==
    ASSUME GpioRead \/ GpioFault \/ EventTrigger
    PROVE  /\ UNCHANGED <<main, ids, htx, armed, climate, timer, alive>>
           /\ pir # "none"
           /\ faults' = faults \/ faults' = faults + 1
BY DEF GpioRead, GpioFault, Sample, EventTrigger, Monitoring, set_up

(* What an expiry or a step of a timer thread does. *)
LEMMA TimerKeeps ==
    ASSUME Typed, NEW h \in Timers, Expire(h) \/ Reporter(h)
    PROVE  /\ UNCHANGED <<main, ids, htx, armed, door, climate>>
           /\ armed \/ timer[h].at # "none"
           /\ faults' \in Nat /\ faults' >= faults
           /\ timer' \in [Timers -> [at : Places, reading : Int]]
           /\ \A g \in Timers : g # h => timer'[g] = timer[g]
           /\ \/ timer'[h].reading = timer[h].reading
              \/ timer'[h].reading = Error
                    /\ (htx = "null" \/ faults' = faults + 1)
              \/ timer'[h].reading \in {climate, 0}
           /\ server' \in [Sensors -> Int]
           /\ server'["door"] = server["door"]
           /\ \A s \in Sensors :
                 server'[s] = server[s] \/ server'[s] = timer[h].reading
<1>c. /\ climate \in Int /\ faults \in Nat
      /\ Error \in Int /\ timer[h].reading \in Int
  BY DEF Typed, Error
<1>1. CASE Expire(h) \/ StatusPublish(h)
  <2>1. PICK p \in {"status", "temperature"} :
           timer' = [timer EXCEPT ![h].at = p]
    BY <1>1 DEF Expire, StatusPublish, TimerGoes
  <2>p. p \in Places
    BY DEF Places
  <2>2. /\ timer' \in [Timers -> [at : Places, reading : Int]]
        /\ \A g \in Timers : g # h => timer'[g] = timer[g]
        /\ timer'[h].reading = timer[h].reading
    BY <1>c, <2>1, <2>p, TimerMoves
  <2>3. /\ UNCHANGED <<main, ids, htx, armed, door, climate, faults, server>>
        /\ armed \/ timer[h].at # "none"
    BY <1>1 DEF Expire, StatusPublish, TimerGoes, Reporting
  <2> QED
    BY <1>c, <2>2, <2>3 DEF Typed
<1>2. CASE GetTemperature(h) \/ GetHumidity(h)
  <2>1. PICK r \in Readings, p \in {"publish_t", "publish_h"} :
           /\ timer' = [timer EXCEPT ![h] = [at |-> p, reading |-> r]]
           /\ \/ htx = "null" /\ r = Error /\ faults' = faults
              \/ r = Error /\ faults' = faults + 1
              \/ r = climate /\ faults' = faults
    BY <1>2 DEF GetTemperature, GetHumidity, Get
  <2>2. r \in Int
    BY <1>c, <2>1
  <2>3. /\ timer' \in [Timers -> [at : Places, reading : Int]]
        /\ \A g \in Timers : g # h => timer'[g] = timer[g]
        /\ timer'[h].reading = r
    BY <2>1, <2>2, TimerMoves DEF Places
  <2>4. /\ UNCHANGED <<main, ids, htx, armed, door, climate, server>>
        /\ timer[h].at # "none"
    BY <1>2 DEF GetTemperature, GetHumidity, Get, Reporting
  <2> QED
    BY <1>c, <2>1, <2>3, <2>4 DEF Typed
<1>3. CASE PublishTemperature(h) \/ PublishHumidity(h)
  <2>1. PICK p \in {"humidity", "none"} :
           timer' = [timer EXCEPT ![h] = [at |-> p, reading |-> 0]]
    BY <1>3 DEF PublishTemperature, PublishHumidity, TimerSent
  <2>p. p \in Places /\ 0 \in Int
    BY DEF Places
  <2>2. /\ timer' \in [Timers -> [at : Places, reading : Int]]
        /\ \A g \in Timers : g # h => timer'[g] = timer[g]
        /\ timer'[h].reading = 0
    BY <2>1, <2>p, TimerMoves
  <2>3. PICK s \in {"temperature", "humidity"} :
           Publish(s, timer[h].reading)
    BY <1>3 DEF PublishTemperature, PublishHumidity
  <2>4. /\ server' \in [Sensors -> Int]
        /\ \A u \in Sensors : u # s => server'[u] = server[u]
        /\ server'[s] = timer[h].reading \/ server'[s] = server[s]
    BY <1>c, <2>3, PublishShows DEF Sensors
  <2>5. /\ UNCHANGED <<main, ids, htx, armed, door, climate, faults>>
        /\ timer[h].at # "none"
    BY <1>3 DEF PublishTemperature, PublishHumidity, TimerSent, Reporting
  <2> QED
    BY <1>c, <2>2, <2>3, <2>4, <2>5 DEF Sensors
<1> QED
  BY <1>1, <1>2, <1>3 DEF Reporter

-----------------------------------------------------------------------------
(* The world and the end of a status change neither. *)
Elsewhere ==
    Connected \/ Refused \/ Disconnected \/ Break \/ Flip \/ Weather
        \/ StatusExpires \/ UNCHANGED vars

LEMMA ElsewhereKeeps ==
    ASSUME Typed, Elsewhere
    PROVE  /\ UNCHANGED <<main, ids, htx, armed, pir, last, missed, timer,
                          server, faults>>
           /\ climate' \in Nat /\ (alive' => alive)
<1>1. CASE Connected \/ Refused \/ Disconnected \/ Break
  BY <1>1, LibraryKeeps DEF door, Typed
<1>2. CASE Flip
  BY <1>2 DEF Flip, library, set_up, Typed
<1>3. CASE Weather
  BY <1>3 DEF Weather, library, set_up, door, bounds, Typed
<1>4. CASE StatusExpires
  BY <1>4 DEF StatusExpires, library, set_up, door, bounds, Typed
<1>5. CASE UNCHANGED vars
  BY <1>5 DEF vars, library, set_up, door, bounds, Typed
<1> QED
  BY <1>1, <1>2, <1>3, <1>4, <1>5 DEF Elsewhere

LEMMA Cases ==
    ASSUME [Next]_vars
    PROVE  \/ MainStep \/ Elsewhere \/ GpioRead \/ GpioFault \/ EventTrigger
           \/ \E h \in Timers : Expire(h) \/ Reporter(h)
BY DEF Next, MainStep, Elsewhere

(* What an event and a sample are. *)
LEMMA EventShows ==
    ASSUME Typed, EventTrigger
    PROVE  /\ server' \in [Sensors -> Int] /\ last' = last
           /\ faults' = faults /\ pir = "changed"
           /\ \A s \in Sensors : s # "door" => server'[s] = server[s]
           /\ server'["door"] \in {0, 1, server["door"]}
           /\ missed' \/ ("door" \in ids
                             => server'["door"] = Reported(last))
<1>1. Reported(last) \in {0, 1} /\ "door" \in Sensors
  BY DEF Reported, Sensors
<1>2. Publish("door", Reported(last)) /\ missed' = ~Intact /\ last' = last
         /\ faults' = faults /\ pir = "changed"
  BY DEF EventTrigger
<1>3. /\ server' \in [Sensors -> Int]
      /\ \A u \in Sensors : u # "door" => server'[u] = server[u]
      /\ \/ server'["door"] = Reported(last)
         \/ server'["door"] = server["door"]
      /\ Intact /\ "door" \in ids => server'["door"] = Reported(last)
  BY <1>1, <1>2, PublishShows
<1>4. missed' \/ Intact
  BY <1>2
<1> QED
  BY <1>1, <1>2, <1>3, <1>4

LEMMA SampleShows ==
    ASSUME GpioRead \/ GpioFault
    PROVE  pir' = "changed" /\ UNCHANGED <<missed, server>> /\ pir = "sleep"
BY DEF GpioRead, GpioFault, Sample

LEMMA TypedStep == Typed /\ [Next]_vars => Typed'
<1> SUFFICES ASSUME Typed, [Next]_vars PROVE Typed'
  OBVIOUS
<1>1. CASE MainStep
  BY <1>1, MainKeeps DEF Typed
<1>2. CASE Elsewhere
  BY <1>2, ElsewhereKeeps DEF Typed
<1>3. CASE GpioRead \/ GpioFault
  BY <1>3, SampleShows, MonitoringKeeps DEF Typed
<1>4. CASE EventTrigger
  BY <1>4, EventShows, MonitoringKeeps DEF Typed
<1>5. ASSUME NEW h \in Timers, Expire(h) \/ Reporter(h) PROVE Typed'
  BY <1>5, TimerKeeps DEF Typed
<1> QED
  BY <1>1, <1>2, <1>3, <1>4, <1>5, Cases

LEMMA SilentStep == Typed /\ Silent /\ [Next]_vars => Silent'
<1> SUFFICES ASSUME Typed, Silent, [Next]_vars PROVE Silent'
  OBVIOUS
<1>1. CASE MainStep
  BY <1>1, MainKeeps DEF Silent, Before
<1>2. CASE Elsewhere
  BY <1>2, ElsewhereKeeps DEF Silent, Before
<1>3. CASE GpioRead \/ GpioFault \/ EventTrigger
  <2>1. main \notin Before /\ UNCHANGED <<main, armed>>
    BY <1>3, MonitoringKeeps DEF Silent
  <2> QED
    BY <2>1 DEF Silent
<1>4. ASSUME NEW h \in Timers, Expire(h) \/ Reporter(h) PROVE Silent'
  <2>1. main \notin Before /\ UNCHANGED <<main, armed>>
    BY <1>4, TimerKeeps DEF Silent
  <2> QED
    BY <2>1 DEF Silent
<1> QED
  BY <1>1, <1>2, <1>3, <1>4, Cases

LEMMA MeasuredStep ==
    Typed /\ Silent /\ MeasuredInv /\ [Next]_vars => MeasuredInv'
<1> SUFFICES ASSUME Typed, Silent, MeasuredInv, [Next]_vars
             PROVE  MeasuredInv'
  OBVIOUS
<1>d. /\ \A h \in Timers : timer[h].reading = Error => Excused
      /\ \A s \in Sensors : server[s] = Error => Excused
      /\ Error = -1 /\ "door" \in Sensors /\ faults \in Nat
  BY DEF MeasuredInv, ReadingsAreMeasured, Excused, Error, Sensors, Typed
<1>g. ASSUME \A h \in Timers : timer'[h].reading = Error => Excused',
             \A s \in Sensors : server'[s] = Error => Excused'
      PROVE  MeasuredInv'
  BY <1>g DEF MeasuredInv, ReadingsAreMeasured, Excused
<1>1. CASE MainStep
  <2>1. UNCHANGED <<timer, server, faults>>
    BY <1>1, MainKeeps
  <2>2. CASE main = "htx"
    <3>1. \A h \in Timers : timer[h].reading # Error
      BY <1>d, <2>2 DEF Silent, Before
    <3>2. \A s \in Sensors : server[s] # Error
      BY <1>d, <2>2 DEF Silent, Before, Nothing
    <3> QED
      BY <1>g, <2>1, <3>1, <3>2
  <2>3. CASE main # "htx"
    BY <1>d, <1>g, <1>1, <2>1, <2>3, MainKeeps DEF Excused
  <2> QED
    BY <2>2, <2>3
<1>2. CASE Elsewhere
  BY <1>d, <1>g, <1>2, ElsewhereKeeps DEF Excused
<1>3. CASE GpioRead \/ GpioFault
  BY <1>d, <1>g, <1>3, SampleShows, MonitoringKeeps DEF Excused
<1>4. CASE EventTrigger
  <2>1. \A s \in Sensors : server'[s] = Error => server[s] = Error
    BY <1>d, <1>4, EventShows
  <2> QED
    BY <1>d, <1>g, <1>4, <2>1, MonitoringKeeps, EventShows DEF Excused
<1>5. ASSUME NEW h \in Timers, Expire(h) \/ Reporter(h)
      PROVE  MeasuredInv'
  <2>1. Excused => Excused'
    BY <1>d, <1>5, TimerKeeps DEF Excused
  <2>2. \A g \in Timers : timer'[g].reading = Error => Excused'
    <3>1. timer'[h].reading = Error => Excused'
      BY <1>d, <1>5, <2>1, TimerKeeps DEF Excused, Typed
    <3> QED
      BY <1>d, <1>5, <2>1, <3>1, TimerKeeps
  <2>3. \A s \in Sensors : server'[s] = Error => Excused'
    BY <1>d, <1>5, <2>1, TimerKeeps
  <2> QED
    BY <1>g, <2>2, <2>3
<1> QED
  BY <1>1, <1>2, <1>3, <1>4, <1>5, Cases

LEMMA DoorStep ==
    Typed /\ Silent /\ DoorFollowsUnlessMissed /\ [Next]_vars
        => DoorFollowsUnlessMissed'
<1> SUFFICES ASSUME Typed, Silent, DoorFollowsUnlessMissed, [Next]_vars
             PROVE  DoorFollowsUnlessMissed'
  OBVIOUS
<1> USE DEF DoorFollowsUnlessMissed, Reported
<1>1. CASE MainStep
  <2>1. UNCHANGED <<last, missed, server>>
    BY <1>1, MainKeeps
  <2>2. CASE main \in Before
    BY <2>1, <2>2 DEF Silent
  <2>3. CASE main \notin Before
    BY <1>1, <2>1, <2>3, MainKeeps DEF Before
  <2> QED
    BY <2>2, <2>3
<1>2. CASE Elsewhere
  BY <1>2, ElsewhereKeeps
<1>3. CASE GpioRead \/ GpioFault
  BY <1>3, SampleShows
<1>4. CASE EventTrigger
  BY <1>4, EventShows, MonitoringKeeps
<1>5. ASSUME NEW h \in Timers, Expire(h) \/ Reporter(h)
      PROVE  DoorFollowsUnlessMissed'
  BY <1>5, TimerKeeps DEF door
<1> QED
  BY <1>1, <1>2, <1>3, <1>4, <1>5, Cases

LEMMA Invariance == Spec => []Inv
<1>1. Inv /\ [Next]_vars => Inv'
  BY TypedStep, SilentStep, MeasuredStep, DoorStep DEF Inv
<1> QED
  BY InvInit, <1>1, PTL DEF Spec

-----------------------------------------------------------------------------
(* Nothing is sampled, shown or kept alive before the ids were filled in   *)
(* (main.c:172-202).                                                       *)
THEOREM SilentUntilRegistered == Spec => []ReportsAfterRegistration
<1>1. Inv => ReportsAfterRegistration
  BY DEF Inv, Silent, Before, ReportsAfterRegistration
<1> QED
  BY Invariance, <1>1, PTL

(* An error is shown as a reading only if the HTX23C is missing or a read  *)
(* failed (main.c:92-111, 194).                                            *)
THEOREM ErrorsExcused == Spec => []ReadingsAreMeasured
<1>1. Inv => ReadingsAreMeasured
  BY DEF Inv, MeasuredInv
<1> QED
  BY Invariance, <1>1, PTL

(* What the server shows of the door is the last sample, unless that was   *)
(* published while the gateway was not connected, or on a connection that  *)
(* was broken already, whether the library knew or not (pir.c:33-41).      *)
THEOREM DoorFollows == Spec => []DoorFollowsUnlessMissed
<1>1. Inv => DoorFollowsUnlessMissed
  BY DEF Inv
<1> QED
  BY Invariance, <1>1, PTL

-----------------------------------------------------------------------------
(* The type invariant, in parts that are each within one prover's reach.   *)
TypeFlags ==
    /\ running \in BOOLEAN /\ broken \in BOOLEAN
    /\ armed \in BOOLEAN
    /\ alive \in BOOLEAN /\ missed \in BOOLEAN

TypePlaces ==
    /\ told \in Link!News
    /\ main \in {"init", "connect", "register", "htx", "pir", "timer",
                 "loop", "exit"}
    /\ ids \subseteq Sensors /\ htx \in {"null", "handle"}
    /\ gpio \in {"0", "1"} /\ last \in {"2", "0", "1", "nul"}
    /\ pir \in {"none", "sleep", "changed"}

TypeReadings ==
    /\ climate \in 0 .. MaxClimate
    /\ \A h \in Timers : timer[h].reading \in Readings
    /\ \A s \in Sensors : server[s] \in Readings \cup {-2, 0, 1}
    /\ faults \in 0 .. MaxFaults /\ flips \in 0 .. MaxFlips
    /\ losses \in 0 .. MaxLosses

LEMMA FlagsStep == TypeFlags /\ [Next]_vars => TypeFlags'
<1> SUFFICES ASSUME TypeFlags, [Next]_vars PROVE TypeFlags'
  OBVIOUS
<1> USE DEF TypeFlags, library, set_up, door, bounds
<1>1. CASE Main
  <2>1. CASE MainInit \/ MainRegister \/ MainHtx \/ MainPir
    BY <2>1 DEF MainInit, MainRegister, MainHtx, MainPir, MainGoes
  <2>2. CASE MainConnect
    BY <2>2 DEF MainConnect, MainGoes, Link!Start
  <2>3. CASE MainTimer
    BY <2>3 DEF MainTimer, MainGoes
  <2> QED
    BY <1>1, <2>1, <2>2, <2>3 DEF Main
<1>2. CASE MainExits
  BY <1>2 DEF MainExits, MainGoes
<1>3. CASE Connected \/ Refused \/ Disconnected \/ Break
  BY <1>3 DEF Connected, Refused, Disconnected, Break, Library,
              Link!TellConnected,
              Link!TellRefused, Link!TellDisconnected
<1>4. CASE GpioRead \/ GpioFault
  BY <1>4 DEF GpioRead, GpioFault, Sample, Monitoring
<1>5. CASE EventTrigger
  BY <1>5 DEF EventTrigger, Monitoring
<1>6. ASSUME NEW h \in Timers, Expire(h) \/ Reporter(h) PROVE TypeFlags'
  <2>1. CASE StatusPublish(h)
    BY <2>1 DEF StatusPublish, Reporting
  <2>2. CASE ~StatusPublish(h)
    BY <1>6, <2>2
       DEF Reporter, Expire, GetTemperature, PublishTemperature, GetHumidity,
           PublishHumidity, Get, Reporting
  <2> QED
    BY <2>1, <2>2
<1>7. CASE Flip \/ Weather \/ StatusExpires
  BY <1>7 DEF Flip, Weather, StatusExpires
<1>8. CASE UNCHANGED vars
  BY <1>8 DEF vars
<1> QED
  BY <1>1, <1>2, <1>3, <1>4, <1>5, <1>6, <1>7, <1>8 DEF Next

LEMMA PlacesStep == TypePlaces /\ [Next]_vars => TypePlaces'
<1> SUFFICES ASSUME TypePlaces, [Next]_vars PROVE TypePlaces'
  OBVIOUS
<1> USE DEF TypePlaces, library, set_up, door, bounds
<1>1. CASE Main
  <2>1. CASE MainConnect
    BY <2>1 DEF MainConnect, MainGoes, Link!Start, Link!News
  <2>2. CASE MainInit \/ MainRegister \/ MainHtx \/ MainPir \/ MainTimer
    BY <2>2 DEF MainInit, MainRegister, MainHtx, MainPir, MainTimer, MainGoes
  <2> QED
    BY <1>1, <2>1, <2>2 DEF Main
<1>2. CASE MainExits
  BY <1>2 DEF MainExits, MainGoes
<1>3. CASE Connected \/ Refused \/ Disconnected \/ Break
  BY <1>3 DEF Connected, Refused, Disconnected, Break, Library,
              Link!TellConnected,
              Link!TellRefused, Link!TellDisconnected, Link!News
<1>4. CASE GpioRead \/ GpioFault
  BY <1>4 DEF GpioRead, GpioFault, Sample, Monitoring
<1>5. CASE EventTrigger
  BY <1>5 DEF EventTrigger, Monitoring
<1>6. ASSUME NEW h \in Timers, Expire(h) \/ Reporter(h) PROVE TypePlaces'
  BY <1>6 DEF Reporter, Expire, StatusPublish, GetTemperature,
              PublishTemperature, GetHumidity, PublishHumidity, Get, Reporting
<1>7. CASE Flip \/ Weather \/ StatusExpires
  BY <1>7 DEF Flip, Weather, StatusExpires
<1>8. CASE UNCHANGED vars
  BY <1>8 DEF vars
<1> QED
  BY <1>1, <1>2, <1>3, <1>4, <1>5, <1>6, <1>7, <1>8 DEF Next

(* The tallies of history alone. *)
LEMMA TalliesStep ==
    ASSUME TypeReadings, [Next]_vars
    PROVE  /\ climate' \in 0 .. MaxClimate
           /\ faults' \in 0 .. MaxFaults /\ flips' \in 0 .. MaxFlips
           /\ losses' \in 0 .. MaxLosses
<1> USE BoundsAssumption DEF TypeReadings, library, set_up, door, bounds
<1>1. CASE Main \/ MainExits
  BY <1>1 DEF Main, MainExits, MainInit, MainConnect, MainRegister, MainHtx,
              MainPir, MainTimer, MainGoes
<1>2. CASE Connected \/ Refused \/ Disconnected \/ Break
  BY <1>2 DEF Connected, Refused, Disconnected, Break, Library
<1>3. CASE GpioRead \/ GpioFault \/ EventTrigger
  BY <1>3 DEF GpioRead, GpioFault, Sample, EventTrigger, Monitoring
<1>4. ASSUME NEW h \in Timers, Expire(h) \/ Reporter(h)
      PROVE  /\ climate' = climate /\ flips' = flips /\ losses' = losses
             /\ faults' \in 0 .. MaxFaults
  BY <1>4 DEF Reporter, Expire, StatusPublish, GetTemperature,
              PublishTemperature, GetHumidity, PublishHumidity, Get, Reporting
<1>5. CASE Flip \/ Weather \/ StatusExpires
  BY <1>5 DEF Flip, Weather, StatusExpires
<1>6. CASE UNCHANGED vars
  BY <1>6 DEF vars
<1> QED
  BY <1>1, <1>2, <1>3, <1>4, <1>5, <1>6 DEF Next

LEMMA ReadingsStep == Typed /\ TypeReadings /\ [Next]_vars => TypeReadings'
<1> SUFFICES ASSUME Typed, TypeReadings, [Next]_vars PROVE TypeReadings'
  OBVIOUS
<1> DEFINE Shown == Readings \cup {-2, 0, 1}
<1>r. /\ {Error, 0} \subseteq Readings /\ climate \in Readings
      /\ \A h \in Timers : timer[h].reading \in Readings
      /\ \A s \in Sensors : server[s] \in Shown
      /\ Readings \subseteq Shown /\ {0, 1} \subseteq Shown
  BY BoundsAssumption DEF TypeReadings, Readings
<1> HIDE DEF Shown
<1>g. ASSUME \A h \in Timers : timer'[h].reading \in Readings,
             \A s \in Sensors : server'[s] \in Shown
      PROVE  TypeReadings'
  BY <1>g, TalliesStep DEF TypeReadings, Shown
<1>1. CASE MainStep
  BY <1>1, <1>r, <1>g, MainKeeps
<1>2. CASE Elsewhere
  BY <1>2, <1>r, <1>g, ElsewhereKeeps
<1>3. CASE GpioRead \/ GpioFault
  BY <1>3, <1>r, <1>g, SampleShows, MonitoringKeeps
<1>4. CASE EventTrigger
  <2>1. \A s \in Sensors : server'[s] \in Shown
    BY <1>4, <1>r, EventShows
  <2> QED
    BY <1>4, <1>r, <1>g, <2>1, MonitoringKeeps
<1>5. ASSUME NEW h \in Timers, Expire(h) \/ Reporter(h)
      PROVE  TypeReadings'
  <2>1. \A g \in Timers : timer'[g].reading \in Readings
    BY <1>5, <1>r, TimerKeeps
  <2>2. \A s \in Sensors : server'[s] \in Shown
    BY <1>5, <1>r, TimerKeeps
  <2> QED
    BY <1>g, <2>1, <2>2
<1> QED
  BY <1>1, <1>2, <1>3, <1>4, <1>5, Cases

(* Every variable of the example keeps its type.                           *)
THEOREM TypeCorrect == Spec => []TypeOK
<1> DEFINE Types == TypeFlags /\ TypePlaces /\ TypeReadings
<1>1. Init => Types
  <2> SUFFICES ASSUME Init PROVE Types
    OBVIOUS
  <2>1. TypeFlags
    BY DEF Init, TypeFlags, Link!Init
  <2>2. TypePlaces
    BY DEF Init, TypePlaces, Link!Init, Link!News
  <2>3. TypeReadings
    BY BoundsAssumption DEF Init, TypeReadings, Readings, Nothing
  <2> QED
    BY <2>1, <2>2, <2>3
<1>2. Inv /\ Types /\ [Next]_vars => Types'
  BY FlagsStep, PlacesStep, ReadingsStep DEF Inv
<1>3. Inv /\ Types => TypeOK
  <2> SUFFICES ASSUME Inv, Types PROVE TypeOK
    OBVIOUS
  <2>1. timer \in [Timers -> [at : Places, reading : Readings]]
    BY DEF Inv, Typed, TypeReadings
  <2>2. server \in [Sensors -> Readings \cup {-2, 0, 1}]
    BY DEF Inv, Typed, TypeReadings
  <2> QED
    BY <2>1, <2>2, Zenon
       DEF TypeOK, TypeFlags, TypePlaces, TypeReadings, Places
<1> HIDE DEF Types
<1> QED
  BY Invariance, <1>1, <1>2, <1>3, PTL DEF Spec
=============================================================================
