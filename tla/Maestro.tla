------------------------------ MODULE Maestro ------------------------------
(***************************************************************************)
(* The maestro example (examples/maestro/main.c, pir.c, htx23c.c): main    *)
(* connects, registers and starts the reporters; a monitoring thread       *)
(* reports each change of the door's GPIO once; a timer thread reports     *)
(* status, temperature and humidity on every expiry.                       *)
(*                                                                         *)
(* The library is what ConnectionEvents says of it.  A connection breaks   *)
(* some time before the library tells of it; what is published meanwhile   *)
(* is lost, as in MqttClient, although mosquitto_publish may succeed, and  *)
(* nobody looks at the result.  The packets of one connection arrive in    *)
(* order, so those lost are the last ones: here a packet sent before the   *)
(* break is at the server at once, which stands for any delay.             *)
(***************************************************************************)
EXTENDS Integers, FiniteSets

CONSTANTS
    Timers,         \* bound: threads glibc runs for expiries, at a time
    MaxFlips,       \* bound: changes of the door
    MaxClimate,     \* bound: changes of temperature and humidity
    MaxFaults,      \* bound: failed reads of the GPIO or the Modbus
    MaxLosses       \* bound: connections refused or lost

ASSUME BoundsAssumption ==
    /\ MaxFlips \in Nat /\ MaxClimate \in Nat
    /\ MaxFaults \in Nat /\ MaxLosses \in Nat

Sensors == {"door", "temperature", "humidity"}

(* HTX23C_ERROR, which is published like any reading *)
Error == -1

VARIABLES
    running, told,  \* the library, see ConnectionEvents
    broken,         \* the connection broke, the library does not know yet
    main,           \* where main is; "exit" when the process has ended
    ids,            \* the sensors whose sensor_id was filled in
    htx,            \* hbe_sensors[1].s: "null" or a handle
    armed,          \* the timer runs
    gpio,           \* the door: "0" or "1"
    pir,            \* where the monitoring thread is
    last,           \* last_value
    climate,        \* what the HTX23C would measure
    timer,          \* the timer threads: where each is, and its reading
    server,         \* what was last published under each sensor's id
    alive,          \* the statuses the server shows have not expired
    missed,         \* history: the last change of the door may be lost
    faults, flips, losses   \* history, for the bounds

library == <<running, told, broken>>
set_up == <<main, ids, htx, armed>>
door == <<gpio, pir, last, missed>>
bounds == <<faults, flips, losses>>
vars == <<library, set_up, door, climate, timer, server, alive, bounds>>

Link == INSTANCE ConnectionEvents

Up == told = "connected"

(* Whatever is published now reaches the server. *)
Intact == Up /\ ~broken

(* So may what is published between the server's acceptance and the        *)
(* callback (mqtt.c:180-216).                                              *)
MayArrive == Intact \/ (running /\ told \in Link!Between)

Readings == 0 .. MaxClimate \cup {Error}

TypeOK ==
    /\ running \in BOOLEAN /\ told \in Link!News /\ broken \in BOOLEAN
    /\ main \in {"init", "connect", "register", "htx", "pir", "timer",
                 "loop", "exit"}
    /\ ids \subseteq Sensors
    /\ htx \in {"null", "handle"} /\ armed \in BOOLEAN
    /\ gpio \in {"0", "1"} /\ last \in {"2", "0", "1", "nul"}
    /\ pir \in {"none", "sleep", "changed"}
    /\ climate \in 0 .. MaxClimate
    /\ timer \in [Timers ->
            [at : {"none", "status", "temperature", "publish_t", "humidity",
                   "publish_h"}, reading : Readings]]
    /\ server \in [Sensors -> Readings \cup {-2, 0, 1}]
    /\ alive \in BOOLEAN /\ missed \in BOOLEAN
    /\ faults \in 0 .. MaxFaults /\ flips \in 0 .. MaxFlips
    /\ losses \in 0 .. MaxLosses

Nothing == -2   \* nothing was published yet

Init ==
    /\ Link!Init /\ broken = FALSE
    /\ main = "init" /\ ids = {} /\ htx = "null"
    /\ armed = FALSE
    /\ gpio \in {"0", "1"} /\ pir = "none" /\ last = "2" /\ climate = 0
    /\ timer = [h \in Timers |-> [at |-> "none", reading |-> 0]]
    /\ server = [s \in Sensors |-> Nothing] /\ alive = FALSE
    /\ missed = FALSE /\ faults = 0 /\ flips = 0 /\ losses = 0

-----------------------------------------------------------------------------
(* main *)

MainGoes(from, to) ==
    /\ main = from
    /\ main' = to
    /\ UNCHANGED <<gpio, last, missed, climate, timer, server, alive, bounds>>

(* thingplus_init, thingplus_connect or timer_create fails; main returns.  *)
MainExits ==
    /\ \E from \in {"init", "connect", "timer"} : MainGoes(from, "exit")
    /\ UNCHANGED <<library, ids, htx, armed, pir>>

(* thingplus_init, and thingplus_callback_set with .connected alone *)
MainInit ==
    /\ MainGoes("init", "connect")
    /\ UNCHANGED <<library, ids, htx, armed, pir>>

MainConnect ==
    /\ MainGoes("connect", "register")
    /\ Link!Start
    /\ UNCHANGED <<broken, ids, htx, armed, pir>>

(* Results are ignored; an id is left empty when its call failed early. *)
MainRegister ==
    /\ MainGoes("register", "htx")
    /\ ids' \in SUBSET Sensors
    /\ UNCHANGED <<library, htx, armed, pir>>

(* htx23c_init: NULL without the tty. *)
MainHtx ==
    /\ MainGoes("htx", "pir")
    /\ htx' \in {"null", "handle"}
    /\ UNCHANGED <<library, ids, armed, pir>>

(* pir_init *)
MainPir ==
    /\ MainGoes("pir", "timer")
    /\ pir' = "sleep"
    /\ UNCHANGED <<library, ids, htx, armed>>

MainTimer ==
    /\ MainGoes("timer", "loop")
    /\ armed' = TRUE
    /\ UNCHANGED <<library, ids, htx, pir>>

Main ==
    \/ MainInit \/ MainConnect \/ MainRegister \/ MainHtx \/ MainPir
    \/ MainTimer

-----------------------------------------------------------------------------
(* The library's network thread. *)

Library ==
    /\ main # "exit"
    /\ UNCHANGED <<main, ids, htx, armed, door, climate, timer, server, alive,
                   faults, flips>>

(* _connected without an error: it sets a flag that nobody reads.          *)
Connected ==
    /\ Library /\ Link!TellConnected
    /\ UNCHANGED <<broken, losses>>

(* _connected with one *)
Refused ==
    /\ Library /\ Link!TellRefused /\ losses < MaxLosses
    /\ losses' = losses + 1
    /\ UNCHANGED broken

(* A connection that broke, or was refused, ends.                          *)
Disconnected ==
    /\ Library /\ Link!TellDisconnected
    /\ told = "refused" \/ broken
    /\ broken' = FALSE
    /\ UNCHANGED losses

(* The connection breaks, which only its keepalive or a write tells.       *)
Break ==
    /\ Library /\ Intact /\ losses < MaxLosses
    /\ broken' = TRUE
    /\ losses' = losses + 1
    /\ UNCHANGED <<running, told>>

-----------------------------------------------------------------------------
(* thingplus_value_publish of one value; an empty id is not refused, but   *)
(* no sensor shows what is published under it.                             *)
Publish(s, value) ==
    \/ MayArrive /\ s \in ids /\ server' = [server EXCEPT ![s] = value]
    \/ ~(Intact /\ s \in ids) /\ UNCHANGED server

(* The monitoring thread of pir.c. *)
Monitoring ==
    /\ main # "exit"
    /\ UNCHANGED <<library, set_up, gpio, climate, timer, alive, flips,
                   losses>>

(* A sample, which counts only when it differs from the one before.        *)
Sample(value) ==
    /\ Monitoring /\ pir = "sleep" /\ value # last
    /\ last' = value
    /\ pir' = "changed"
    /\ UNCHANGED <<missed, server>>

(* Mutant: after a failed read the next sample is skipped. *)
GpioReadSkips == Sample(gpio) /\ last # "nul" /\ UNCHANGED faults

GpioRead == Sample(gpio) /\ UNCHANGED faults

(* fread fails and leaves the zero that value was initialised with. *)
GpioFault == Sample("nul") /\ faults < MaxFaults /\ faults' = faults + 1

(* What a sample is reported as: it is inverted, and all but '0' is 1.     *)
Reported(value) == IF value = "0" THEN 1 ELSE 0

(* Mutant: the event is sent only when the door was opened. *)
EventTriggerOpen ==
    /\ Monitoring /\ pir = "changed"
    /\ IF last = "0" THEN Publish("door", Reported(last))
                     ELSE UNCHANGED server
    /\ missed' = ~Intact
    /\ pir' = "sleep"
    /\ UNCHANGED <<last, faults>>

(* hbe_event_trigger *)
EventTrigger ==
    /\ Monitoring /\ pir = "changed"
    /\ Publish("door", Reported(last))
    /\ missed' = ~Intact
    /\ pir' = "sleep"
    /\ UNCHANGED <<last, faults>>

-----------------------------------------------------------------------------
(* The timer. *)

Reporting ==
    /\ main # "exit"
    /\ UNCHANGED <<library, main, ids, htx, door, climate, flips,
                   losses>>

TimerGoes(h, from, to) ==
    /\ timer[h].at = from
    /\ timer' = [timer EXCEPT ![h].at = to]

(* The end of a publication; the reading is no longer used.                *)
TimerSent(h, from, to) ==
    /\ timer[h].at = from
    /\ timer' = [timer EXCEPT ![h] = [at |-> to, reading |-> 0]]

(* Mutant: it_interval is zero. *)
ExpireOnce(h) ==
    /\ Reporting /\ armed /\ TimerGoes(h, "none", "status")
    /\ armed' = FALSE
    /\ UNCHANGED <<server, alive, faults>>

Expire(h) ==
    /\ Reporting /\ armed /\ TimerGoes(h, "none", "status")
    /\ UNCHANGED <<armed, server, alive, faults>>

(* thingplus_status_publish of the gateway and the three sensors *)
StatusPublish(h) ==
    /\ Reporting /\ TimerGoes(h, "status", "temperature")
    /\ alive' \in {alive \/ Intact, alive \/ MayArrive}
    /\ UNCHANGED <<armed, server, faults>>

(* htx23c_temperature and htx23c_humidity: NULL, a failed read, a reading. *)
Get(h, handle, from, to) ==
    /\ Reporting /\ timer[h].at = from
    /\ \E r \in Readings :
          /\ \/ handle = "null" /\ r = Error /\ UNCHANGED faults
             \/ /\ handle # "null" /\ r = Error
                /\ faults < MaxFaults /\ faults' = faults + 1
             \/ handle # "null" /\ r = climate /\ UNCHANGED faults
          /\ timer' = [timer EXCEPT ![h] = [at |-> to, reading |-> r]]
    /\ UNCHANGED <<armed, server, alive>>

GetTemperature(h) == Get(h, htx, "temperature", "publish_t")

GetHumidity(h) == Get(h, htx, "humidity", "publish_h")

(* Mutant: a temperature is published only until one was taken. *)
PublishTemperatureOnce(h) ==
    /\ Reporting /\ TimerSent(h, "publish_t", "humidity")
    /\ IF server["temperature"] = Nothing
       THEN Publish("temperature", timer[h].reading) ELSE UNCHANGED server
    /\ UNCHANGED <<armed, alive, faults>>

PublishTemperature(h) ==
    /\ Reporting /\ TimerSent(h, "publish_t", "humidity")
    /\ Publish("temperature", timer[h].reading)
    /\ UNCHANGED <<armed, alive, faults>>

PublishHumidity(h) ==
    /\ Reporting /\ TimerSent(h, "publish_h", "none")
    /\ Publish("humidity", timer[h].reading)
    /\ UNCHANGED <<armed, alive, faults>>

Reporter(h) ==
    \/ StatusPublish(h) \/ GetTemperature(h) \/ PublishTemperature(h)
    \/ GetHumidity(h) \/ PublishHumidity(h)

-----------------------------------------------------------------------------
(* The world: the door, the weather, and the time statuses are valid for.  *)

Flip ==
    /\ flips < MaxFlips
    /\ flips' = flips + 1
    /\ gpio' = IF gpio = "0" THEN "1" ELSE "0"
    /\ UNCHANGED <<library, set_up, pir, last, missed, climate, timer, server,
                   alive, faults, losses>>

Weather ==
    /\ climate < MaxClimate
    /\ climate' = climate + 1
    /\ UNCHANGED <<library, set_up, door, timer, server, alive, bounds>>

StatusExpires ==
    /\ alive
    /\ alive' = FALSE
    /\ UNCHANGED <<library, set_up, door, climate, timer, server, bounds>>

Next ==
    \/ Main \/ MainExits
    \/ Connected \/ Refused \/ Disconnected \/ Break
    \/ GpioRead \/ GpioFault \/ EventTrigger
    \/ \E h \in Timers : Expire(h) \/ Reporter(h)
    \/ Flip \/ Weather \/ StatusExpires

Spec == Init /\ [][Next]_vars

(* Threads run; the timer expires again and again.  Main may still exit.   *)
(* The library finds out that a connection broke and keeps on trying, as   *)
(* MqttClient's EventuallyOnline says; breaks themselves are not fair.     *)
Fairness ==
    /\ WF_vars(Main \/ MainExits)
    /\ WF_vars(Connected \/ Refused) /\ WF_vars(Disconnected)
    /\ WF_vars(GpioRead) /\ WF_vars(EventTrigger)
    /\ WF_vars(\E h \in Timers : Expire(h))
    /\ \A h \in Timers : WF_vars(Reporter(h))

FairSpec == Spec /\ Fairness

-----------------------------------------------------------------------------
(* Properties. *)

(* What the server shows of a registered door is the last sample, unless   *)
(* that was published while the gateway was not connected, or on a         *)
(* connection that was broken already, known or not: a change is reported  *)
(* once and never again (pir.c:33-41, main.c:113-127).                     *)
DoorFollowsUnlessMissed ==
    pir = "sleep" /\ last # "2" /\ "door" \in ids
        => missed \/ server["door"] = Reported(last)

(* A temperature or humidity that was not measured is shown only if the    *)
(* HTX23C is missing or a read failed (main.c:92-111, 194).                *)
ReadingsAreMeasured ==
    (\E s \in Sensors : server[s] = Error) => htx = "null" \/ faults > 0

(* Nothing is sampled, shown or kept alive before the ids were filled in:  *)
(* an early report would go out under an empty id (main.c:172-202).        *)
ReportsAfterRegistration ==
    main \in {"init", "connect", "register"}
        => /\ last = "2" /\ ~alive
           /\ \A s \in Sensors : server[s] = Nothing

(* The statuses are renewed again and again, whatever publications and     *)
(* connections are lost: they do not hang on one message (main.c:78-89,    *)
(* 204-223).                                                               *)
StatusRenewed == <>[](main = "loop") => []<>alive

(* The temperature and the humidity of registered sensors become right     *)
(* again after failed reads and lost publications (main.c:92-111).         *)
ClimateHeals ==
    <>[](main = "loop" /\ htx = "handle")
        => <>[](\A s \in ids \ {"door"} : server[s] = climate)

(* The server comes to show how the door really is, through failed reads   *)
(* and losses, unless it was the last report that was lost (pir.c:20-44).  *)
DoorSettles ==
    <>[](main = "loop" /\ ~missed)
        => <>[]("door" \in ids => server["door"] = Reported(gpio))
=============================================================================
