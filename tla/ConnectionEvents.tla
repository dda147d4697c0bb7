-------------------------- MODULE ConnectionEvents --------------------------
(***************************************************************************)
(* What libthingplus promises an application about connection callbacks:   *)
(* after thingplus_connect a network thread runs; it reports that the      *)
(* server accepted or refused the gateway, and that the connection ended;  *)
(* every success and every refusal is followed by "disconnected" before    *)
(* the next attempt is reported; and thingplus_disconnect returns only     *)
(* after "disconnected", with no thread left that could report anything.   *)
(*                                                                         *)
(* MqttClient implements this; applications are modelled on top of it.     *)
(***************************************************************************)
VARIABLES
    running,    \* the network thread exists
    told        \* the last callback

events == <<running, told>>

News == {"none", "connected", "refused", "disconnected"}

Between == {"none", "disconnected"}

Init == running = FALSE /\ told = "none"

Start == ~running /\ running' = TRUE /\ UNCHANGED told

TellConnected ==
    running /\ told \in Between /\ told' = "connected" /\ UNCHANGED running

TellRefused ==
    running /\ told \in Between /\ told' = "refused" /\ UNCHANGED running

TellDisconnected == running /\ told' = "disconnected" /\ UNCHANGED running

Stop == running /\ told \in Between /\ running' = FALSE /\ UNCHANGED told

Next == Start \/ TellConnected \/ TellRefused \/ TellDisconnected \/ Stop

Spec == Init /\ [][Next]_events
=============================================================================
