----------------------------- MODULE MqttClient -----------------------------
(***************************************************************************)
(* The MQTT client of libthingplus (library/src/mqtt/mqtt.c) with the      *)
(* network thread that mosquitto_loop_start creates, the application       *)
(* threads that publish, and the broker at the other end of the TCP        *)
(* connection.                                                             *)
(*                                                                         *)
(* struct mqtt has no lock: the application threads read t->state while    *)
(* the network thread writes it from _cb_connected and _cb_disconnected,   *)
(* so every read of t->state and every call into libmosquitto is a step of *)
(* its own.                                                                *)
(*                                                                         *)
(* libmosquitto and the broker are not in the repository; they are         *)
(* modelled from how mqtt.c uses them: a socket that exists from the       *)
(* moment the client starts a handshake until it notices the loss or has   *)
(* sent DISCONNECT, a publish that fails only when there is no socket, an  *)
(* ordered stream of packets to the broker, one session per gateway with   *)
(* clean start, and a will the broker sends when a session ends without    *)
(* DISCONNECT.  QoS 1 retransmission inside libmosquitto is left out.      *)
(***************************************************************************)
EXTENDS Integers, Sequences

CONSTANTS
    Threads,        \* application threads that use one thingplus instance
    Main,           \* the one that connects and disconnects
    MaxConnects,    \* bound: calls of mqtt_connect
    MaxCalls,       \* bound: calls that publish values or statuses
    MaxPackets,     \* bound: packets one mqtt_status_publish sends
    MaxFaults,      \* bound: lost connections and refused handshakes
    MaxRequests     \* bound: requests the server sends

ASSUME ThreadsAssumption == Main \in Threads

ASSUME BoundsAssumption ==
    /\ MaxConnects \in Nat /\ MaxCalls \in Nat /\ MaxPackets \in Nat
    /\ MaxFaults \in Nat /\ MaxRequests \in Nat

VARIABLES
    state,      \* t->state
    net,        \* where the network thread is; "off" when there is none
    link,       \* the client's socket: none, waiting for CONNACK, connected
    stopping,   \* mosquitto_disconnect was called since mosquitto_loop_start
    wire,       \* packets written to the socket, not yet read by the broker
    pc,         \* pc[t]: where application thread t is
    left,       \* left[t]: packets t's mqtt_status_publish has still to send
    lost,       \* lost[t]: mosquitto_publish did not take t's last value
    ret,        \* ret[t]: what t's last call returned
    told,       \* the last connection callback the application got
    sess,       \* the broker's side of the connection
    subscribed, \* the broker holds the subscription to the request topic
    status,     \* the last gateway status the broker got
    inbox,      \* requests sent to the client and not yet handled
    raced,      \* history: _cb_connected published "on" during mqtt_disconnect
    connects, calls, faults,    \* history, for the bounds
    requests,   \* history: requests the server sent
    answered    \* history: those answered, or given up when a session ended

appVars    == <<pc, left, lost, ret>>
brokerVars == <<sess, subscribed, status>>
history    == <<raced, connects, calls, faults, requests, answered>>
vars == <<state, net, link, stopping, wire, appVars, told, brokerVars,
          inbox, history>>

States   == {"INITIALIZED", "CONNECTED", "DISCONNECTED"}
Sending  == {"v_send", "s_send"}
Ending   == {"d_unsub", "d_check", "d_off", "d_req", "d_join"}
InConnectedCallback == {"c_sub", "c_on", "c_cb"}
Packets  == {"sub", "unsub", "on", "off", "value", "status", "res",
             "disconnect"}

TypeOK ==
    /\ state \in States
    /\ net \in {"off", "loop", "r_cb", "d_cb"} \cup InConnectedCallback
    /\ link \in {"down", "handshake", "up"}
    /\ stopping \in BOOLEAN
    /\ wire \in Seq(Packets)
    /\ pc \in [Threads -> {"idle"} \cup Sending \cup Ending]
    /\ left \in [Threads -> 0 .. MaxPackets]
    /\ lost \in [Threads -> {"none", "value"}]
    /\ ret \in [Threads -> {"none", "SUCCESS", "NOT_CONNECTED",
                            "INVALID_ARGUMENT"}]
    /\ told \in {"none", "connected", "refused", "disconnected"}
    /\ sess \in {"closed", "asked", "open", "refused", "lost", "expired"}
    /\ subscribed \in BOOLEAN
    /\ status \in {"none", "on", "off", "err"}
    /\ inbox \in Nat
    /\ raced \in BOOLEAN
    /\ connects \in 0 .. MaxConnects
    /\ calls \in 0 .. MaxCalls
    /\ faults \in 0 .. MaxFaults
    /\ requests \in 0 .. MaxRequests
    /\ answered \in Nat

(* mqtt_init: the instance exists, nothing is connected. *)
Init ==
    /\ state = "INITIALIZED"
    /\ net = "off" /\ link = "down" /\ stopping = FALSE /\ wire = <<>>
    /\ pc = [t \in Threads |-> "idle"]
    /\ left = [t \in Threads |-> 0]
    /\ lost = [t \in Threads |-> "none"]
    /\ ret = [t \in Threads |-> "none"]
    /\ told = "none"
    /\ sess = "closed" /\ subscribed = FALSE
    /\ status = "none"
    /\ inbox = 0 /\ raced = FALSE
    /\ connects = 0 /\ calls = 0 /\ faults = 0
    /\ requests = 0 /\ answered = 0

-----------------------------------------------------------------------------
(* libmosquitto: a packet handed to the library. *)

HasSocket == link # "down"

(* The broker has or will have read CONNECT and reads what follows it. *)
Reachable == sess \in {"asked", "open"}

(* The wire after packet p was handed to mosquitto_publish, _subscribe,    *)
(* _unsubscribe or _disconnect.  Without a socket the call fails and       *)
(* nothing is sent; on a connection that is already broken it succeeds and *)
(* the packet is lost.                                                     *)
Sent(p) == IF HasSocket /\ Reachable THEN Append(wire, p) ELSE wire

-----------------------------------------------------------------------------
(* mqtt_connect: -1 before mosquitto_connect_async succeeded, or the       *)
(* network thread is started and 0 says no more than that.                 *)

ConnectFails ==
    /\ pc[Main] = "idle" /\ net = "off" /\ connects < MaxConnects
    /\ connects' = connects + 1
    /\ ret' = [ret EXCEPT ![Main] = "INVALID_ARGUMENT"]
    /\ lost' = [lost EXCEPT ![Main] = "none"]
    /\ UNCHANGED <<state, net, link, stopping, wire, pc, left, told,
                   brokerVars, inbox, raced, calls, faults, requests,
                   answered>>

Connect ==
    /\ pc[Main] = "idle" /\ net = "off" /\ connects < MaxConnects
    /\ connects' = connects + 1
    /\ net' = "loop"
    /\ stopping' = FALSE
    /\ ret' = [ret EXCEPT ![Main] = "SUCCESS"]
    /\ lost' = [lost EXCEPT ![Main] = "none"]
    /\ UNCHANGED <<state, link, wire, pc, left, told, brokerVars, inbox,
                   raced, calls, faults, requests, answered>>

-----------------------------------------------------------------------------
(* mqtt_value_publish and mqtt_status_publish on thread t. *)

(* A call begins: nothing of it failed yet. *)
Begins(t) ==
    /\ pc[t] = "idle" /\ calls < MaxCalls
    /\ calls' = calls + 1
    /\ lost' = [lost EXCEPT ![t] = "none"]
    /\ UNCHANGED <<state, net, link, stopping, wire, told, brokerVars,
                   inbox, raced, connects, faults, requests, answered>>

(* The argument checks. *)
PublishBadArgument(t) ==
    /\ Begins(t)
    /\ ret' = [ret EXCEPT ![t] = "INVALID_ARGUMENT"]
    /\ UNCHANGED <<pc, left>>

(* t->state is read and is not STATE_CONNECTED. *)
PublishNotConnected(t) ==
    /\ Begins(t)
    /\ state # "CONNECTED"
    /\ ret' = [ret EXCEPT ![t] = "NOT_CONNECTED"]
    /\ UNCHANGED <<pc, left>>

ValueChecked(t) ==
    /\ Begins(t)
    /\ state = "CONNECTED"
    /\ pc' = [pc EXCEPT ![t] = "v_send"]
    /\ UNCHANGED <<left, ret>>

(* One packet when an entry names the gateway, else one for every entry    *)
(* with an id, possibly none.                                              *)
StatusChecked(t) ==
    /\ Begins(t)
    /\ state = "CONNECTED"
    /\ pc' = [pc EXCEPT ![t] = "s_send"]
    /\ \E n \in 0 .. MaxPackets : left' = [left EXCEPT ![t] = n]
    /\ UNCHANGED ret

(* Mutant: the result of mosquitto_publish is not looked at. *)
ValueSendUnchecked(t) ==
    /\ pc[t] = "v_send"
    /\ wire' = Sent("value")
    /\ lost' = [lost EXCEPT ![t] = IF HasSocket THEN "none" ELSE "value"]
    /\ ret' = [ret EXCEPT ![t] = "SUCCESS"]
    /\ pc' = [pc EXCEPT ![t] = "idle"]
    /\ UNCHANGED <<state, net, link, stopping, left, told, brokerVars,
                   inbox, history>>

ValueSend(t) ==
    /\ pc[t] = "v_send"
    /\ wire' = Sent("value")
    /\ lost' = [lost EXCEPT ![t] = IF HasSocket THEN "none" ELSE "value"]
    /\ ret' = [ret EXCEPT ![t] =
                 IF HasSocket THEN "SUCCESS" ELSE "INVALID_ARGUMENT"]
    /\ pc' = [pc EXCEPT ![t] = "idle"]
    /\ UNCHANGED <<state, net, link, stopping, left, told, brokerVars,
                   inbox, history>>

StatusSend(t) ==
    /\ pc[t] = "s_send" /\ left[t] > 0
    /\ wire' = Sent("status")
    /\ left' = [left EXCEPT ![t] = @ - 1]
    /\ UNCHANGED <<state, net, link, stopping, pc, lost, ret, told,
                   brokerVars, inbox, history>>

(* Whatever happened to the packets, THINGPLUS_ERR_SUCCESS. *)
StatusReturn(t) ==
    /\ pc[t] = "s_send" /\ left[t] = 0
    /\ ret' = [ret EXCEPT ![t] = "SUCCESS"]
    /\ pc' = [pc EXCEPT ![t] = "idle"]
    /\ UNCHANGED <<state, net, link, stopping, wire, left, lost, told,
                   brokerVars, inbox, history>>

Publish(t) ==
    \/ PublishBadArgument(t) \/ PublishNotConnected(t)
    \/ ValueChecked(t) \/ ValueSend(t)
    \/ StatusChecked(t) \/ StatusSend(t) \/ StatusReturn(t)

-----------------------------------------------------------------------------
(* mqtt_disconnect, one step per read of t->state and per library call. *)

Goto(step) == pc' = [pc EXCEPT ![Main] = step]

DisconnectCall ==
    /\ pc[Main] = "idle"
    /\ Goto(IF state # "INITIALIZED" THEN "d_unsub" ELSE "d_check")
    /\ lost' = [lost EXCEPT ![Main] = "none"]
    /\ UNCHANGED <<state, net, link, stopping, wire, left, ret, told,
                   brokerVars, inbox, history>>

DisconnectUnsubscribe ==
    /\ pc[Main] = "d_unsub"
    /\ wire' = Sent("unsub")
    /\ Goto("d_check")
    /\ UNCHANGED <<state, net, link, stopping, left, lost, ret, told,
                   brokerVars, inbox, history>>

(* Mutant: "off" is not published. *)
DisconnectCheckSkips ==
    /\ pc[Main] = "d_check"
    /\ Goto("d_req")
    /\ UNCHANGED <<state, net, link, stopping, wire, left, lost, ret, told,
                   brokerVars, inbox, history>>

DisconnectCheck ==
    /\ pc[Main] = "d_check"
    /\ Goto(IF state = "CONNECTED" THEN "d_off" ELSE "d_req")
    /\ UNCHANGED <<state, net, link, stopping, wire, left, lost, ret, told,
                   brokerVars, inbox, history>>

(* _mqtt_status_publish(t, false) *)
DisconnectOff ==
    /\ pc[Main] = "d_off"
    /\ wire' = Sent("off")
    /\ Goto("d_req")
    /\ UNCHANGED <<state, net, link, stopping, left, lost, ret, told,
                   brokerVars, inbox, history>>

(* Mutant: mosquitto_disconnect is called on a connection only. *)
DisconnectRequestIfUp ==
    /\ pc[Main] = "d_req"
    /\ wire' = Sent("disconnect")
    /\ stopping' = (state = "CONNECTED")
    /\ Goto("d_join")
    /\ UNCHANGED <<state, net, link, left, lost, ret, told, brokerVars,
                   inbox, history>>

(* mosquitto_disconnect *)
DisconnectRequest ==
    /\ pc[Main] = "d_req"
    /\ wire' = Sent("disconnect")
    /\ stopping' = TRUE
    /\ Goto("d_join")
    /\ UNCHANGED <<state, net, link, left, lost, ret, told, brokerVars,
                   inbox, history>>

(* mosquitto_loop_stop(false) joins the network thread. *)
DisconnectJoin ==
    /\ pc[Main] = "d_join" /\ net = "off"
    /\ Goto("idle")
    /\ ret' = [ret EXCEPT ![Main] = "SUCCESS"]
    /\ UNCHANGED <<state, net, link, stopping, wire, left, lost, told,
                   brokerVars, inbox, history>>

Disconnect ==
    \/ DisconnectUnsubscribe \/ DisconnectCheck \/ DisconnectOff
    \/ DisconnectRequest \/ DisconnectJoin

-----------------------------------------------------------------------------
(* The network thread. *)

(* A (re)connection: the broker takes a gateway's next connection after it *)
(* is done with the last one.                                              *)
NetReconnect ==
    /\ net = "loop" /\ link = "down" /\ ~stopping /\ sess = "closed"
    /\ link' = "handshake"
    /\ sess' = "asked"
    /\ UNCHANGED <<state, net, stopping, wire, appVars, told, subscribed,
                   status, inbox, history>>

(* CONNACK 0: _cb_connected sets t->state first. *)
NetConnack ==
    /\ net = "loop" /\ link = "handshake" /\ sess \in {"open", "lost"}
    /\ link' = "up"
    /\ state' = "CONNECTED"
    /\ net' = "c_sub"
    /\ UNCHANGED <<stopping, wire, appVars, told, brokerVars, inbox,
                   history>>

(* Mutant: the subscription of the first connection is taken to last. *)
NetSubscribeOnce ==
    /\ net = "c_sub"
    /\ wire' = IF told = "none" THEN Sent("sub") ELSE wire
    /\ net' = "c_on"
    /\ UNCHANGED <<state, link, stopping, appVars, told, brokerVars, inbox,
                   history>>

(* Mutant: the status is published before the subscription. *)
NetOnBeforeSubscribe ==
    /\ net = "c_sub"
    /\ wire' = Sent("on")
    /\ net' = "c_on"
    /\ UNCHANGED <<state, link, stopping, appVars, told, brokerVars, inbox,
                   history>>

NetSubscribe ==
    /\ net = "c_sub"
    /\ wire' = Sent("sub")
    /\ net' = "c_on"
    /\ UNCHANGED <<state, link, stopping, appVars, told, brokerVars, inbox,
                   history>>

(* Mutant: "on" is published by the first connection only. *)
NetOnOnce ==
    /\ net = "c_on"
    /\ wire' = IF told = "none" THEN Sent("on") ELSE wire
    /\ net' = "c_cb"
    /\ raced' = (raced \/ pc[Main] \in Ending)
    /\ UNCHANGED <<state, link, stopping, appVars, told, brokerVars, inbox,
                   connects, calls, faults, requests, answered>>

(* _mqtt_status_publish(t, true) *)
NetOn ==
    /\ net = "c_on"
    /\ wire' = Sent("on")
    /\ net' = "c_cb"
    /\ raced' = (raced \/ pc[Main] \in Ending)
    /\ UNCHANGED <<state, link, stopping, appVars, told, brokerVars, inbox,
                   connects, calls, faults, requests, answered>>

(* Mutant: only the first connection is announced. *)
NetConnectedOnce ==
    /\ net = "c_cb"
    /\ told' = IF told = "none" THEN "connected" ELSE told
    /\ net' = "loop"
    /\ UNCHANGED <<state, link, stopping, wire, appVars, brokerVars, inbox,
                   history>>

NetConnectedCallback ==
    /\ net = "c_cb"
    /\ told' = "connected"
    /\ net' = "loop"
    /\ UNCHANGED <<state, link, stopping, wire, appVars, brokerVars, inbox,
                   history>>

(* CONNACK 1..5: _cb_connected only tells the application; libmosquitto    *)
(* then closes the socket, see NetLost.                                    *)
NetRefused ==
    /\ net = "loop" /\ link = "handshake" /\ sess = "refused"
    /\ told' = "refused"
    /\ net' = "r_cb"
    /\ UNCHANGED <<state, link, stopping, wire, appVars, brokerVars, inbox,
                   history>>

(* Mutant: _cb_disconnected leaves t->state alone. *)
SocketClosedUnseen ==
    /\ link' = "down"
    /\ net' = "d_cb"
    /\ inbox' = 0
    /\ sess' = IF sess \in {"asked", "expired", "refused"}
               THEN "closed" ELSE sess
    /\ wire' = IF sess = "open" THEN wire ELSE <<>>
    /\ UNCHANGED <<state, stopping, appVars, told, subscribed, status,
                   history>>

(* The socket is closed and _cb_disconnected begins; what the broker had   *)
(* not seen the end of stays with the broker.                              *)
SocketClosed ==
    /\ link' = "down"
    /\ state' = "DISCONNECTED"
    /\ net' = "d_cb"
    /\ inbox' = 0
    /\ sess' = IF sess \in {"asked", "expired", "refused"}
               THEN "closed" ELSE sess
    /\ wire' = IF sess = "open" THEN wire ELSE <<>>
    /\ UNCHANGED <<stopping, appVars, told, subscribed, status, history>>

NetLost ==
    /\ \/ net = "loop" /\ HasSocket /\ sess \in {"lost", "expired"}
       \/ net = "r_cb"
    /\ SocketClosed

(* DISCONNECT is written and the socket closed by the client. *)
NetClose ==
    /\ net = "loop" /\ HasSocket /\ stopping
    /\ SocketClosed

(* Mutant: the application is not told of the end of a connection. *)
NetDisconnectedUntold ==
    /\ net = "d_cb"
    /\ net' = "loop"
    /\ UNCHANGED <<state, link, stopping, wire, appVars, told, brokerVars,
                   inbox, history>>

NetDisconnectedCallback ==
    /\ net = "d_cb"
    /\ told' = "disconnected"
    /\ net' = "loop"
    /\ UNCHANGED <<state, link, stopping, wire, appVars, brokerVars, inbox,
                   history>>

(* mosquitto_loop_forever returns once it has nothing left to do. *)
NetExit ==
    /\ net = "loop" /\ link = "down" /\ stopping
    /\ net' = "off"
    /\ UNCHANGED <<state, link, stopping, wire, appVars, told, brokerVars,
                   inbox, history>>

(* Mutant: a request that cannot be run is not answered. *)
NetMessageUnanswered ==
    /\ net = "loop" /\ link = "up" /\ inbox > 0
    /\ inbox' = inbox - 1
    /\ UNCHANGED <<state, net, link, stopping, wire, appVars, told,
                   brokerVars, history>>

(* _cb_message: the request is run and its result published.  Requests are *)
(* well-formed and the application has installed its callbacks; what       *)
(* becomes of others is the matter of DeviceManagement.                    *)
NetMessage ==
    /\ net = "loop" /\ link = "up" /\ inbox > 0
    /\ inbox' = inbox - 1
    /\ wire' = Sent("res")
    /\ UNCHANGED <<state, net, link, stopping, appVars, told, brokerVars,
                   history>>

Network ==
    \/ NetReconnect \/ NetConnack \/ NetSubscribe \/ NetOn
    \/ NetConnectedCallback \/ NetRefused \/ NetLost \/ NetClose
    \/ NetDisconnectedCallback \/ NetExit \/ NetMessage

-----------------------------------------------------------------------------
(* The broker and the network between it and the client. *)

(* A session ends: with it the subscription and what was not answered. *)
SessionEnds(next) ==
    /\ sess' = next
    /\ subscribed' = FALSE
    /\ answered' = requests
    /\ wire' = <<>>

BrokerAccept ==
    /\ sess = "asked"
    /\ sess' = "open"
    /\ UNCHANGED <<state, net, link, stopping, wire, appVars, told,
                   subscribed, status, inbox, history>>

BrokerRefuse ==
    /\ sess = "asked" /\ faults < MaxFaults
    /\ faults' = faults + 1
    /\ sess' = "refused"
    /\ wire' = <<>>
    /\ UNCHANGED <<state, net, link, stopping, appVars, told, subscribed,
                   status, inbox, raced, connects, calls, requests,
                   answered>>

(* The broker reads one packet. *)
BrokerReceive ==
    /\ sess = "open" /\ wire # <<>> /\ Head(wire) # "disconnect"
    /\ wire' = Tail(wire)
    /\ subscribed' = CASE Head(wire) = "sub"   -> TRUE
                       [] Head(wire) = "unsub" -> FALSE
                       [] OTHER                -> subscribed
    /\ status' = IF Head(wire) \in {"on", "off"} THEN Head(wire) ELSE status
    /\ answered' = IF Head(wire) = "res" THEN answered + 1 ELSE answered
    /\ UNCHANGED <<state, net, link, stopping, appVars, told, sess,
                   inbox, raced, connects, calls, faults, requests>>

(* DISCONNECT: the session ends and the will is thrown away. *)
BrokerDisconnect ==
    /\ sess = "open" /\ wire # <<>> /\ Head(wire) = "disconnect"
    /\ SessionEnds("closed")
    /\ UNCHANGED <<state, net, link, stopping, appVars, told, status, inbox,
                   raced, connects, calls, faults, requests>>

(* The connection breaks; what was written and not read is gone. *)
Drop ==
    /\ sess = "open" /\ faults < MaxFaults
    /\ faults' = faults + 1
    /\ SessionEnds("lost")
    /\ UNCHANGED <<state, net, link, stopping, appVars, told, status, inbox,
                   raced, connects, calls, requests>>

(* The broker gives the client up and sends its will. *)
BrokerExpire ==
    /\ sess = "lost"
    /\ sess' = IF HasSocket THEN "expired" ELSE "closed"
    /\ status' = "err"
    /\ UNCHANGED <<state, net, link, stopping, wire, appVars, told,
                   subscribed, inbox, history>>

BrokerRequest ==
    /\ sess = "open" /\ subscribed /\ HasSocket /\ requests < MaxRequests
    /\ requests' = requests + 1
    /\ inbox' = inbox + 1
    /\ UNCHANGED <<state, net, link, stopping, wire, appVars, told,
                   brokerVars, raced, connects, calls, faults, answered>>

Broker == BrokerAccept \/ BrokerReceive \/ BrokerDisconnect \/ BrokerExpire

-----------------------------------------------------------------------------
Next ==
    \/ ConnectFails \/ Connect \/ DisconnectCall \/ Disconnect
    \/ \E t \in Threads : Publish(t)
    \/ Network
    \/ Broker \/ BrokerRefuse \/ Drop \/ BrokerRequest

Spec == Init /\ [][Next]_vars

(* The threads that have something to do are scheduled: the network        *)
(* thread, the thread inside mqtt_disconnect, and the broker's machine.    *)
(* Nothing obliges the application to make a call or a fault to happen.    *)
Fairness == WF_vars(Network) /\ WF_vars(Disconnect) /\ WF_vars(Broker)

FairSpec == Spec /\ Fairness

-----------------------------------------------------------------------------
(* Properties. *)

(* t->state, which every API call relies on, says CONNECTED exactly while  *)
(* the network thread has a connection up, between callbacks; it is never  *)
(* left at CONNECTED by a refused, lost or closed connection, nor after    *)
(* the network thread has ended (mqtt.c:171-233).                          *)
StateTracksLink ==
    /\ net = "loop" => (state = "CONNECTED" <=> link = "up")
    /\ net = "off"  => state # "CONNECTED" /\ link = "down"

(* The application has been told the same: after the network thread ended  *)
(* its last news is never "connected", and a connection that is up has     *)
(* been announced (mqtt.c:189-217 and 227-232).                            *)
CallbackTracksLink ==
    /\ net = "loop" => (told = "connected" <=> link = "up")
    /\ net = "off"  => told # "connected"

(* What the application is told is what ConnectionEvents promises: no       *)
(* connection is announced twice, none ends unannounced, and the thread    *)
(* that calls back is gone when mqtt_disconnect returns.                   *)
Events == INSTANCE ConnectionEvents WITH running <- net # "off"

ImplementsEvents == Events!Spec

Disconnecting == stopping \/ pc[Main] \in Ending

(* The connection is up and nothing is in flight. *)
Settled ==
    net = "loop" /\ link = "up" /\ sess = "open" /\ wire = <<>>

(* A gateway that stays connected is shown as on and can be reached, also  *)
(* after any number of losses: the subscription and the status are renewed *)
(* by every _cb_connected (mqtt.c:181-186).                                *)
OnlineWhenSettled ==
    Settled /\ ~Disconnecting => status = "on" /\ subscribed

(* The server never sees a gateway that is on and cannot be asked          *)
(* anything: the subscription is sent before the status (mqtt.c:181-186),  *)
(* except while the gateway is going away.                                 *)
OnlineMeansReachable ==
    sess = "open" /\ HasSocket /\ status = "on" /\ ~Disconnecting /\ ~raced
        => subscribed

(* mqtt_disconnect has returned and the broker is done with the session. *)
Gone ==
    pc[Main] = "idle" /\ stopping /\ net = "off" /\ sess = "closed"

(* After mqtt_disconnect the gateway is not left shown as on, unless the   *)
(* network thread was inside _cb_connected meanwhile (mqtt.c:415-420).     *)
OffUnlessRaced == Gone /\ ~raced => status # "on"

(* mqtt_value_publish never returns success for a value mosquitto_publish  *)
(* did not take, however late the connection was lost (mqtt.c:280-305).    *)
ValueFailureReported ==
    \A t \in Threads :
        pc[t] = "idle" /\ lost[t] = "value" => ret[t] # "SUCCESS"

(* Every call of mqtt_disconnect returns, whatever the state of the        *)
(* connection (mqtt.c:403-423).                                            *)
DisconnectReturns == pc[Main] \in Ending ~> pc[Main] = "idle"

(* A client that was told to connect and not to disconnect gets online     *)
(* again after every loss and every refusal.                               *)
EventuallyOnline ==
    (net # "off" /\ ~Disconnecting)
        ~> (Disconnecting \/ (Settled /\ status = "on" /\ subscribed))

(* A request the server sent is answered, or its session ends. *)
RequestsAnswered == answered < requests ~> answered = requests
=============================================================================
