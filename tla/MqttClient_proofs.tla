-------------------------- MODULE MqttClient_proofs --------------------------
(***************************************************************************)
(* Theorems about MqttClient for any set of threads and any bounds.        *)
(***************************************************************************)
EXTENDS MqttClient, TLAPS

-----------------------------------------------------------------------------
(* What holds while a callback runs, next to what StateTracksLink and      *)
(* CallbackTracksLink say between callbacks: _cb_connected runs with the   *)
(* state already CONNECTED and nothing announced, _cb_disconnected with    *)
(* the socket closed, and a refusal is soon followed by a disconnection.   *)
InCallback ==
    /\ told \in Events!News
    /\ told = "refused" => net \in {"r_cb", "d_cb"}
    /\ net \in InConnectedCallback => told # "connected"
    /\ net \in InConnectedCallback => state = "CONNECTED" /\ link = "up"
    /\ net = "r_cb" => state # "CONNECTED" /\ link = "handshake"
    /\ net = "d_cb" => state # "CONNECTED" /\ link = "down"

(* The inductive invariant. *)
LinkInv == StateTracksLink /\ CallbackTracksLink /\ InCallback

-----------------------------------------------------------------------------
(* TypeOK in two parts: the Boolean variables, and the others. *)
TypeFlags ==
    stopping \in BOOLEAN /\ subscribed \in BOOLEAN /\ raced \in BOOLEAN

TypeData ==
    /\ state \in States
    /\ net \in {"off", "loop", "r_cb", "d_cb"} \cup InConnectedCallback
    /\ link \in {"down", "handshake", "up"}
    /\ wire \in Seq(Packets)
    /\ pc \in [Threads -> {"idle"} \cup Sending \cup Ending]
    /\ left \in [Threads -> 0 .. MaxPackets]
    /\ lost \in [Threads -> {"none", "value"}]
    /\ ret \in [Threads -> {"none", "SUCCESS", "NOT_CONNECTED",
                            "INVALID_ARGUMENT"}]
    /\ told \in {"none", "connected", "refused", "disconnected"}
    /\ sess \in {"closed", "asked", "open", "refused", "lost", "expired"}
    /\ status \in {"none", "on", "off", "err"}
    /\ inbox \in Nat
    /\ connects \in 0 .. MaxConnects
    /\ calls \in 0 .. MaxCalls
    /\ faults \in 0 .. MaxFaults
    /\ requests \in 0 .. MaxRequests
    /\ answered \in Nat

LEMMA TypeParts == TypeOK <=> TypeFlags /\ TypeData
BY DEF TypeOK, TypeFlags, TypeData

(* A packet handed to the library leaves a sequence of packets. *)
LEMMA SentType ==
    ASSUME wire \in Seq(Packets), NEW p \in Packets
    PROVE  Sent(p) \in Seq(Packets)
BY DEF Sent

(* The flags change in mqtt_connect, mqtt_disconnect, _cb_connected and at  *)
(* the broker.                                                             *)
LEMMA FlagsStep == TypeFlags /\ [Next]_vars => TypeFlags'
<1> SUFFICES ASSUME TypeFlags, [Next]_vars PROVE TypeFlags'
  OBVIOUS
<1> USE DEF TypeFlags
<1>1. ASSUME UNCHANGED <<stopping, subscribed, raced>> PROVE TypeFlags'
  BY <1>1
<1>2. CASE ConnectFails \/ Connect \/ DisconnectCall
  BY <1>2 DEF ConnectFails, Connect, DisconnectCall, brokerVars, history
<1>3. ASSUME NEW t \in Threads, Publish(t) PROVE TypeFlags'
  BY <1>1, <1>3 DEF Publish, PublishBadArgument, PublishNotConnected,
        ValueChecked, StatusChecked, Begins, ValueSend, StatusSend,
        StatusReturn, brokerVars, history
<1>4. CASE Disconnect
  BY <1>4 DEF Disconnect, DisconnectUnsubscribe, DisconnectCheck,
        DisconnectOff, DisconnectRequest, DisconnectJoin, brokerVars, history
<1>5. CASE Network
  BY <1>5 DEF Network, NetReconnect, NetConnack, NetSubscribe, NetOn,
        NetConnectedCallback, NetRefused, NetLost, NetClose, SocketClosed,
        NetDisconnectedCallback, NetExit, NetMessage, brokerVars, history
<1>6. CASE Broker \/ BrokerRefuse \/ Drop \/ BrokerRequest
  BY <1>6 DEF Broker, BrokerAccept, BrokerReceive, BrokerDisconnect,
        BrokerExpire, BrokerRefuse, Drop, BrokerRequest, SessionEnds,
        brokerVars, history
<1>7. CASE UNCHANGED vars
  BY <1>7 DEF vars, brokerVars, history
<1> QED
  BY <1>2, <1>3, <1>4, <1>5, <1>6, <1>7 DEF Next

(* Every other variable keeps its type in every step. *)
LEMMA DataStep == TypeData /\ [Next]_vars => TypeData'
<1> SUFFICES ASSUME TypeData, [Next]_vars PROVE TypeData'
  OBVIOUS
<1> USE ThreadsAssumption, BoundsAssumption DEF TypeData, appVars, brokerVars
<1>1. \A p \in Packets : Sent(p) \in Seq(Packets)
  BY SentType
<1>2. CASE ConnectFails \/ Connect
  <2>1. CASE ConnectFails
    BY <2>1 DEF ConnectFails
  <2>2. CASE Connect
    BY <2>2 DEF Connect
  <2> QED
    BY <1>2, <2>1, <2>2
<1>3. ASSUME NEW t \in Threads, Publish(t) PROVE TypeData'
  <2>1. CASE PublishBadArgument(t)
    BY <2>1 DEF PublishBadArgument, Begins
  <2>2. CASE PublishNotConnected(t)
    BY <2>2 DEF PublishNotConnected, Begins
  <2>3. CASE ValueChecked(t)
    BY <2>3 DEF ValueChecked, Begins, Sending
  <2>4. CASE ValueSend(t)
    BY <2>4, <1>1 DEF ValueSend, Packets, history
  <2>5. CASE StatusChecked(t)
    BY <2>5 DEF StatusChecked, Begins, Sending
  <2>6. CASE StatusSend(t)
    BY <2>6, <1>1 DEF StatusSend, Packets, history
  <2>7. CASE StatusReturn(t)
    BY <2>7 DEF StatusReturn, history
  <2> QED
    BY <1>3, <2>1, <2>2, <2>3, <2>4, <2>5, <2>6, <2>7 DEF Publish
<1>4. CASE DisconnectCall \/ Disconnect
  <2>1. CASE DisconnectCall
    BY <2>1 DEF DisconnectCall, Goto, Ending, history
  <2>2. CASE DisconnectUnsubscribe
    BY <2>2, <1>1 DEF DisconnectUnsubscribe, Goto, Ending, Packets, history
  <2>3. CASE DisconnectCheck
    BY <2>3 DEF DisconnectCheck, Goto, Ending, history
  <2>4. CASE DisconnectOff
    BY <2>4, <1>1 DEF DisconnectOff, Goto, Ending, Packets, history
  <2>5. CASE DisconnectRequest
    BY <2>5, <1>1 DEF DisconnectRequest, Goto, Ending, Packets, history
  <2>6. CASE DisconnectJoin
    BY <2>6 DEF DisconnectJoin, Goto, history
  <2> QED
    BY <1>4, <2>1, <2>2, <2>3, <2>4, <2>5, <2>6 DEF Disconnect
<1>5. CASE Network
  <2>1. CASE NetReconnect
    BY <2>1 DEF NetReconnect, history
  <2>2. CASE NetConnack
    BY <2>2 DEF NetConnack, States, InConnectedCallback, history
  <2>3. CASE NetSubscribe
    BY <2>3, <1>1 DEF NetSubscribe, Packets, InConnectedCallback, history
  <2>4. CASE NetOn
    BY <2>4, <1>1 DEF NetOn, Packets, InConnectedCallback
  <2>5. CASE NetConnectedCallback
    BY <2>5 DEF NetConnectedCallback, history
  <2>6. CASE NetRefused
    BY <2>6 DEF NetRefused, history
  <2>7. CASE NetLost
    BY <2>7 DEF NetLost, SocketClosed, States, history
  <2>8. CASE NetClose
    BY <2>8 DEF NetClose, SocketClosed, States, history
  <2>9. CASE NetDisconnectedCallback
    BY <2>9 DEF NetDisconnectedCallback, history
  <2>10. CASE NetExit
    BY <2>10 DEF NetExit, history
  <2>11. CASE NetMessage
    BY <2>11, <1>1 DEF NetMessage, Packets, history
  <2> QED
    BY <1>5, <2>1, <2>2, <2>3, <2>4, <2>5, <2>6, <2>7, <2>8, <2>9, <2>10, <2>11
       DEF Network
<1>6. CASE Broker \/ BrokerRefuse \/ Drop \/ BrokerRequest
  <2>1. CASE BrokerAccept
    BY <2>1 DEF BrokerAccept, history
  <2>2. CASE BrokerReceive
    <3>1. wire' \in Seq(Packets)
      BY <2>2 DEF BrokerReceive
    <3>2. status' \in {"none", "on", "off", "err"}
      BY <2>2 DEF BrokerReceive
    <3>3. answered' \in Nat
      BY <2>2 DEF BrokerReceive
    <3>4. UNCHANGED <<state, net, link, pc, left, lost, ret, told, sess,
                      inbox, connects, calls, faults, requests>>
      BY <2>2 DEF BrokerReceive
    <3> HIDE <2>2
    <3> QED
      BY <3>1, <3>2, <3>3, <3>4
  <2>3. CASE BrokerDisconnect
    BY <2>3 DEF BrokerDisconnect, SessionEnds
  <2>4. CASE BrokerExpire
    BY <2>4 DEF BrokerExpire, history
  <2>5. CASE BrokerRefuse
    BY <2>5 DEF BrokerRefuse
  <2>6. CASE Drop
    BY <2>6 DEF Drop, SessionEnds
  <2>7. CASE BrokerRequest
    BY <2>7 DEF BrokerRequest
  <2> QED
    BY <1>6, <2>1, <2>2, <2>3, <2>4, <2>5, <2>6, <2>7 DEF Broker
<1>7. CASE UNCHANGED vars
  BY <1>7 DEF vars, history
<1> QED
  BY <1>2, <1>3, <1>4, <1>5, <1>6, <1>7 DEF Next

(* Type correctness: every reachable state has the declared types. *)
THEOREM TypeCorrect == Spec => []TypeOK
<1>1. Init => TypeFlags /\ TypeData
  <2>1. Init => TypeFlags
    BY DEF Init, TypeFlags
  <2>2. Init => TypeData
    BY BoundsAssumption DEF Init, TypeData, States
  <2> QED
    BY <2>1, <2>2
<1> QED
  BY <1>1, DataStep, FlagsStep, TypeParts, PTL DEF Spec

-----------------------------------------------------------------------------
(* Only the network thread touches what LinkInv speaks of, except that     *)
(* mqtt_connect starts it.                                                 *)
LEMMA LinkStep == LinkInv /\ [Next]_vars => LinkInv'
<1> SUFFICES ASSUME LinkInv, [Next]_vars PROVE LinkInv'
  OBVIOUS
<1> USE DEF LinkInv, StateTracksLink, CallbackTracksLink, InCallback,
            InConnectedCallback, Events!News
<1>1. CASE Network
  <2>1. CASE NetReconnect
    BY <2>1 DEF NetReconnect
  <2>2. CASE NetConnack \/ NetSubscribe \/ NetOn \/ NetConnectedCallback
    BY <2>2 DEF NetConnack, NetSubscribe, NetOn, NetConnectedCallback
  <2>3. CASE NetRefused
    BY <2>3 DEF NetRefused
  <2>4. CASE NetLost \/ NetClose
    BY <2>4 DEF NetLost, NetClose, SocketClosed
  <2>5. CASE NetDisconnectedCallback
    BY <2>5 DEF NetDisconnectedCallback
  <2>6. CASE NetExit \/ NetMessage
    BY <2>6 DEF NetExit, NetMessage
  <2> QED
    BY <1>1, <2>1, <2>2, <2>3, <2>4, <2>5, <2>6 DEF Network
<1>2. CASE Connect
  BY <1>2 DEF Connect
<1>3. ASSUME UNCHANGED <<net, state, link, told>> PROVE LinkInv'
  BY <1>3
<1>4. ASSUME NEW t \in Threads, Publish(t) PROVE LinkInv'
  BY <1>3, <1>4 DEF Publish, PublishBadArgument, PublishNotConnected,
        ValueChecked, StatusChecked, Begins, ValueSend, StatusSend,
        StatusReturn
<1>5. CASE ConnectFails \/ DisconnectCall \/ Disconnect
  BY <1>3, <1>5 DEF ConnectFails, DisconnectCall, Disconnect,
        DisconnectUnsubscribe, DisconnectCheck, DisconnectOff,
        DisconnectRequest, DisconnectJoin
<1>6. CASE Broker \/ BrokerRefuse \/ Drop \/ BrokerRequest
  BY <1>3, <1>6 DEF Broker, BrokerAccept, BrokerReceive, BrokerDisconnect,
        BrokerExpire, BrokerRefuse, Drop, BrokerRequest
<1>7. CASE UNCHANGED vars
  BY <1>3, <1>7 DEF vars
<1> QED
  BY <1>1, <1>2, <1>4, <1>5, <1>6, <1>7 DEF Next

LEMMA LinkInvariant == Spec => []LinkInv
<1>1. Init => LinkInv
  BY DEF Init, LinkInv, StateTracksLink, CallbackTracksLink, InCallback,
         InConnectedCallback, Events!News
<1> QED
  BY <1>1, LinkStep, PTL DEF Spec

(* For any number of threads and faults, t->state is CONNECTED exactly     *)
(* while the connection is up, and never after the network thread ended.   *)
THEOREM StateIsLink == Spec => []StateTracksLink
<1>1. LinkInv => StateTracksLink
  BY DEF LinkInv
<1> QED
  BY <1>1, LinkInvariant, PTL

(* And the application has been told so: nobody is left believing in a     *)
(* connection that ended.                                                  *)
THEOREM CallbackIsLink == Spec => []CallbackTracksLink
<1>1. LinkInv => CallbackTracksLink
  BY DEF LinkInv
<1> QED
  BY <1>1, LinkInvariant, PTL
(* The client implements ConnectionEvents: every step of any thread is a   *)
(* step of the abstract specification or changes nothing of it.            *)
THEOREM Implements == Spec => ImplementsEvents
<1> USE DEF Events!events, Events!News, Events!Between
<1>1. Init => Events!Init
  BY DEF Init, Events!Init
<1>2. LinkInv /\ [Next]_vars => [Events!Next]_(Events!events)
  <2> SUFFICES ASSUME LinkInv, [Next]_vars
               PROVE  [Events!Next]_(Events!events)
    OBVIOUS
  <2> USE DEF LinkInv, StateTracksLink, CallbackTracksLink, InCallback,
              InConnectedCallback
  <2>1. ASSUME UNCHANGED <<net, told>> PROVE UNCHANGED Events!events
    BY <2>1
  <2>2. CASE Connect
    BY <2>2 DEF Connect, Events!Next, Events!Start
  <2>3. CASE NetConnectedCallback
    BY <2>3 DEF NetConnectedCallback, Events!Next, Events!TellConnected
  <2>4. CASE NetRefused
    BY <2>4 DEF NetRefused, Events!Next, Events!TellRefused
  <2>5. CASE NetDisconnectedCallback
    BY <2>5 DEF NetDisconnectedCallback, Events!Next,
                Events!TellDisconnected
  <2>6. CASE NetExit
    BY <2>6 DEF NetExit, Events!Next, Events!Stop
  <2>7. CASE NetReconnect \/ NetConnack \/ NetSubscribe \/ NetOn \/ NetLost
                \/ NetClose \/ NetMessage
    BY <2>7 DEF NetReconnect, NetConnack, NetSubscribe, NetOn, NetLost,
                NetClose, NetMessage, SocketClosed
  <2>8. ASSUME NEW t \in Threads, Publish(t)
        PROVE  [Events!Next]_(Events!events)
    BY <2>1, <2>8 DEF Publish, PublishBadArgument, PublishNotConnected,
          ValueChecked, StatusChecked, Begins, ValueSend, StatusSend,
          StatusReturn
  <2>9. CASE ConnectFails \/ DisconnectCall \/ Disconnect
    BY <2>1, <2>9 DEF ConnectFails, DisconnectCall, Disconnect,
          DisconnectUnsubscribe, DisconnectCheck, DisconnectOff,
          DisconnectRequest, DisconnectJoin
  <2>10. CASE Broker \/ BrokerRefuse \/ Drop \/ BrokerRequest
    BY <2>1, <2>10 DEF Broker, BrokerAccept, BrokerReceive,
          BrokerDisconnect, BrokerExpire, BrokerRefuse, Drop, BrokerRequest
  <2>11. CASE UNCHANGED vars
    BY <2>1, <2>11 DEF vars
  <2> QED
    BY <2>2, <2>3, <2>4, <2>5, <2>6, <2>7, <2>8, <2>9, <2>10, <2>11
       DEF Next, Network
<1> QED
  BY <1>1, <1>2, LinkInvariant, PTL DEF Spec, ImplementsEvents, Events!Spec

-----------------------------------------------------------------------------
(* A value that mosquitto_publish does not take is reported by the call    *)
(* that sent it; no other call begins or ends with a loss on its record.   *)
LossInv ==
    ValueFailureReported
    /\ \A t \in Threads : pc[t] # "idle" => lost[t] = "none"

(* What mqtt_value_publish and mqtt_status_publish do: packets that say    *)
(* nothing about the connection, and no step of mqtt_disconnect.           *)
LEMMA PublishStep ==
    ASSUME TypeOK, NEW t \in Threads, Publish(t)
    PROVE  /\ wire' \in {wire, Sent("value"), Sent("status")}
           /\ UNCHANGED <<state, net, link, stopping, told, brokerVars>>
           /\ raced' = raced
           /\ \A at \in Ending : pc'[Main] = at <=> pc[Main] = at
<1> USE ThreadsAssumption DEF TypeOK, Sending, Ending, brokerVars, history
<1>1. CASE PublishBadArgument(t) \/ PublishNotConnected(t)
  BY <1>1 DEF PublishBadArgument, PublishNotConnected, Begins
<1>2. CASE ValueChecked(t) \/ StatusChecked(t)
  BY <1>2 DEF ValueChecked, StatusChecked, Begins
<1>3. CASE ValueSend(t)
  BY <1>3 DEF ValueSend
<1>4. CASE StatusSend(t) \/ StatusReturn(t)
  BY <1>4 DEF StatusSend, StatusReturn
<1> QED
  BY <1>1, <1>2, <1>3, <1>4 DEF Publish

(* The steps of the threads that do not publish leave these alone. *)
LEMMA OthersKeepCalls ==
    Network \/ Broker \/ BrokerRefuse \/ Drop \/ BrokerRequest
        => UNCHANGED appVars
BY DEF Network, NetReconnect, NetConnack, NetSubscribe, NetOn,
   NetConnectedCallback, NetRefused, NetLost, NetClose, SocketClosed,
   NetDisconnectedCallback, NetExit, NetMessage, Broker, BrokerAccept,
   BrokerReceive, BrokerDisconnect, BrokerExpire, BrokerRefuse, Drop,
   BrokerRequest

LEMMA LossStep == TypeOK /\ LossInv /\ [Next]_vars => LossInv'
<1> SUFFICES ASSUME TypeOK, LossInv, [Next]_vars PROVE LossInv'
  OBVIOUS
<1> USE ThreadsAssumption DEF LossInv, ValueFailureReported, TypeOK
<1>1. CASE ConnectFails \/ Connect
  <2>1. lost' = [lost EXCEPT ![Main] = "none"] /\ pc' = pc
    BY <1>1 DEF ConnectFails, Connect
  <2>2. PICK r : ret' = [ret EXCEPT ![Main] = r]
    BY <1>1 DEF ConnectFails, Connect
  <2> QED
    BY <2>1, <2>2
<1>2. CASE DisconnectCall
  BY <1>2 DEF DisconnectCall, Goto
<1>3. CASE Disconnect
  BY <1>3 DEF Disconnect, DisconnectUnsubscribe, DisconnectCheck,
     DisconnectOff, DisconnectRequest, DisconnectJoin, Goto
<1>4. ASSUME NEW t \in Threads, Publish(t) PROVE LossInv'
  <2>1. CASE PublishBadArgument(t) \/ PublishNotConnected(t)
    BY <2>1 DEF PublishBadArgument, PublishNotConnected, Begins
  <2>2. CASE ValueChecked(t) \/ StatusChecked(t)
    <3>1. lost' = [lost EXCEPT ![t] = "none"] /\ ret' = ret
      BY <2>2 DEF ValueChecked, StatusChecked, Begins
    <3>2. PICK at : pc' = [pc EXCEPT ![t] = at]
      BY <2>2 DEF ValueChecked, StatusChecked
    <3> QED
      BY <3>1, <3>2
  <2>3. CASE ValueSend(t)
    BY <2>3 DEF ValueSend
  <2>4. CASE StatusSend(t) \/ StatusReturn(t)
    BY <2>4 DEF StatusSend, StatusReturn
  <2> QED
    BY <1>4, <2>1, <2>2, <2>3, <2>4 DEF Publish
<1>5. ASSUME UNCHANGED appVars PROVE LossInv'
  BY <1>5 DEF appVars
<1>6. CASE UNCHANGED vars
  BY <1>5, <1>6 DEF vars
<1> QED
  BY <1>1, <1>2, <1>3, <1>4, <1>5, <1>6, OthersKeepCalls DEF Next

(* mqtt_value_publish reports every value the library did not take, for    *)
(* any number of threads that call it while the connection comes and goes  *)
(* (mqtt.c:280-305).                                                       *)
THEOREM LossesReported == Spec => []ValueFailureReported
<1>1. Init => LossInv
  BY DEF Init, LossInv, ValueFailureReported
<1>2. LossInv => ValueFailureReported
  BY DEF LossInv
<1> QED
  BY <1>1, <1>2, LossStep, TypeCorrect, PTL DEF Spec

-----------------------------------------------------------------------------
(* Sequences of packets: what is in one, and in which order.               *)

Carries(w, p) == \E i \in 1 .. Len(w) : w[i] = p

(* Every q in w has a p before it. *)
Guarded(w, p, q) ==
    \A k \in 1 .. Len(w) :
        w[k] = q => \E i \in 1 .. Len(w) : i < k /\ w[i] = p

(* No q in w comes after a p. *)
NoneAfter(w, p, q) ==
    \A i, k \in 1 .. Len(w) : w[i] = p /\ w[k] = q => k <= i

LEMMA CarriesAppend ==
    ASSUME NEW w \in Seq(Packets), NEW x \in Packets, NEW p \in Packets
    PROVE  Carries(Append(w, x), p) <=> Carries(w, p) \/ p = x
<1>1. /\ Len(Append(w, x)) = Len(w) + 1 /\ Append(w, x)[Len(w) + 1] = x
      /\ \A i \in 1 .. Len(w) : Append(w, x)[i] = w[i]
  OBVIOUS
<1> QED
  BY <1>1 DEF Carries

LEMMA CarriesTail ==
    ASSUME NEW w \in Seq(Packets), w # <<>>, NEW p \in Packets
    PROVE  Carries(w, p) <=> Carries(Tail(w), p) \/ Head(w) = p
<1>1. /\ Len(Tail(w)) = Len(w) - 1 /\ Head(w) = w[1] /\ Len(w) \in Nat \ {0}
      /\ \A i \in 1 .. Len(w) - 1 : Tail(w)[i] = w[i + 1]
  OBVIOUS
<1>2. Carries(w, p) => Carries(Tail(w), p) \/ Head(w) = p
  <2> SUFFICES ASSUME NEW i \in 1 .. Len(w), w[i] = p
               PROVE  Carries(Tail(w), p) \/ Head(w) = p
    BY DEF Carries
  <2>1. CASE i = 1
    BY <1>1, <2>1
  <2>2. CASE i # 1
    <3>1. i - 1 \in 1 .. Len(w) - 1 /\ Tail(w)[i - 1] = p
      BY <1>1, <2>2
    <3> QED
      BY <1>1, <3>1 DEF Carries
  <2> QED
    BY <2>1, <2>2
<1>3. Carries(Tail(w), p) \/ Head(w) = p => Carries(w, p)
  BY <1>1 DEF Carries
<1> QED
  BY <1>2, <1>3

LEMMA GuardedAppend ==
    ASSUME NEW w \in Seq(Packets), NEW x \in Packets,
           NEW p, NEW q, Guarded(w, p, q), x = q => Carries(w, p)
    PROVE  Guarded(Append(w, x), p, q)
<1>1. /\ Len(Append(w, x)) = Len(w) + 1 /\ Append(w, x)[Len(w) + 1] = x
      /\ \A i \in 1 .. Len(w) : Append(w, x)[i] = w[i]
      /\ Len(w) \in Nat
  OBVIOUS
<1> QED
  BY <1>1 DEF Carries, Guarded

(* The first packet of a guarded sequence is not what is guarded, and      *)
(* taking away another than the guard leaves the rest guarded.             *)
LEMMA GuardedTail ==
    ASSUME NEW w \in Seq(Packets), w # <<>>, NEW p, NEW q, Guarded(w, p, q)
    PROVE  /\ Head(w) # q
           /\ Head(w) # p => Guarded(Tail(w), p, q)
<1>1. /\ Len(Tail(w)) = Len(w) - 1 /\ Head(w) = w[1] /\ Len(w) \in Nat \ {0}
      /\ \A i \in 1 .. Len(w) - 1 : Tail(w)[i] = w[i + 1]
  OBVIOUS
<1>2. Head(w) # q
  BY <1>1 DEF Guarded
<1>3. ASSUME Head(w) # p, NEW k \in 1 .. Len(w) - 1, w[k + 1] = q
      PROVE  \E i \in 1 .. Len(w) - 1 : i < k /\ w[i + 1] = p
  <2>1. PICK j \in 1 .. Len(w) : j < k + 1 /\ w[j] = p
    BY <1>1, <1>3 DEF Guarded
  <2>2. j # 1
    BY <1>1, <1>3, <2>1
  <2>3. j - 1 \in 1 .. Len(w) - 1 /\ j - 1 < k /\ w[(j - 1) + 1] = p
    BY <1>1, <2>1, <2>2
  <2> QED
    BY <2>3
<1> QED
  BY <1>1, <1>2, <1>3 DEF Guarded

LEMMA NotCarried ==
    ASSUME NEW w, NEW p, NEW q, ~Carries(w, q)
    PROVE  Guarded(w, p, q) /\ NoneAfter(w, p, q)
BY DEF Carries, Guarded, NoneAfter

LEMMA NoneAfterAppend ==
    ASSUME NEW w \in Seq(Packets), NEW x \in Packets, NEW p, NEW q,
           NoneAfter(w, p, q), x = q => ~Carries(w, p)
    PROVE  NoneAfter(Append(w, x), p, q)
<1>1. /\ Len(Append(w, x)) = Len(w) + 1 /\ Append(w, x)[Len(w) + 1] = x
      /\ \A i \in 1 .. Len(w) : Append(w, x)[i] = w[i]
      /\ Len(w) \in Nat
  OBVIOUS
<1> QED
  BY <1>1 DEF Carries, NoneAfter

LEMMA NoneAfterTail ==
    ASSUME NEW w \in Seq(Packets), w # <<>>, NEW p, NEW q,
           NoneAfter(w, p, q)
    PROVE  /\ NoneAfter(Tail(w), p, q)
           /\ Head(w) = p => ~Carries(Tail(w), q)
<1>1. /\ Len(Tail(w)) = Len(w) - 1 /\ Head(w) = w[1] /\ Len(w) \in Nat \ {0}
      /\ \A i \in 1 .. Len(w) - 1 : Tail(w)[i] = w[i + 1]
  OBVIOUS
<1>2. NoneAfter(Tail(w), p, q)
  <2> SUFFICES ASSUME NEW i \in 1 .. Len(w) - 1, NEW k \in 1 .. Len(w) - 1,
                      w[i + 1] = p, w[k + 1] = q
               PROVE  k <= i
    BY <1>1 DEF NoneAfter
  <2>1. k + 1 <= i + 1
    BY <1>1 DEF NoneAfter
  <2> QED
    BY <2>1
<1>3. ASSUME Head(w) = p, NEW k \in 1 .. Len(w) - 1, w[k + 1] = q
      PROVE  FALSE
  <2>1. k + 1 <= 1
    BY <1>1, <1>3 DEF NoneAfter
  <2> QED
    BY <2>1
<1> QED
  BY <1>1, <1>2, <1>3 DEF Carries

LEMMA EmptyWire ==
    \A p, q : /\ ~Carries(<<>>, p)
              /\ Guarded(<<>>, p, q) /\ NoneAfter(<<>>, p, q)
BY DEF Carries, Guarded, NoneAfter

-----------------------------------------------------------------------------
(* The end of a connection, and of a session.                              *)
SessionInv ==
    /\ stopping => pc[Main] = "d_join" \/ net = "off"
    /\ ~Reachable => wire = <<>>
    /\ sess # "open" => ~subscribed
    /\ sess = "asked" => link = "handshake"
    /\ sess = "expired" => status = "err"

(* On a connection nobody is ending, nothing on the wire ends anything,    *)
(* and after the first steps of _cb_connected the broker holds what it     *)
(* sends or has it on the way.                                             *)
OnlineInv ==
    HasSocket /\ Reachable /\ ~Disconnecting =>
        /\ \A p \in {"unsub", "off", "disconnect"} : ~Carries(wire, p)
        /\ link = "up" /\ net # "c_sub"
              => subscribed \/ Carries(wire, "sub")
        /\ link = "up" /\ net \notin {"c_sub", "c_on"}
              => status = "on" \/ Carries(wire, "on")

(* The gateway is not on, and nothing on the way makes it so. *)
NotOn == status # "on" /\ ~Carries(wire, "on")

(* As long as _cb_connected did not run into mqtt_disconnect: a session    *)
(* begins and ends with a gateway that is not on, "off" is the last word   *)
(* on the status and comes before DISCONNECT, and "on" comes after the     *)
(* subscription.                                                           *)
OrderInv ==
    /\ sess \in {"closed", "asked", "refused"} => status # "on"
    /\ Reachable /\ (link = "handshake" \/ net \in {"c_sub", "c_on"})
          => NotOn
    /\ NoneAfter(wire, "off", "on")
    /\ NotOn \/ Guarded(wire, "off", "disconnect")
    /\ pc[Main] = "d_req" /\ HasSocket /\ Reachable
          => NotOn \/ Carries(wire, "off")
    /\ sess = "open" /\ HasSocket /\ ~Disconnecting
          => subscribed \/ (status # "on" /\ Guarded(wire, "sub", "on"))

WireInv == SessionInv /\ OnlineInv /\ (raced \/ OrderInv)

(* A packet handed to the library is on the wire, last, if there is a      *)
(* connection to carry it; and nothing else changes there.                 *)
LEMMA SentCarries ==
    ASSUME TypeOK, NEW x \in Packets
    PROVE  /\ \A p \in Packets :
                 Carries(Sent(x), p)
                    <=> Carries(wire, p) \/ (p = x /\ HasSocket /\ Reachable)
           /\ \A p, q : Guarded(wire, p, q) /\ (x = q => Carries(wire, p))
                 => Guarded(Sent(x), p, q)
           /\ \A p, q : NoneAfter(wire, p, q) /\ (x = q => ~Carries(wire, p))
                 => NoneAfter(Sent(x), p, q)
<1>1. wire \in Seq(Packets)
  BY DEF TypeOK
<1>2. CASE HasSocket /\ Reachable
  <2>1. Sent(x) = Append(wire, x)
    BY <1>2 DEF Sent
  <2> QED
    BY <1>1, <1>2, <2>1, CarriesAppend, GuardedAppend, NoneAfterAppend
<1>3. CASE ~(HasSocket /\ Reachable)
  BY <1>3 DEF Sent
<1> QED
  BY <1>2, <1>3

(* What one packet read by the broker leaves behind. *)
LEMMA ReceiveCarries ==
    ASSUME TypeOK, BrokerReceive
    PROVE  /\ Head(wire) \in Packets \ {"disconnect"}
           /\ \A p \in Packets :
                 Carries(wire, p) <=> Carries(wire', p) \/ Head(wire) = p
           /\ \A p, q : Guarded(wire, p, q)
                 => Head(wire) # q
                    /\ (Head(wire) # p => Guarded(wire', p, q))
           /\ \A p, q : NoneAfter(wire, p, q)
                 => NoneAfter(wire', p, q)
                    /\ (Head(wire) = p => ~Carries(wire', q))
<1>1. wire \in Seq(Packets) /\ wire # <<>> /\ wire' = Tail(wire)
         /\ Head(wire) # "disconnect"
  BY DEF TypeOK, BrokerReceive
<1> QED
  BY <1>1, CarriesTail, GuardedTail, NoneAfterTail

-----------------------------------------------------------------------------
LEMMA SessionStep ==
    TypeOK /\ LinkInv /\ SessionInv /\ [Next]_vars => SessionInv'
<1> SUFFICES ASSUME TypeOK, LinkInv, SessionInv, [Next]_vars
             PROVE  SessionInv'
  OBVIOUS
<1> USE ThreadsAssumption
    DEF SessionInv, Reachable, Sent, HasSocket, brokerVars, history
<1>p. Main \in DOMAIN pc
  BY DEF TypeOK
<1>1. CASE ConnectFails \/ Connect
  BY <1>1 DEF ConnectFails, Connect
<1>2. ASSUME NEW t \in Threads, Publish(t) PROVE SessionInv'
  BY <1>2, PublishStep DEF Ending
<1>3. CASE DisconnectCall \/ Disconnect
  BY <1>3, <1>p DEF DisconnectCall, Disconnect, DisconnectUnsubscribe,
     DisconnectCheck, DisconnectOff, DisconnectRequest, DisconnectJoin, Goto
<1>4. CASE Network
  BY <1>4 DEF Network, NetReconnect, NetConnack, NetSubscribe, NetOn,
     NetConnectedCallback, NetRefused, NetLost, NetClose, SocketClosed,
     NetDisconnectedCallback, NetExit, NetMessage, appVars, LinkInv,
     InCallback, InConnectedCallback
<1>5. CASE BrokerReceive
  <2>1. UNCHANGED <<stopping, net, pc, link, sess>> /\ sess = "open"
    BY <1>5 DEF BrokerReceive, appVars
  <2> QED
    BY <2>1
<1>6. CASE BrokerAccept \/ BrokerExpire \/ BrokerRequest
  BY <1>6 DEF BrokerAccept, BrokerExpire, BrokerRequest, appVars
<1>7. CASE BrokerDisconnect \/ BrokerRefuse \/ Drop
  BY <1>7 DEF BrokerDisconnect, BrokerRefuse, Drop, SessionEnds, appVars
<1>8. CASE UNCHANGED vars
  BY <1>8 DEF vars, appVars
<1> QED
  BY <1>1, <1>2, <1>3, <1>4, <1>5, <1>6, <1>7, <1>8 DEF Next, Broker

(* Once mosquitto_disconnect was called there is a socket only while       *)
(* mqtt_disconnect waits for the network thread.                           *)
LEMMA Ended ==
    ASSUME LinkInv, SessionInv, HasSocket
    PROVE  Disconnecting <=> pc[Main] \in Ending
BY DEF LinkInv, StateTracksLink, SessionInv, HasSocket, Disconnecting, Ending

LEMMA OnlineStep ==
    TypeOK /\ LinkInv /\ SessionInv /\ OnlineInv /\ [Next]_vars => OnlineInv'
<1> SUFFICES ASSUME TypeOK, LinkInv, SessionInv, OnlineInv, [Next]_vars,
                    (HasSocket /\ Reachable /\ ~Disconnecting)'
             PROVE  OnlineInv'
  BY DEF OnlineInv
<1> USE DEF OnlineInv, Disconnecting, Reachable, HasSocket, brokerVars,
            history, Packets
<1>s. \A x, p \in Packets :
         Carries(Sent(x), p)
            <=> Carries(wire, p) \/ (p = x /\ HasSocket /\ Reachable)
  BY SentCarries
<1>1. CASE ConnectFails \/ Connect
  BY <1>1 DEF ConnectFails, Connect, LinkInv, StateTracksLink
<1>2. ASSUME NEW t \in Threads, Publish(t) PROVE OnlineInv'
  BY <1>2, <1>s, PublishStep
<1>3. CASE DisconnectCall \/ Disconnect
  <2>1. link = "up" \/ link = "handshake"
    BY <1>3 DEF DisconnectCall, Disconnect, DisconnectUnsubscribe,
       DisconnectCheck, DisconnectOff, DisconnectRequest, DisconnectJoin,
       TypeOK
  <2> QED
    BY <1>3, <2>1, ThreadsAssumption
       DEF DisconnectCall, Disconnect, DisconnectUnsubscribe,
       DisconnectCheck, DisconnectOff, DisconnectRequest, DisconnectJoin,
       Goto, Ending, LinkInv, StateTracksLink, TypeOK
<1>4. CASE Network
  <2>1. CASE NetReconnect
    BY <2>1, EmptyWire DEF NetReconnect, SessionInv
  <2>2. CASE NetConnack
    BY <2>2 DEF NetConnack, appVars
  <2>3. CASE NetSubscribe \/ NetOn
    BY <2>3, <1>s DEF NetSubscribe, NetOn, appVars, LinkInv, InCallback,
       InConnectedCallback
  <2>4. CASE NetConnectedCallback \/ NetRefused \/ NetDisconnectedCallback
             \/ NetExit
    BY <2>4 DEF NetConnectedCallback, NetRefused, NetDisconnectedCallback,
       NetExit, appVars, LinkInv, InCallback, InConnectedCallback
  <2>5. CASE NetLost \/ NetClose
    BY <2>5 DEF NetLost, NetClose, SocketClosed
  <2>6. CASE NetMessage
    BY <2>6, <1>s DEF NetMessage, appVars
  <2> QED
    BY <1>4, <2>1, <2>2, <2>3, <2>4, <2>5, <2>6 DEF Network
<1>5. CASE BrokerReceive
  BY <1>5, ReceiveCarries DEF BrokerReceive, appVars
<1>6. CASE BrokerAccept \/ BrokerDisconnect \/ BrokerExpire \/ BrokerRefuse
           \/ Drop \/ BrokerRequest
  BY <1>6 DEF BrokerAccept, BrokerDisconnect, BrokerExpire, BrokerRefuse,
     Drop, BrokerRequest, SessionEnds, appVars, SessionInv
<1>7. CASE UNCHANGED vars
  BY <1>7 DEF vars, appVars
<1> QED
  BY <1>1, <1>2, <1>3, <1>4, <1>5, <1>6, <1>7 DEF Next, Broker

(* The steps of mqtt_disconnect against the order of the packets. *)
LEMMA OrderMainStep ==
    ASSUME TypeOK, LinkInv, SessionInv, OnlineInv, OrderInv,
           DisconnectCall \/ Disconnect
    PROVE  OrderInv'
<1> USE ThreadsAssumption
    DEF OrderInv, NotOn, Disconnecting, Reachable, HasSocket, Ending,
        Packets, Goto, TypeOK
<1>s. \A x \in Packets :
        /\ \A p \in Packets :
              Carries(Sent(x), p)
                 <=> Carries(wire, p) \/ (p = x /\ HasSocket /\ Reachable)
        /\ \A p, q : Guarded(wire, p, q) /\ (x = q => Carries(wire, p))
              => Guarded(Sent(x), p, q)
        /\ \A p, q : NoneAfter(wire, p, q) /\ (x = q => ~Carries(wire, p))
              => NoneAfter(Sent(x), p, q)
  BY SentCarries
<1>1. CASE DisconnectCall \/ DisconnectJoin
  BY <1>1 DEF DisconnectCall, DisconnectJoin, brokerVars, LinkInv,
     StateTracksLink
<1>2. CASE DisconnectUnsubscribe
  BY <1>2, <1>s DEF DisconnectUnsubscribe, brokerVars
<1>3. CASE DisconnectCheck
  BY <1>3 DEF DisconnectCheck, brokerVars, LinkInv, StateTracksLink,
     InCallback, InConnectedCallback
<1>4. CASE DisconnectOff
  BY <1>4, <1>s DEF DisconnectOff, brokerVars
<1>5. CASE DisconnectRequest
  <2>1. /\ wire' = Sent("disconnect") /\ pc[Main] = "d_req"
        /\ pc'[Main] = "d_join" /\ stopping'
        /\ UNCHANGED <<net, link, sess, status>>
    BY <1>5 DEF DisconnectRequest, brokerVars
  <2>2. CASE HasSocket /\ Reachable
    BY <1>s, <2>1, <2>2
  <2>3. CASE ~(HasSocket /\ Reachable)
    <3>1. wire' = wire
      BY <2>1, <2>3 DEF Sent
    <3> QED
      BY <2>1, <3>1
  <2> QED
    BY <2>2, <2>3
<1> QED
  BY <1>1, <1>2, <1>3, <1>4, <1>5 DEF Disconnect

(* The steps of the network thread: "on" is sent after the subscription,   *)
(* and never after "off" or DISCONNECT while raced is FALSE.               *)
LEMMA OrderNetStep ==
    ASSUME TypeOK, LinkInv, SessionInv, OnlineInv, OrderInv,
           Network, ~raced'
    PROVE  OrderInv'
<1> USE DEF OrderInv, NotOn, Disconnecting, Reachable, HasSocket, Packets,
        appVars, brokerVars, LinkInv, StateTracksLink, InCallback,
        InConnectedCallback
<1>s. \A x \in Packets :
        /\ \A p \in Packets :
              Carries(Sent(x), p)
                 <=> Carries(wire, p) \/ (p = x /\ HasSocket /\ Reachable)
        /\ \A p, q : Guarded(wire, p, q) /\ (x = q => Carries(wire, p))
              => Guarded(Sent(x), p, q)
        /\ \A p, q : NoneAfter(wire, p, q) /\ (x = q => ~Carries(wire, p))
              => NoneAfter(Sent(x), p, q)
  BY SentCarries
<1>1. CASE NetReconnect
  BY <1>1, EmptyWire DEF NetReconnect, SessionInv
<1>2. CASE NetConnack
  BY <1>2 DEF NetConnack
<1>3. CASE NetSubscribe \/ NetMessage
  BY <1>3, <1>s DEF NetSubscribe, NetMessage
<1>4. CASE NetOn
  <2>1. /\ net = "c_on" /\ net' = "c_cb" /\ wire' = Sent("on")
        /\ pc[Main] \notin Ending /\ link = "up"
        /\ UNCHANGED <<pc, link, stopping, brokerVars>>
    BY <1>4 DEF NetOn
  <2>2. ~Disconnecting
    BY <2>1, Ended
  <2>3. CASE Reachable
    <3>1. ~Carries(wire, "off") /\ ~Carries(wire, "disconnect")
             /\ (subscribed \/ Carries(wire, "sub"))
      BY <2>1, <2>2, <2>3 DEF OnlineInv
    <3>2. Guarded(wire, "off", "disconnect") /\ NotOn
      BY <2>1, <2>3, <3>1, NotCarried
    <3>3. Guarded(wire, "sub", "on")
      BY <3>2, NotCarried
    <3> QED
      BY <1>s, <2>1, <2>2, <2>3, <3>1, <3>2, <3>3 DEF Ending
  <2>4. CASE ~Reachable
    BY <2>1, <2>4 DEF Sent
  <2> QED
    BY <2>3, <2>4
<1>5. CASE NetConnectedCallback \/ NetRefused \/ NetDisconnectedCallback
           \/ NetExit
  BY <1>5 DEF NetConnectedCallback, NetRefused, NetDisconnectedCallback,
     NetExit
<1>6. CASE NetLost \/ NetClose
  BY <1>6, EmptyWire DEF NetLost, NetClose, SocketClosed, SessionInv
<1> QED
  BY <1>1, <1>2, <1>3, <1>4, <1>5, <1>6 DEF Network

(* What the broker reads, and the ends of sessions. *)
LEMMA OrderBrokerStep ==
    ASSUME TypeOK, LinkInv, SessionInv, OnlineInv, OrderInv,
           Broker \/ BrokerRefuse \/ Drop \/ BrokerRequest
    PROVE  OrderInv'
<1> USE DEF OrderInv, NotOn, Disconnecting, Reachable, HasSocket, Packets,
        appVars, brokerVars
<1>1. CASE BrokerReceive
  <2>1. /\ UNCHANGED <<pc, net, link, stopping, sess>> /\ sess = "open"
        /\ subscribed' = CASE Head(wire) = "sub"   -> TRUE
                           [] Head(wire) = "unsub" -> FALSE
                           [] OTHER                -> subscribed
        /\ status' = IF Head(wire) \in {"on", "off"}
                     THEN Head(wire) ELSE status
    BY <1>1 DEF BrokerReceive
  <2>2. Head(wire) = "sub" => subscribed'
    BY <2>1
  <2>3. Head(wire) \notin {"sub", "unsub"} => (subscribed' <=> subscribed)
    BY <2>1 DEF TypeOK
  <2>4. Head(wire) = "unsub" => Carries(wire, "unsub")
    BY <1>1, ReceiveCarries
  <2> QED
    BY <1>1, <2>1, <2>2, <2>3, <2>4, ReceiveCarries DEF OnlineInv
<1>2. CASE BrokerDisconnect
  <2>1. wire \in Seq(Packets) /\ wire # <<>> /\ Head(wire) = "disconnect"
    BY <1>2 DEF BrokerDisconnect, TypeOK
  <2>2. status # "on"
    BY <2>1, GuardedTail
  <2> QED
    BY <1>2, <2>2, EmptyWire DEF BrokerDisconnect, SessionEnds
<1>3. CASE BrokerAccept
  BY <1>3, NotCarried DEF BrokerAccept, SessionInv
<1>4. CASE BrokerRefuse \/ Drop
  BY <1>4, EmptyWire DEF BrokerRefuse, Drop, SessionEnds
<1>5. CASE BrokerExpire \/ BrokerRequest
  BY <1>5, EmptyWire DEF BrokerExpire, BrokerRequest, SessionInv
<1> QED
  BY <1>1, <1>2, <1>3, <1>4, <1>5 DEF Broker

LEMMA WireStep ==
    TypeOK /\ LinkInv /\ WireInv /\ [Next]_vars => WireInv'
<1> SUFFICES ASSUME TypeOK, LinkInv, WireInv, [Next]_vars, ~raced'
             PROVE  OrderInv'
  BY SessionStep, OnlineStep DEF WireInv
<1>1. SessionInv /\ OnlineInv
  BY DEF WireInv
<1>2. ~raced
  BY PublishStep DEF Next, ConnectFails, Connect, DisconnectCall, Disconnect,
     DisconnectUnsubscribe, DisconnectCheck, DisconnectOff,
     DisconnectRequest, DisconnectJoin, Network, NetReconnect, NetConnack,
     NetSubscribe, NetOn, NetConnectedCallback, NetRefused, NetLost,
     NetClose, SocketClosed, NetDisconnectedCallback, NetExit, NetMessage,
     Broker, BrokerAccept, BrokerReceive, BrokerDisconnect, BrokerExpire,
     BrokerRefuse, Drop, BrokerRequest, SessionEnds, vars, history
<1>3. OrderInv
  BY <1>2 DEF WireInv
<1> USE DEF OrderInv, NotOn, Disconnecting, Reachable, HasSocket
<1>4. CASE ConnectFails \/ Connect
  BY <1>3, <1>4 DEF ConnectFails, Connect, brokerVars, LinkInv,
     StateTracksLink
<1>5. ASSUME NEW t \in Threads, Publish(t) PROVE OrderInv'
  <2>1. \A x \in {"value", "status"} :
          /\ \A p \in Packets \ {x} :
                Carries(Sent(x), p) <=> Carries(wire, p)
          /\ \A p, q : Guarded(wire, p, q) /\ x # q
                => Guarded(Sent(x), p, q)
          /\ \A p, q : NoneAfter(wire, p, q) /\ x # q
                => NoneAfter(Sent(x), p, q)
    BY SentCarries DEF Packets
  <2> QED
    BY <1>3, <1>5, <2>1, PublishStep DEF Packets, Ending, brokerVars
<1>6. CASE UNCHANGED vars
  BY <1>3, <1>6 DEF vars, appVars, brokerVars
<1> QED
  BY <1>1, <1>3, <1>4, <1>5, <1>6, OrderMainStep, OrderNetStep,
     OrderBrokerStep DEF Next

LEMMA WireInvariant == Spec => [](SessionInv /\ OnlineInv /\ WireInv)
<1>1. Init => WireInv
  BY EmptyWire DEF Init, WireInv, SessionInv, OnlineInv, OrderInv, NotOn,
     HasSocket, Reachable
<1>2. WireInv => SessionInv /\ OnlineInv
  BY DEF WireInv
<1> QED
  BY <1>1, <1>2, WireStep, TypeCorrect, LinkInvariant, PTL DEF Spec

(* However often the connection was lost and whoever publishes meanwhile:  *)
(* once nothing is in flight, a gateway that stays connected is shown as   *)
(* on and the broker holds its subscription (mqtt.c:181-186).              *)
THEOREM OnlineSettles == Spec => []OnlineWhenSettled
<1>1. OnlineInv => OnlineWhenSettled
  BY EmptyWire DEF OnlineInv, OnlineWhenSettled, Settled, HasSocket,
     Reachable
<1> QED
  BY <1>1, WireInvariant, PTL

(* A gateway that is shown as on can be asked, unless it is going away:    *)
(* the packets of _cb_connected are read in the order they were sent       *)
(* (mqtt.c:181-186).                                                       *)
THEOREM OnlineReachable == Spec => []OnlineMeansReachable
<1>1. WireInv => OnlineMeansReachable
  BY DEF WireInv, OrderInv, OnlineMeansReachable
<1> QED
  BY <1>1, WireInvariant, PTL

(* A gateway that went away is not left shown as on, unless _cb_connected  *)
(* ran while mqtt_disconnect did: that race is the only way                *)
(* (mqtt.c:415-420).                                                       *)
THEOREM OffIfNotRaced == Spec => []OffUnlessRaced
<1>1. WireInv => OffUnlessRaced
  BY DEF WireInv, OrderInv, OffUnlessRaced, Gone
<1> QED
  BY <1>1, WireInvariant, PTL
=============================================================================
