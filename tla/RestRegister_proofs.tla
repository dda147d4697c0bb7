------------------------- MODULE RestRegister_proofs -------------------------
(***************************************************************************)
(* Theorems about RestRegister for any gateway model, any uids and any     *)
(* number of calls, faults, portal changes and restarts.                   *)
(***************************************************************************)
EXTENDS RestRegister, TLAPS

-----------------------------------------------------------------------------
(* A fetch is only made into an empty cache.  The gateway is only open to  *)
(* an instance that has the server's word for it, a call gets past the     *)
(* gate only then, and past the model lookup only with a model.            *)
KnowledgeInv ==
    /\ pc = "info" => info = "empty"
    /\ open => info = "server" /\ GatewayOpen
    /\ pc \in {"model", "lookup", "device", "driver", "post"} => open
    /\ pc \in {"device", "driver"} => op # "device"
    /\ pc = "lookup" => op = "device"
    /\ pc \in {"driver", "post"} => models

(* An instance that has confirmed anything has its cache from the server,  *)
(* and every device it confirmed is in the cache.  A device about to be    *)
(* posted is not.                                                          *)
CacheInv ==
    /\ confirmed # {} => info = "server"
    /\ \A d : <<"device", d>> \in confirmed => d \in devices
    /\ pc = "post" /\ op = "device" => id \notin devices

Inv == KnowledgeInv /\ CacheInv

LEMMA InvInit == Init => Inv
BY DEF Init, Inv, KnowledgeInv, CacheInv

-----------------------------------------------------------------------------
(* One step per exchange. *)
LEMMA KnowledgeStep == KnowledgeInv /\ [Next]_vars => KnowledgeInv'
<1> SUFFICES ASSUME KnowledgeInv, [Next]_vars PROVE KnowledgeInv'
  OBVIOUS
<1> USE DEF KnowledgeInv, cache, call, Returns
<1>1. CASE DeviceRegister \/ SensorRegister
  BY <1>1 DEF DeviceRegister, SensorRegister, Call
<1>2. CASE InfoFetched \/ InfoEmpty
  BY <1>2 DEF InfoFetched, InfoEmpty
<1>3. CASE InfoFails
  BY <1>3 DEF InfoFails
<1>4. CASE NotDiscoverable \/ IsDiscoverable
  BY <1>4 DEF NotDiscoverable, IsDiscoverable
<1>5. CASE ModelFetched \/ ModelFails \/ ModelUnparsed
  BY <1>5 DEF ModelFetched, ModelFails, ModelUnparsed, AfterModel
<1>6. CASE DeviceLookup
  BY <1>6 DEF DeviceLookup, Known
<1>7. CASE SensorDevice \/ SensorDeviceFails
  BY <1>7 DEF SensorDevice, SensorDeviceFails, Known
<1>8. CASE DriverKnown \/ DriverFails
  BY <1>8 DEF DriverKnown, DriverFails, SensorNamed
<1>9. CASE PostAccepted \/ PostRejected \/ PostFails
  BY <1>9 DEF PostAccepted, PostRejected, PostFails, PostSucceeds
<1>10. CASE PortalAdd \/ Restart
  BY <1>10 DEF PortalAdd, Restart
<1>11. CASE UNCHANGED vars
  BY <1>11 DEF vars
<1> QED
  BY <1>1, <1>2, <1>3, <1>4, <1>5, <1>6, <1>7, <1>8, <1>9, <1>10, <1>11
     DEF Next

LEMMA CacheStep == Inv /\ [Next]_vars => CacheInv'
<1> SUFFICES ASSUME Inv, [Next]_vars PROVE CacheInv'
  OBVIOUS
<1> USE DEF Inv, CacheInv, cache, past, call, Returns
<1>1. CASE DeviceRegister \/ SensorRegister
  BY <1>1 DEF DeviceRegister, SensorRegister, Call
<1>2. CASE InfoFetched \/ InfoFails
  <2>1. confirmed = {}
    BY <1>2 DEF InfoFetched, InfoFails, KnowledgeInv
  <2> QED
    BY <1>2, <2>1 DEF InfoFetched, InfoFails
<1>3. CASE InfoEmpty
  BY <1>3 DEF InfoEmpty
<1>4. CASE NotDiscoverable \/ IsDiscoverable
  BY <1>4 DEF NotDiscoverable, IsDiscoverable
<1>5. CASE ModelFetched \/ ModelFails \/ ModelUnparsed
  BY <1>5 DEF ModelFetched, ModelFails, ModelUnparsed, AfterModel
<1>6. CASE DeviceLookup
  BY <1>6 DEF DeviceLookup
<1>7. CASE SensorDevice \/ SensorDeviceFails
  BY <1>7 DEF SensorDevice, SensorDeviceFails
<1>8. CASE DriverKnown \/ DriverFails
  BY <1>8 DEF DriverKnown, DriverFails, SensorNamed, KnowledgeInv
<1>9. CASE PostAccepted \/ PostRejected
  <2>1. info = "server"
    BY <1>9 DEF KnowledgeInv, PostAccepted, PostRejected
  <2> QED
    BY <1>9, <2>1 DEF PostAccepted, PostRejected, PostSucceeds, Item
<1>10. CASE PostFails
  BY <1>10 DEF PostFails
<1>11. CASE PortalAdd \/ Restart
  BY <1>11 DEF PortalAdd, Restart
<1>12. CASE UNCHANGED vars
  BY <1>12 DEF vars
<1> QED
  BY <1>1, <1>2, <1>3, <1>4, <1>5, <1>6, <1>7, <1>8, <1>9, <1>10, <1>11,
     <1>12 DEF Next

LEMMA Invariance == Spec => []Inv
<1>1. Inv /\ [Next]_vars => Inv'
  BY KnowledgeStep, CacheStep DEF Inv
<1> QED
  BY <1>1, InvInit, PTL DEF Spec

-----------------------------------------------------------------------------
(* A POST is sent only with the server's word that the gateway is open and *)
(* with the gateway's model, whatever exchanges failed before.             *)
THEOREM PostsKnow == Spec => []PostsOnKnowledge
<1>1. Inv => PostsOnKnowledge
  BY DEF Inv, KnowledgeInv, PostsOnKnowledge
<1> QED
  BY <1>1, Invariance, PTL

(* No instance posts a device it has already reported as registered.       *)
THEOREM DevicesOnce == Spec => []DeviceNotRepeated
<1>1. Inv => DeviceNotRepeated
  BY DEF Inv, CacheInv, DeviceNotRepeated, Item
<1> QED
  BY <1>1, Invariance, PTL

-----------------------------------------------------------------------------
(* What the application was told and what it cached, against the server.   *)
ServerTyped ==
    /\ srvDevices \in [DeviceIds -> Models \cup {NoModel}]
    /\ pc # "idle" /\ op = "device" => arg.uid \in Uids
    /\ pc = "post" /\ op = "device" => id \in DeviceIds /\ arg.model \in Models
    /\ pc = "idle" /\ op = "device" /\ result = "DUPLICATED"
          => id \in DeviceIds
    /\ \A d : <<"device", d>> \in confirmed => d \in DeviceIds
    /\ devices \subseteq DeviceIds

CachedInv ==
    /\ \A d \in devices : OnServer(d) \/ <<"device", d>> \in rejected
    /\ sensors \subseteq srvSensors
    /\ \A x \in confirmed : x[1] = "device" => x = <<"device", x[2]>>

TruthInv ==
    ServerTyped /\ CachedInv /\ ConfirmedOrRejected /\ DuplicateIsKnown

(* The server only adds, and what it refused stays refused. *)
Grows ==
    /\ srvDevices' \in [DeviceIds -> Models \cup {NoModel}]
    /\ \A d \in DeviceIds : OnServer(d) => OnServer(d)'
    /\ srvSensors \subseteq srvSensors' /\ rejected \subseteq rejected'

LEMMA ServerKept ==
    ASSUME ServerTyped, UNCHANGED server, rejected' = rejected
    PROVE  Grows
BY DEF ServerTyped, Grows, server, OnServer

LEMMA Registers ==
    ASSUME ServerTyped, pc = "post", ServerRegisters
    PROVE  /\ srvDevices' \in [DeviceIds -> Models \cup {NoModel}]
           /\ \A d \in DeviceIds : OnServer(d) => OnServer(d)'
           /\ srvSensors \subseteq srvSensors'
           /\ op = "device" => srvDevices'[id] # NoModel
           /\ op # "device" => id \in srvSensors'
<1>1. CASE op = "device"
  <2>1. id \in DeviceIds /\ arg.model \in Models /\ NoModel \notin Models
    BY <1>1, ModelsAssumption DEF ServerTyped
  <2>2. /\ srvDevices' = [srvDevices EXCEPT ![id] = arg.model]
        /\ srvSensors' = srvSensors
    BY <1>1 DEF ServerRegisters
  <2>3. srvDevices' \in [DeviceIds -> Models \cup {NoModel}]
    BY <2>1, <2>2 DEF ServerTyped
  <2>4. srvDevices'[id] = arg.model /\ arg.model # NoModel
    BY <2>1, <2>2 DEF ServerTyped
  <2>5. \A d \in DeviceIds : d # id => srvDevices'[d] = srvDevices[d]
    BY <2>1, <2>2 DEF ServerTyped
  <2>6. \A d \in DeviceIds : OnServer(d) => OnServer(d)'
    BY <2>4, <2>5 DEF OnServer
  <2> QED
    BY <1>1, <2>2, <2>3, <2>4, <2>6
<1>2. CASE op # "device"
  BY <1>2 DEF ServerRegisters, ServerTyped, OnServer
<1> QED
  BY <1>1, <1>2

(* Adding a device on the portal. *)
LEMMA PortalGrows == ASSUME ServerTyped, PortalAdd PROVE Grows
<1>1. PICK m \in Models, u \in Uids :
         /\ DeviceTemplate[m] # "null"
         /\ srvDevices' = [srvDevices EXCEPT ![DeviceId(m, u)] = m]
  BY DEF PortalAdd
<1>2. DeviceId(m, u) \in DeviceIds /\ m # NoModel
  BY <1>1, ModelsAssumption DEF DeviceIds
<1> HIDE DEF DeviceId, DeviceIds
<1>3. UNCHANGED <<srvSensors, rejected>>
  BY DEF PortalAdd, past
<1> QED
  BY <1>1, <1>2, <1>3 DEF ServerTyped, Grows, OnServer

(* Steps that tell and cache nothing, while the server may only grow. *)
LEMMA TruthKept ==
    ASSUME TruthInv, Grows,
           UNCHANGED <<devices, sensors, confirmed>>,
           pc' = "idle" /\ result' = "DUPLICATED"
              => pc = "idle" /\ result = "DUPLICATED" /\ op' = op /\ id' = id,
           pc' # "idle" /\ op' = "device" => arg'.uid \in Uids,
           pc' = "post" /\ op' = "device"
              => id' \in DeviceIds /\ arg'.model \in Models
    PROVE  TruthInv'
<1>1. ServerTyped'
  BY DEF TruthInv, ServerTyped, Grows
<1>2. CachedInv'
  BY DEF TruthInv, CachedInv, ServerTyped, Grows
<1>3. ConfirmedOrRejected'
  BY DEF TruthInv, ConfirmedOrRejected, ServerTyped, CachedInv, Grows
<1>4. DuplicateIsKnown'
  BY DEF TruthInv, DuplicateIsKnown, ServerTyped, Grows, Item, Registered
<1> QED
  BY <1>1, <1>2, <1>3, <1>4 DEF TruthInv

(* What a success adds: the item is the server's, or was refused. *)
LEMMA TruthPosted ==
    ASSUME TruthInv, Grows, pc = "post", PostSucceeds,
           \/ Item \in rejected'
           \/ IF op = "device" THEN srvDevices'[id] # NoModel
                               ELSE id \in srvSensors'
    PROVE  TruthInv'
<1> USE DEF PostSucceeds, Returns, call, Item, TruthInv
<1>1. ServerTyped'
  BY DEF ServerTyped, Grows
<1>2. CachedInv'
  <2>1. \A d \in devices' : OnServer(d)' \/ <<"device", d>> \in rejected'
    BY DEF CachedInv, ServerTyped, Grows, OnServer
  <2>2. sensors' \subseteq srvSensors'
    BY DEF CachedInv, Grows
  <2>3. \A x \in confirmed' : x[1] = "device" => x = <<"device", x[2]>>
    BY DEF CachedInv
  <2> QED
    BY <2>1, <2>2, <2>3 DEF CachedInv
<1>3. ConfirmedOrRejected'
  <2> SUFFICES ASSUME NEW x \in confirmed', x \notin rejected'
               PROVE  IF x[1] = "device" THEN OnServer(x[2])'
                                         ELSE x[2] \in srvSensors'
    BY DEF ConfirmedOrRejected, OnServer
  <2>1. CASE x = <<op, id>>
    BY <2>1 DEF OnServer
  <2>2. CASE x \in confirmed
    BY <2>2 DEF ConfirmedOrRejected, ServerTyped, CachedInv, Grows
  <2> QED
    BY <2>1, <2>2
<1>4. DuplicateIsKnown'
  BY DEF DuplicateIsKnown
<1> QED
  BY <1>1, <1>2, <1>3, <1>4

LEMMA TruthInit == Init => TruthInv
<1> SUFFICES ASSUME Init PROVE TruthInv
  OBVIOUS
<1>1. ServerTyped
  BY DEF Init, ServerTyped
<1>2. CachedInv /\ ConfirmedOrRejected /\ DuplicateIsKnown
  BY DEF Init, CachedInv, ConfirmedOrRejected, DuplicateIsKnown
<1> QED
  BY <1>1, <1>2 DEF TruthInv

(* The cached sensors name the id: a duplicate is the server's. *)
LEMMA NamedTruthfully ==
    ASSUME TruthInv, NEW template, SensorNamed(template), op # "device",
           UNCHANGED <<op, devices, sensors, server, past>>
    PROVE  TruthInv'
<1> USE DEF TruthInv, SensorNamed, Returns, server, past
<1>1. ServerTyped' /\ CachedInv'
  BY DEF ServerTyped, CachedInv, OnServer
<1>2. ConfirmedOrRejected'
  BY DEF ConfirmedOrRejected, OnServer
<1>3. DuplicateIsKnown'
  BY DEF DuplicateIsKnown, CachedInv, Registered, Item
<1> QED
  BY <1>1, <1>2, <1>3

(* One step per exchange. *)
LEMMA TruthStep == Inv /\ TruthInv /\ [Next]_vars => TruthInv'
<1> SUFFICES ASSUME Inv, TruthInv, [Next]_vars PROVE TruthInv'
  OBVIOUS
<1> USE DEF cache, call, past, Returns
<1>0. ServerTyped
  BY DEF TruthInv
<1>1. CASE DeviceRegister \/ SensorRegister
  <2>1. Grows
    BY <1>0, <1>1, ServerKept DEF DeviceRegister, SensorRegister, Call
  <2>2. /\ UNCHANGED <<devices, sensors, confirmed>>
        /\ pc' \in {"info", "gate"}
        /\ op' = "device" => arg'.uid \in Uids
    BY <1>1 DEF DeviceRegister, SensorRegister, Call
  <2> QED
    BY <2>1, <2>2, TruthKept
<1>2. CASE InfoFetched
  <2>1. /\ devices' = {d \in DeviceIds : OnServer(d)}
        /\ sensors' = srvSensors
        /\ pc' = "gate" /\ pc = "info"
        /\ UNCHANGED <<op, arg, id, server, confirmed, rejected>>
    BY <1>2 DEF InfoFetched
  <2>2. ServerTyped'
    BY <1>0, <2>1 DEF ServerTyped, server
  <2>3. CachedInv'
    BY <2>1 DEF TruthInv, CachedInv, server, OnServer
  <2>4. ConfirmedOrRejected' /\ DuplicateIsKnown'
    BY <2>1 DEF TruthInv, ConfirmedOrRejected, DuplicateIsKnown, server,
                OnServer
  <2> QED
    BY <2>2, <2>3, <2>4 DEF TruthInv
<1>3. CASE InfoFails \/ InfoEmpty
  <2>1. Grows
    BY <1>0, <1>3, ServerKept DEF InfoFails, InfoEmpty, server
  <2>2. /\ UNCHANGED <<devices, sensors, confirmed, op, arg, id>>
        /\ pc = "info" /\ pc' \in {"idle", "gate"}
        /\ pc' = "idle" => result' = "INVALID_ARGUMENT"
    BY <1>3 DEF InfoFails, InfoEmpty
  <2> QED
    BY <1>0, <2>1, <2>2, TruthKept DEF ServerTyped
<1>4. CASE NotDiscoverable \/ IsDiscoverable
  <2>1. Grows
    BY <1>0, <1>4, ServerKept DEF NotDiscoverable, IsDiscoverable, server
  <2>2. /\ UNCHANGED <<devices, sensors, confirmed, op, arg, id>>
        /\ pc = "gate" /\ pc' \in {"idle", "model", "lookup", "device"}
        /\ pc' = "idle" => result' # "DUPLICATED"
    BY <1>4 DEF NotDiscoverable, IsDiscoverable
  <2> QED
    BY <1>0, <2>1, <2>2, TruthKept DEF ServerTyped
<1>5. CASE ModelFetched \/ ModelFails \/ ModelUnparsed
  <2>1. Grows
    BY <1>0, <1>5, ServerKept
       DEF ModelFetched, ModelFails, ModelUnparsed, server
  <2>2. /\ UNCHANGED <<devices, sensors, confirmed, op, arg, id>>
        /\ pc = "model" /\ pc' \in {"idle", "lookup", "device"}
        /\ pc' = "idle" => result' # "DUPLICATED"
    BY <1>5 DEF ModelFetched, ModelFails, ModelUnparsed, AfterModel
  <2> QED
    BY <1>0, <2>1, <2>2, TruthKept DEF ServerTyped
<1>7. CASE SensorDevice \/ SensorDeviceFails
  <2>1. Grows
    BY <1>0, <1>7, ServerKept DEF SensorDevice, SensorDeviceFails, server
  <2>2. /\ UNCHANGED <<devices, sensors, confirmed, op, arg, id>>
        /\ pc = "device" /\ pc' \in {"idle", "driver"}
        /\ pc' = "idle" => result' # "DUPLICATED"
    BY <1>7 DEF SensorDevice, SensorDeviceFails
  <2> QED
    BY <1>0, <2>1, <2>2, TruthKept DEF ServerTyped
<1>8. CASE DriverKnown \/ DriverFails
  <2>1. op # "device"
    BY <1>8 DEF Inv, KnowledgeInv, DriverKnown, DriverFails
  <2>2. PICK template : SensorNamed(template)
    BY <1>8 DEF DriverKnown, DriverFails
  <2>3. UNCHANGED <<op, devices, sensors, server, past>>
    BY <1>8 DEF DriverKnown, DriverFails
  <2> QED
    BY <2>1, <2>2, <2>3, NamedTruthfully
<1>9. CASE PostAccepted
  <2>1. pc = "post" /\ ServerRegisters /\ PostSucceeds /\ rejected' = rejected
    BY <1>9 DEF PostAccepted
  <2>2. Grows
    BY <1>0, <2>1, Registers DEF Grows
  <2>3. IF op = "device" THEN srvDevices'[id] # NoModel
                         ELSE id \in srvSensors'
    BY <1>0, <2>1, Registers
  <2> QED
    BY <2>1, <2>2, <2>3, TruthPosted
<1>10. CASE PostRejected
  <2>1. /\ pc = "post" /\ PostSucceeds /\ UNCHANGED server
        /\ rejected' = rejected \cup {Item}
    BY <1>10 DEF PostRejected
  <2>2. Grows
    BY <1>0, <2>1 DEF ServerTyped, Grows, server, OnServer
  <2> QED
    BY <2>1, <2>2, TruthPosted
<1>11. CASE PostFails
  <2>1. /\ UNCHANGED <<devices, sensors, confirmed, rejected>>
        /\ pc = "post" /\ pc' = "idle" /\ result' = "CURL_POST"
        /\ ServerRegisters \/ UNCHANGED server
    BY <1>11 DEF PostFails
  <2>2. Grows
    <3>1. CASE ServerRegisters
      BY <1>0, <2>1, <3>1, Registers DEF Grows
    <3>2. CASE UNCHANGED server
      BY <1>0, <2>1, <3>2, ServerKept
    <3> QED
      BY <2>1, <3>1, <3>2
  <2> QED
    BY <2>1, <2>2, TruthKept
<1>12. CASE PortalAdd
  <2>1. Grows
    BY <1>0, <1>12, PortalGrows
  <2>2. UNCHANGED <<devices, sensors, confirmed, op, arg, id, pc, result>>
    BY <1>12 DEF PortalAdd
  <2> QED
    BY <1>0, <2>1, <2>2, TruthKept DEF ServerTyped
<1>13. CASE Restart
  <2>1. /\ devices' = {} /\ sensors' = {} /\ confirmed' = {}
        /\ UNCHANGED <<pc, op, arg, id, result, server, rejected>>
    BY <1>13 DEF Restart
  <2>2. ServerTyped' /\ CachedInv'
    BY <1>0, <2>1 DEF ServerTyped, CachedInv, server
  <2>3. ConfirmedOrRejected' /\ DuplicateIsKnown'
    BY <2>1 DEF TruthInv, ConfirmedOrRejected, DuplicateIsKnown, server,
                OnServer, Item, Registered
  <2> QED
    BY <2>2, <2>3 DEF TruthInv
<1>14. CASE UNCHANGED vars
  <2>1. Grows
    BY <1>0, <1>14, ServerKept DEF vars
  <2>2. UNCHANGED <<devices, sensors, confirmed, op, arg, id, pc, result>>
    BY <1>14 DEF vars
  <2> QED
    BY <1>0, <2>1, <2>2, TruthKept DEF ServerTyped
<1>6. CASE DeviceLookup
  <2>1. /\ pc = "lookup" /\ pc' \in {"idle", "post"}
        /\ UNCHANGED <<op, arg, devices, sensors, server, confirmed, rejected>>
    BY <1>6 DEF DeviceLookup
  <2>2. op = "device"
    BY <2>1 DEF Inv, KnowledgeInv
  <2>3. Grows
    BY <1>0, <2>1, ServerKept
  <2>4. CASE pc' = "idle" /\ result' # "DUPLICATED"
    BY <2>1, <2>3, <2>4, TruthKept
  <2>5. CASE pc' = "post"
    <3>1. /\ arg.model \in Models /\ DeviceTemplate[arg.model] # "null"
          /\ id' = DeviceId(arg.model, arg.uid)
      BY <1>6, <2>5 DEF DeviceLookup, Known
    <3>2. arg.uid \in Uids
      BY <1>0, <2>1, <2>2 DEF ServerTyped
    <3>3. id' \in DeviceIds
      BY <3>1, <3>2 DEF DeviceIds
    <3> QED
      BY <2>1, <2>3, <2>5, <3>1, <3>2, <3>3, TruthKept
  <2>6. CASE pc' = "idle" /\ result' = "DUPLICATED"
    <3>1. id' \in devices
      BY <1>6, <2>6 DEF DeviceLookup
    <3>2. ServerTyped' /\ CachedInv'
      BY <2>1, <2>6, <3>1
         DEF TruthInv, ServerTyped, CachedInv, server, OnServer
    <3>3. ConfirmedOrRejected'
      BY <2>1 DEF TruthInv, ConfirmedOrRejected, server, OnServer
    <3>4. DuplicateIsKnown'
      BY <2>1, <2>2, <3>1
         DEF TruthInv, CachedInv, DuplicateIsKnown, server, OnServer, Item,
             Registered
    <3> QED
      BY <3>2, <3>3, <3>4 DEF TruthInv
  <2> QED
    BY <2>1, <2>4, <2>5, <2>6
<1> QED
  BY <1>1, <1>2, <1>3, <1>4, <1>5, <1>6, <1>7, <1>8, <1>9, <1>10, <1>11,
     <1>12, <1>13, <1>14 DEF Next

LEMMA Truthful == Spec => []TruthInv
<1> QED
  BY TruthInit, TruthStep, Invariance, PTL DEF Spec

(* Whatever an instance reported as registered is on the server, unless    *)
(* the server refused it in an answer the code takes for a success.        *)
THEOREM SuccessesTrue == Spec => []ConfirmedOrRejected
<1> QED
  BY Truthful, PTL DEF TruthInv

(* THINGPLUS_ERR_DUPLICATED names an id the server has or has refused,     *)
(* whatever was cached, lost or added meanwhile.                           *)
THEOREM DuplicatesTrue == Spec => []DuplicateIsKnown
<1> QED
  BY Truthful, PTL DEF TruthInv

-----------------------------------------------------------------------------
(* What a call was given stays with it until it returns. *)
CallTyped ==
    pc # "idle" =>
        \/ /\ op = "device"
           /\ arg.model \in Models \cup {NoModel} /\ arg.uid \in Uids
        \/ /\ op = "sensor"
           /\ arg.type \in Types /\ arg.device \in DeviceIds
           /\ arg.uid \in Uids

Typed == TypeOK /\ CallTyped

(* Every id a call computes is one of the server's, the one without a      *)
(* template too: it has the form of a template that names the device.      *)
LEMMA DeviceIdTyped ==
    ASSUME NEW m \in Models, NEW u \in Uids, DeviceTemplate[m] # "null"
    PROVE  DeviceId(m, u) \in DeviceIds
BY DEF DeviceIds

LEMMA SensorIdTyped ==
    ASSUME NEW template \in {"type", "gateway", "device", "none"},
           NEW y \in Types, NEW d \in DeviceIds, NEW u \in Uids
    PROVE  SensorId(template, y, d, u) \in SensorIds
<1> HIDE DEF Types, DeviceIds
<1>1. CASE template # "none"
  BY <1>1 DEF SensorIds
<1>2. CASE template = "none"
  <2>1. SensorId(template, y, d, u) = SensorId("device", y, d, u)
    BY <1>2 DEF SensorId
  <2> QED
    BY <2>1 DEF SensorIds
<1> QED
  BY <1>1, <1>2

LEMMA ItemTyped ==
    ASSUME TypeOK, pc = "post"
    PROVE  \/ op = "device" /\ id \in DeviceIds
           \/ op = "sensor" /\ id \in SensorIds
<1>1. <<op, id>> \in Items
  BY DEF TypeOK
<1> QED
  BY <1>1 DEF Items

(* Steps of a call that only move it on or end it. *)
LEMMA CallKept ==
    ASSUME CallTyped, UNCHANGED <<op, arg>>, pc # "idle" \/ pc' = "idle"
    PROVE  CallTyped'
BY DEF CallTyped

LEMMA CallTypedStep == Inv /\ CallTyped /\ [Next]_vars => CallTyped'
<1> SUFFICES ASSUME Inv, CallTyped, [Next]_vars PROVE CallTyped'
  OBVIOUS
<1>1. CASE DeviceRegister
  BY <1>1 DEF DeviceRegister, Call, CallTyped
<1>2. CASE SensorRegister
  BY <1>2 DEF SensorRegister, Call, CallTyped
<1>3. CASE InfoFetched \/ InfoFails \/ InfoEmpty
  BY <1>3, CallKept DEF InfoFetched, InfoFails, InfoEmpty, call
<1>4. CASE NotDiscoverable \/ IsDiscoverable
  BY <1>4, CallKept DEF NotDiscoverable, IsDiscoverable, call
<1>5. CASE ModelFetched \/ ModelFails \/ ModelUnparsed
  BY <1>5, CallKept DEF ModelFetched, ModelFails, ModelUnparsed, call
<1>6. CASE DeviceLookup
  BY <1>6, CallKept DEF DeviceLookup
<1>7. CASE SensorDevice \/ SensorDeviceFails
  BY <1>7, CallKept DEF SensorDevice, SensorDeviceFails, call
<1>8. CASE DriverKnown \/ DriverFails
  BY <1>8, CallKept DEF DriverKnown, DriverFails
<1>9. CASE PostAccepted \/ PostRejected \/ PostFails
  BY <1>9, CallKept
     DEF PostAccepted, PostRejected, PostFails, PostSucceeds, call
<1>10. CASE PortalAdd \/ Restart \/ UNCHANGED vars
  BY <1>10 DEF PortalAdd, Restart, vars, call, CallTyped
<1> QED
  BY <1>1, <1>2, <1>3, <1>4, <1>5, <1>6, <1>7, <1>8, <1>9, <1>10 DEF Next

LEMMA FaultTyped ==
    ASSUME TypeOK, Fault PROVE faults' \in 0 .. MaxFaults
BY BoundsAssumption DEF TypeOK, Fault

(* The type invariant: what each exchange writes. *)
LEMMA TypeStep == Inv /\ Typed /\ [Next]_vars => TypeOK'
<1> SUFFICES ASSUME Inv, Typed, [Next]_vars PROVE TypeOK'
  OBVIOUS
<1> USE DEF cache, call, past, server, bounds, Returns, Exchanges, Results
<1> USE BoundsAssumption
<1>t. TypeOK /\ CallTyped
  BY DEF Typed
<1>1. CASE DeviceRegister \/ SensorRegister
  BY <1>t, <1>1 DEF DeviceRegister, SensorRegister, Call, TypeOK
<1>2. CASE InfoFetched
  BY <1>t, <1>2, ModelsAssumption DEF InfoFetched, TypeOK
<1>3. CASE InfoFails \/ InfoEmpty
  BY <1>t, <1>3, FaultTyped DEF InfoFails, InfoEmpty, TypeOK
<1>4. CASE NotDiscoverable \/ IsDiscoverable
  BY <1>t, <1>4 DEF NotDiscoverable, IsDiscoverable, TypeOK
<1>5. CASE ModelFetched \/ ModelFails \/ ModelUnparsed
  BY <1>t, <1>5, FaultTyped
     DEF ModelFetched, ModelFails, ModelUnparsed, AfterModel, TypeOK
<1>6. CASE DeviceLookup
  <2>1. /\ pc' \in {"idle", "post"} /\ result' \in Results
        /\ UNCHANGED <<op, arg, cache, server, past, bounds>>
    BY <1>t, <1>6 DEF DeviceLookup, TypeOK
  <2>2. pc' = "post" => <<op', id'>> \in Items
    <3> SUFFICES ASSUME pc' = "post" PROVE <<op', id'>> \in Items
      OBVIOUS
    <3>1. /\ arg.model \in Models /\ DeviceTemplate[arg.model] # "null"
          /\ id' = DeviceId(arg.model, arg.uid)
      BY <1>6 DEF DeviceLookup, Known
    <3>2. op = "device" /\ arg.uid \in Uids
      BY <1>t, <1>6 DEF DeviceLookup, Inv, KnowledgeInv, CallTyped
    <3>3. id' \in DeviceIds
      BY <3>1, <3>2, DeviceIdTyped
    <3> QED
      BY <2>1, <3>2, <3>3 DEF Items
  <2> QED
    BY <1>t, <2>1, <2>2 DEF TypeOK
<1>7. CASE SensorDevice \/ SensorDeviceFails
  BY <1>t, <1>7, FaultTyped DEF SensorDevice, SensorDeviceFails, TypeOK
<1>8. CASE DriverKnown \/ DriverFails
  <2>1. /\ op = "sensor"
        /\ arg.type \in Types /\ arg.device \in DeviceIds
        /\ arg.uid \in Uids
    BY <1>t, <1>8
       DEF DriverKnown, DriverFails, Inv, KnowledgeInv, CallTyped
  <2>2. PICK template \in {"type", "gateway", "device", "none"} :
           SensorNamed(template)
    BY <1>8, <2>1, ModelsAssumption DEF DriverKnown, DriverFails
  <2>3. id' \in SensorIds
    BY <2>1, <2>2, SensorIdTyped DEF SensorNamed
  <2>4. pc' \in {"idle", "post"} /\ result' \in Results
    BY <1>t, <2>2 DEF SensorNamed, TypeOK
  <2>5. drivers' \subseteq Types /\ faults' \in 0 .. MaxFaults
    BY <1>t, <1>8, <2>1, FaultTyped DEF DriverKnown, DriverFails, TypeOK
  <2>6. UNCHANGED <<op, arg, info, open, devices, sensors, models, server,
                    past, calls, portal, restarts>>
    BY <1>8 DEF DriverKnown, DriverFails
  <2>7. <<op', id'>> \in Items
    BY <2>1, <2>3, <2>6 DEF Items
  <2> QED
    BY <1>t, <2>3, <2>4, <2>5, <2>6, <2>7 DEF TypeOK
<1>9. CASE PostAccepted \/ PostRejected \/ PostFails
  <2>1. /\ pc = "post" /\ pc' = "idle" /\ result' \in Results
        /\ UNCHANGED <<call, info, open, sensors, models, drivers, calls,
                       portal, restarts>>
        /\ devices' \in {devices, IF op = "device" THEN devices \cup {id}
                                                  ELSE devices}
        /\ confirmed' \in {confirmed, confirmed \cup {Item}}
        /\ rejected' \in {rejected, rejected \cup {Item}}
    BY <1>9 DEF PostAccepted, PostRejected, PostFails, PostSucceeds
  <2>2. ServerRegisters \/ UNCHANGED server
    BY <1>9 DEF PostAccepted, PostRejected, PostFails
  <2>3. Item \in Items /\ (op = "device" => id \in DeviceIds)
        /\ (op # "device" => id \in SensorIds)
    BY <1>t, <2>1, ItemTyped DEF Item, TypeOK
  <2>4. devices' \subseteq DeviceIds
    BY <1>t, <2>1, <2>3 DEF TypeOK
  <2>5. confirmed' \subseteq Items /\ rejected' \subseteq Items
    BY <1>t, <2>1, <2>3 DEF TypeOK
  <2>6. faults' \in 0 .. MaxFaults
    BY <1>t, <1>9, FaultTyped DEF PostAccepted, PostRejected, PostFails,
       TypeOK
  <2>7. /\ srvDevices' \in [DeviceIds -> Models \cup {NoModel}]
        /\ srvSensors' \subseteq SensorIds
    <3>1. CASE UNCHANGED server
      BY <1>t, <3>1 DEF TypeOK
    <3>2. CASE ServerRegisters /\ op = "device"
      <4>1. arg.model \in Models \cup {NoModel}
        BY <1>t, <2>1, <3>2 DEF CallTyped
      <4> QED
        BY <1>t, <3>2, <4>1 DEF ServerRegisters, TypeOK
    <3>3. CASE ServerRegisters /\ op # "device"
      BY <1>t, <2>3, <3>3 DEF ServerRegisters, TypeOK
    <3> QED
      BY <2>2, <3>1, <3>2, <3>3
  <2> QED
    BY <1>t, <2>1, <2>4, <2>5, <2>6, <2>7 DEF TypeOK
<1>10. CASE PortalAdd
  <2>1. PICK m \in Models, u \in Uids :
           srvDevices' = [srvDevices EXCEPT ![DeviceId(m, u)] = m]
    BY <1>10 DEF PortalAdd
  <2>2. srvDevices' \in [DeviceIds -> Models \cup {NoModel}]
    <3> HIDE DEF DeviceId, DeviceIds
    <3> QED
      BY <1>t, <2>1 DEF TypeOK
  <2>3. portal' \in 0 .. MaxPortal
    BY <1>t, <1>10 DEF PortalAdd, TypeOK
  <2>4. UNCHANGED <<pc, call, result, cache, srvSensors, past, faults, calls,
                    restarts>>
    BY <1>10 DEF PortalAdd
  <2> QED
    BY <1>t, <2>2, <2>3, <2>4 DEF TypeOK
<1>11. CASE Restart
  <2>1. /\ pc = "idle" /\ info' = "empty" /\ open' = FALSE /\ models' = FALSE
        /\ devices' = {} /\ sensors' = {} /\ drivers' = {}
        /\ confirmed' = {}
        /\ UNCHANGED <<pc, call, result, server, rejected, faults, calls,
                       portal>>
    BY <1>11 DEF Restart
  <2>2. restarts' \in 0 .. MaxRestarts
    BY <1>t, <1>11 DEF Restart, TypeOK
  <2> QED
    BY <1>t, <2>1, <2>2 DEF TypeOK
<1>12. CASE UNCHANGED vars
  BY <1>t, <1>12 DEF vars, TypeOK
<1> QED
  BY <1>1, <1>2, <1>3, <1>4, <1>5, <1>6, <1>7, <1>8, <1>9, <1>10, <1>11,
     <1>12 DEF Next

(* Every value is of its type; in particular each id that is posted is one *)
(* of a template the server may hold, the id of a driver that could not be *)
(* fetched too (rest.c:689-694).                                           *)
THEOREM TypeCorrect == Spec => []TypeOK
<1>1. Init => Typed
  <2> SUFFICES ASSUME Init PROVE TypeOK /\ CallTyped
    BY DEF Typed
  <2>1. srvDevices \in [DeviceIds -> Models \cup {NoModel}]
    BY DEF Init
  <2>2. /\ pc = "idle" /\ op = "none" /\ result = "none"
        /\ info = "empty" /\ open = FALSE /\ models = FALSE
        /\ devices = {} /\ sensors = {} /\ drivers = {} /\ srvSensors = {}
        /\ confirmed = {} /\ rejected = {}
        /\ faults = 0 /\ calls = 0 /\ portal = 0 /\ restarts = 0
    BY DEF Init
  <2>3. /\ faults \in 0 .. MaxFaults /\ calls \in 0 .. MaxCalls
        /\ portal \in 0 .. MaxPortal /\ restarts \in 0 .. MaxRestarts
    BY <2>2, BoundsAssumption
  <2>4. result \in Results /\ pc \in {"idle", "gate", "lookup"} \cup Exchanges
    BY <2>2 DEF Results
  <2>5. TypeOK
    BY <2>1, <2>2, <2>3, <2>4 DEF TypeOK
  <2> QED
    BY <2>2, <2>5 DEF CallTyped
<1>2. Inv /\ Typed /\ [Next]_vars => Typed'
  BY CallTypedStep, TypeStep DEF Typed
<1>3. Typed => TypeOK
  BY DEF Typed
<1> QED
  BY <1>1, <1>2, <1>3, Invariance, PTL DEF Spec
=============================================================================
