---------------------------- MODULE RestRegister ----------------------------
(***************************************************************************)
(* Registration of devices and sensors over the REST API                   *)
(* (library/src/rest: rest.c, tcurl.c, sensor_driver.c), one application   *)
(* thread against the server.                                              *)
(*                                                                         *)
(* One rest instance caches what it fetched: the gateway's information     *)
(* (with the devices and sensors registered at that time), the gateway's   *)
(* model, and the drivers' id templates.  Nothing is ever fetched again,   *)
(* so what a cache holds after a failed or a stale fetch decides every     *)
(* later call.  Each HTTP exchange is a step of its own; meanwhile the     *)
(* owner may add a device on the portal.                                   *)
(***************************************************************************)
EXTENDS Integers

CONSTANTS
    Models,         \* device models in the gateway's model
    DeviceTemplate, \* idTemplate: "address", "gateway", "fixed" or "null"
    Discoverable,   \* those of them that may be registered
    SensorTypes,    \* sensor types of each model, each with its own driver
    DriverTemplate, \* idTemplate of each driver: "type", "gateway", "device"
    Uids,           \* the uids an application passes
    NoModel,        \* a device model the gateway's model does not have
    GatewayOpen,    \* autoCreateDiscoverable of the gateway
    MaxFaults,      \* bound: exchanges that fail or are answered strangely
    MaxCalls,       \* bound: registrations
    MaxPortal,      \* bound: devices the owner adds on the portal
    MaxRestarts     \* bound: rest_cleanup followed by rest_init

Types == UNION {SensorTypes[m] : m \in Models}

ASSUME ModelsAssumption ==
    /\ NoModel \notin Models
    /\ Discoverable \subseteq Models
    /\ DeviceTemplate \in [Models -> {"address", "gateway", "fixed", "null"}]
    /\ DOMAIN SensorTypes = Models
    /\ DriverTemplate \in [Types -> {"type", "gateway", "device"}]
    /\ GatewayOpen \in BOOLEAN

ASSUME BoundsAssumption ==
    /\ MaxFaults \in Nat /\ MaxCalls \in Nat
    /\ MaxPortal \in Nat /\ MaxRestarts \in Nat

-----------------------------------------------------------------------------
(* Ids.  What the templates do not mention cannot tell two ids apart. *)

(* _device_id_set *)
DeviceId(m, u) ==
    CASE DeviceTemplate[m] = "address" -> <<"address", NoModel, u>>
      [] DeviceTemplate[m] = "gateway" -> <<"gateway", NoModel, 0>>
      [] OTHER                         -> <<"fixed", m, 0>>

(* _sensor_id_set; "none" stands for a template that could not be fetched. *)
SensorId(template, type, device, u) ==
    CASE template = "type"    -> <<"sensor", type, u>>
      [] template = "gateway" -> <<"gateway", NoModel, 0>>
      [] OTHER                -> <<"sensor", type, u, device>>

DeviceIds ==
    {DeviceId(m, u) : m \in {n \in Models : DeviceTemplate[n] # "null"},
                      u \in Uids}

SensorIds ==
    {SensorId(x, y, d, u) : x \in {"type", "gateway", "device"},
                            y \in Types, d \in DeviceIds, u \in Uids}

Items == ({"device"} \X DeviceIds) \cup ({"sensor"} \X SensorIds)

VARIABLES
    pc,         \* the exchange the current call is about to make
    op,         \* "device" or "sensor"
    arg,        \* the current call's arguments
    id,         \* the id the current call has computed
    result,     \* what the last call returned
    info,       \* gateway_info: "empty" (model is -1), "zeroed" or "server"
    open,       \* gateway_info.discoverable
    devices,    \* gateway_info.devices
    sensors,    \* gateway_info.sensors
    models,     \* gw_model.nr_device_models > 0
    drivers,    \* the driver list of sensor_driver.c, shared by the process
    srvDevices, \* the server: model of each registered device
    srvSensors, \* the server: registered sensors
    confirmed,  \* history: what this instance returned success for
    rejected,   \* history: what the server refused in a JSON answer
    faults, calls, portal, restarts     \* history, for the bounds

cache  == <<info, open, devices, sensors, models, drivers>>
server == <<srvDevices, srvSensors>>
call   == <<op, arg, id>>
bounds == <<faults, calls, portal, restarts>>
past   == <<confirmed, rejected>>
vars   == <<pc, call, result, cache, server, past, bounds>>

Exchanges == {"info", "model", "device", "driver", "post"}

Results == {"none", "SUCCESS", "INVALID_ARGUMENT", "NOT_DISCOVERABLE",
            "INVALID_TYPE", "DUPLICATED", "CURL_POST", "CURL_READ",
            "UNKNOWN"}

TypeOK ==
    /\ pc \in {"idle", "gate", "lookup"} \cup Exchanges
    /\ op \in {"none", "device", "sensor"}
    /\ result \in Results
    /\ info \in {"empty", "zeroed", "server"}
    /\ open \in BOOLEAN /\ models \in BOOLEAN
    /\ devices \subseteq DeviceIds
    /\ sensors \subseteq SensorIds
    /\ drivers \subseteq Types
    /\ srvDevices \in [DeviceIds -> Models \cup {NoModel}]
    /\ srvSensors \subseteq SensorIds
    /\ confirmed \subseteq Items /\ rejected \subseteq Items
    /\ pc = "post" => <<op, id>> \in Items
    /\ faults \in 0 .. MaxFaults /\ calls \in 0 .. MaxCalls
    /\ portal \in 0 .. MaxPortal /\ restarts \in 0 .. MaxRestarts

OnServer(d) == srvDevices[d] # NoModel

(* What the current call registers. *)
Item == <<op, id>>

Init ==
    /\ pc = "idle" /\ op = "none" /\ arg = <<>> /\ id = <<>>
    /\ result = "none"
    /\ info = "empty" /\ open = FALSE /\ devices = {} /\ sensors = {}
    /\ models = FALSE /\ drivers = {}
    /\ srvDevices = [d \in DeviceIds |-> NoModel] /\ srvSensors = {}
    /\ confirmed = {} /\ rejected = {}
    /\ faults = 0 /\ calls = 0 /\ portal = 0 /\ restarts = 0

-----------------------------------------------------------------------------
(* Calls. *)

Call(operation, arguments) ==
    /\ pc = "idle" /\ calls < MaxCalls
    /\ calls' = calls + 1
    /\ op' = operation /\ arg' = arguments /\ id' = <<>>
    /\ pc' = IF info = "empty" THEN "info" ELSE "gate"
    /\ UNCHANGED <<result, cache, server, past, faults, portal, restarts>>

(* rest_device_register *)
DeviceRegister ==
    \E m \in Models \cup {NoModel}, u \in Uids :
        Call("device", [model |-> m, uid |-> u])

(* rest_sensor_register, for a device id the application was given *)
SensorRegister ==
    \E y \in Types, d \in DeviceIds, u \in Uids :
        Call("sensor", [type |-> y, device |-> d, uid |-> u])

Returns(error) == pc' = "idle" /\ result' = error

Fault == faults < MaxFaults /\ faults' = faults + 1

-----------------------------------------------------------------------------
(* GATEWAY_INFO_EMPTY: rest_gatewayinfo into the instance's own cache. *)

InfoFetched ==
    /\ pc = "info"
    /\ info' = "server"
    /\ open' = GatewayOpen
    /\ devices' = {d \in DeviceIds : OnServer(d)}
    /\ sensors' = srvSensors
    /\ pc' = "gate"
    /\ UNCHANGED <<call, result, models, drivers, server, past, bounds>>

(* tcurl_read fails after gw_info was zeroed: model is 0, not -1. *)
InfoFails ==
    /\ pc = "info" /\ Fault
    /\ info' = "zeroed"
    /\ Returns("INVALID_ARGUMENT")
    /\ UNCHANGED <<call, open, devices, sensors, models, drivers, server,
                   past, calls, portal, restarts>>

(* An empty answer is no error for tcurl_read; parsing it leaves model -1. *)
InfoEmpty ==
    /\ pc = "info" /\ Fault
    /\ pc' = "gate"
    /\ UNCHANGED <<call, result, cache, server, past, calls, portal,
                   restarts>>

NotDiscoverable ==
    /\ pc = "gate" /\ ~open
    /\ Returns(IF op = "device" THEN "INVALID_ARGUMENT"
                                ELSE "NOT_DISCOVERABLE")
    /\ UNCHANGED <<call, cache, server, past, bounds>>

(* Mutant: gateway_info.discoverable is not looked at. *)
IsDiscoverableAlways ==
    /\ pc = "gate"
    /\ pc' = IF ~models THEN "model" ELSE
             IF op = "device" THEN "lookup" ELSE "device"
    /\ UNCHANGED <<call, result, cache, server, past, bounds>>

IsDiscoverable ==
    /\ pc = "gate" /\ open
    /\ pc' = IF ~models THEN "model" ELSE
             IF op = "device" THEN "lookup" ELSE "device"
    /\ UNCHANGED <<call, result, cache, server, past, bounds>>

-----------------------------------------------------------------------------
(* _gw_model_get *)

AfterModel == pc' = IF op = "device" THEN "lookup" ELSE "device"

ModelFetched ==
    /\ pc = "model"
    /\ models' = TRUE
    /\ AfterModel
    /\ UNCHANGED <<call, result, info, open, devices, sensors, drivers,
                   server, past, bounds>>

ModelFails ==
    /\ pc = "model" /\ Fault
    /\ Returns(IF op = "device" THEN "INVALID_ARGUMENT" ELSE "UNKNOWN")
    /\ UNCHANGED <<call, cache, server, past, calls, portal, restarts>>

(* An answer without deviceModels: _gw_model_parse fails, nobody asks. *)
ModelUnparsed ==
    /\ pc = "model" /\ Fault
    /\ AfterModel
    /\ UNCHANGED <<call, result, cache, server, past, calls, portal,
                   restarts>>

-----------------------------------------------------------------------------
(* rest_device_register, from _device_model_get on. *)

Known(m) == models /\ m \in Models

DeviceLookup ==
    /\ pc = "lookup"
    /\ \/ /\ ~Known(arg.model)
          /\ Returns("INVALID_ARGUMENT")
          /\ UNCHANGED id
       \/ /\ Known(arg.model) /\ arg.model \notin Discoverable
          /\ Returns("NOT_DISCOVERABLE")
          /\ UNCHANGED id
       \/ /\ Known(arg.model) /\ arg.model \in Discoverable
          /\ DeviceTemplate[arg.model] = "null"
          /\ Returns("INVALID_TYPE")
          /\ UNCHANGED id
       \/ /\ Known(arg.model) /\ arg.model \in Discoverable
          /\ DeviceTemplate[arg.model] # "null"
          /\ id' = DeviceId(arg.model, arg.uid)
          /\ IF id' \in devices
             THEN Returns("DUPLICATED")
             ELSE pc' = "post" /\ UNCHANGED result
    /\ UNCHANGED <<op, arg, cache, server, past, bounds>>

-----------------------------------------------------------------------------
(* rest_sensor_register, from _device_model_get_by_device_id on. *)

(* The server's word on the device; without it, or with a model that is    *)
(* not known, there is no device.                                          *)
SensorDevice ==
    /\ pc = "device"
    /\ LET m == srvDevices[arg.device] IN
       \/ ~Known(m) /\ Returns("INVALID_ARGUMENT")
       \/ /\ Known(m) /\ m \notin Discoverable
          /\ Returns("NOT_DISCOVERABLE")
       \/ /\ Known(m) /\ m \in Discoverable
          /\ arg.type \notin SensorTypes[m]
          /\ Returns("CURL_READ")
       \/ /\ Known(m) /\ m \in Discoverable /\ arg.type \in SensorTypes[m]
          /\ pc' = "driver" /\ UNCHANGED result
    /\ UNCHANGED <<call, cache, server, past, bounds>>

SensorDeviceFails ==
    /\ pc = "device" /\ Fault
    /\ Returns("INVALID_ARGUMENT")
    /\ UNCHANGED <<call, cache, server, past, calls, portal, restarts>>

(* The id is set and looked for among the sensors cached. *)
SensorNamed(template) ==
    /\ id' = SensorId(template, arg.type, arg.device, arg.uid)
    /\ IF id' \in sensors
       THEN Returns("DUPLICATED")
       ELSE pc' = "post" /\ UNCHANGED result

(* sensor_driver_id_template_get: from the list, or fetched and kept. *)
DriverKnown ==
    /\ pc = "driver"
    /\ SensorNamed(DriverTemplate[arg.type])
    /\ drivers' = drivers \cup {arg.type}
    /\ UNCHANGED <<op, arg, info, open, devices, sensors, models, server,
                   past, bounds>>

(* No template: only a warning, and an id of another form. *)
DriverFails ==
    /\ pc = "driver" /\ arg.type \notin drivers /\ Fault
    /\ SensorNamed("none")
    /\ UNCHANGED <<op, arg, cache, server, past, calls, portal, restarts>>

-----------------------------------------------------------------------------
(* tcurl_post and what the callers make of it. *)

Registered == IF op = "device" THEN OnServer(id) ELSE id \in srvSensors

ServerRegisters ==
    /\ ~Registered
    /\ IF op = "device"
       THEN /\ srvDevices' = [srvDevices EXCEPT ![id] = arg.model]
            /\ UNCHANGED srvSensors
       ELSE /\ srvSensors' = srvSensors \cup {id}
            /\ UNCHANGED srvDevices

(* Mutant: the cache of devices is not updated. *)
PostSucceedsUncached ==
    /\ Returns("SUCCESS")
    /\ confirmed' = confirmed \cup {Item}
    /\ UNCHANGED <<call, cache>>

(* tcurl_post returned 0: a device is added to the cache, a sensor not. *)
PostSucceeds ==
    /\ Returns("SUCCESS")
    /\ confirmed' = confirmed \cup {Item}
    /\ devices' = IF op = "device" THEN devices \cup {id} ELSE devices
    /\ UNCHANGED <<call, info, open, sensors, models, drivers>>

PostAccepted ==
    /\ pc = "post"
    /\ ServerRegisters
    /\ PostSucceeds
    /\ UNCHANGED <<rejected, bounds>>

(* The server refuses an id it has, or for a reason of its own, with a     *)
(* JSON object; tcurl_post looks for a number only and sees success.       *)
PostRejected ==
    /\ pc = "post"
    /\ \/ Registered /\ UNCHANGED faults
       \/ ~Registered /\ Fault
    /\ rejected' = rejected \cup {Item}
    /\ PostSucceeds
    /\ UNCHANGED <<server, calls, portal, restarts>>

(* Mutant: tcurl_post does not look at the answer at all. *)
PostFailsUnseen ==
    /\ pc = "post" /\ Fault
    /\ ServerRegisters \/ UNCHANGED server
    /\ PostSucceeds
    /\ UNCHANGED <<rejected, calls, portal, restarts>>

(* Mutant: the device is added to the cache before it is posted. *)
PostFailsCached ==
    /\ pc = "post" /\ Fault
    /\ ServerRegisters \/ UNCHANGED server
    /\ Returns("CURL_POST")
    /\ devices' = IF op = "device" THEN devices \cup {id} ELSE devices
    /\ UNCHANGED <<call, info, open, sensors, models, drivers, past, calls,
                   portal, restarts>>

(* A numeric code, no answer, or an answer that is lost after the server   *)
(* has registered the id.                                                  *)
PostFails ==
    /\ pc = "post" /\ Fault
    /\ ServerRegisters \/ UNCHANGED server
    /\ Returns("CURL_POST")
    /\ UNCHANGED <<call, cache, past, calls, portal, restarts>>

-----------------------------------------------------------------------------
(* The owner registers a device of this gateway on the portal. *)
PortalAdd ==
    /\ portal < MaxPortal
    /\ portal' = portal + 1
    /\ \E m \in Models, u \in Uids :
          /\ DeviceTemplate[m] # "null" /\ ~OnServer(DeviceId(m, u))
          /\ srvDevices' = [srvDevices EXCEPT ![DeviceId(m, u)] = m]
    /\ UNCHANGED <<pc, call, result, cache, srvSensors, past, faults, calls,
                   restarts>>

(* rest_cleanup, then rest_init: a new instance, nothing cached. *)
Restart ==
    /\ pc = "idle" /\ restarts < MaxRestarts
    /\ restarts' = restarts + 1
    /\ info' = "empty" /\ open' = FALSE /\ devices' = {} /\ sensors' = {}
    /\ models' = FALSE /\ drivers' = {} /\ confirmed' = {}
    /\ UNCHANGED <<pc, call, result, server, rejected, faults, calls,
                   portal>>

Next ==
    \/ DeviceRegister \/ SensorRegister
    \/ InfoFetched \/ InfoFails \/ InfoEmpty
    \/ NotDiscoverable \/ IsDiscoverable
    \/ ModelFetched \/ ModelFails \/ ModelUnparsed
    \/ DeviceLookup \/ SensorDevice \/ SensorDeviceFails
    \/ DriverKnown \/ DriverFails
    \/ PostAccepted \/ PostRejected \/ PostFails
    \/ PortalAdd \/ Restart

Spec == Init /\ [][Next]_vars

-----------------------------------------------------------------------------
(* Properties. *)

(* A device an instance registered is not posted again by that instance,   *)
(* whatever names and uids lead to its id (rest.c:757-767).                *)
DeviceNotRepeated == pc = "post" /\ op = "device" => Item \notin confirmed

(* Nothing is posted on the strength of a failed, an empty or an unparsed  *)
(* answer: the caches a registration relies on came from the server, and   *)
(* the server lets this gateway register (rest.c:719-737).                 *)
PostsOnKnowledge ==
    pc = "post" => info = "server" /\ models /\ GatewayOpen

(* A call that returned success for an id the server does not have was     *)
(* refused by the server in so many words; no other failure, retry or      *)
(* restart produces one (tcurl.c:94-118).                                  *)
ConfirmedOrRejected ==
    \A x \in confirmed \ rejected :
        IF x[1] = "device" THEN OnServer(x[2]) ELSE x[2] \in srvSensors

(* THINGPLUS_ERR_DUPLICATED is returned only for an id the server has or   *)
(* has refused: a registration whose answer was lost can be tried again    *)
(* (rest.c:757, 696).                                                      *)
DuplicateIsKnown ==
    pc = "idle" /\ result = "DUPLICATED" => Item \in rejected \/ Registered
=============================================================================
