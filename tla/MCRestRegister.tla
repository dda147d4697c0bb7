--------------------------- MODULE MCRestRegister ---------------------------
(* RestRegister on a gateway model with one device model of every kind of  *)
(* id template, one of them not discoverable.                              *)
EXTENDS RestRegister

ModelSet == {"counter", "camera", "lamp", "hub", "relay"}
DeviceTemplates ==
    [m \in ModelSet |-> CASE m = "counter" -> "address"
                          [] m = "camera"  -> "gateway"
                          [] m = "lamp"    -> "null"
                          [] OTHER         -> "fixed"]
DiscoverableSet == ModelSet \ {"relay"}
SensorTypeSets ==
    [m \in ModelSet |-> CASE m = "counter" -> {"number", "onoff"}
                          [] m = "camera"  -> {"image"}
                          [] OTHER         -> {}]
DriverTemplates ==
    [y \in {"number", "onoff", "image"} |->
        CASE y = "number" -> "type"
          [] y = "image"  -> "gateway"
          [] OTHER        -> "device"]
UidSet == {0, 1}
=============================================================================
