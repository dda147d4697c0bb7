------------------------ MODULE MCDeviceManagement ------------------------
(* DeviceManagement for model checking.                                    *)
EXTENDS DeviceManagement
=============================================================================
