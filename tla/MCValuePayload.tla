--------------------------- MODULE MCValuePayload ---------------------------
(* ValuePayload with two texts, each at two addresses.                     *)
EXTENDS ValuePayload
=============================================================================
