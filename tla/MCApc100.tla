------------------------------ MODULE MCApc100 ------------------------------
(* Apc100 for model checking.                                              *)
EXTENDS Apc100
=============================================================================
