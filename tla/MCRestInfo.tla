----------------------------- MODULE MCRestInfo -----------------------------
(* RestInfo for model checking.                                           *)
EXTENDS RestInfo
=============================================================================
