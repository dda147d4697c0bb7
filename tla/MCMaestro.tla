----------------------------- MODULE MCMaestro -----------------------------
(* Maestro for model checking.                                            *)
EXTENDS Maestro
=============================================================================
