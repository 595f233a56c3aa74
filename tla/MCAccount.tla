------------------------------- MODULE MCAccount -------------------------------
(* Values for model-checking Account. *)
EXTENDS Account, TLC
=============================================================================
