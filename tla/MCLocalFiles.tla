----------------------------- MODULE MCLocalFiles -----------------------------
(* Values for model-checking LocalFiles. *)
EXTENDS LocalFiles
=============================================================================
