------------------------------ MODULE MCOcrSession ------------------------------
(* Values for model-checking OcrSession. *)
EXTENDS OcrSession, TLC
=============================================================================
