---------------------------- MODULE MCOverlayDraft ----------------------------
(* Values for model-checking OverlayDraft. *)
EXTENDS OverlayDraft

CONSTANTS definition, word

OneStored == {[instruction |-> word, types |-> {definition}]}
DefinitionOnly == {definition}
OneText == {word}
BothTexts == {Blank, word}
=============================================================================
