-------------------------- MODULE MCOverlayWorkspace --------------------------
(* Values for model-checking OverlayWorkspace. *)
EXTENDS OverlayWorkspace

CONSTANTS definition, word, gloss

RememberedState == [instruction |-> gloss, types |-> {definition}]
DefinitionOnly == {definition}
OneText == {word}
TwoTexts == {Blank, word}
FreshState == [instruction |-> Blank, types |-> {definition}]
AllTexts == {Blank, word, gloss}
AllStates == LocalStates
=============================================================================
