-------------------------- MODULE MCOverlaySelection --------------------------
(* Values for model-checking OverlaySelection. *)
EXTENDS OverlaySelection, TLC

Box(left, right) == [left |-> left, right |-> right]
Symbol(left, right, text) == Box(left, right) @@ [text |-> text]
Word(left, right, text, symbols) == Symbol(left, right, text) @@ [symbols |-> symbols]

(* `re` with its symbols, `al` without. *)
FullLayout ==
  <<Word(0, 8, <<"r", "e">>, <<Symbol(0, 4, <<"r">>), Symbol(4, 8, <<"e">>)>>),
    Word(10, 14, <<"a", "l">>, <<>>)>>

(* `real` in two symbols, or a part of it in one. *)
CropLayout ==
  <<Word(0, 8, <<"r", "e", "a", "l">>,
         <<Symbol(0, 4, <<"r", "e">>), Symbol(4, 8, <<"a", "l">>)>>)>>
OtherLayout == <<Word(4, 8, <<"a", "l">>, <<Symbol(4, 8, <<"a", "l">>)>>)>>

MCFullAnswers == {FullLayout}
MCCropAnswers == {<<>>, CropLayout, OtherLayout}

(* On `r`, on `e`, on `al` and beside the image. *)
MCPlaces == {4, 6, 10, 14}
MCTyped == <<"x">>
=============================================================================
