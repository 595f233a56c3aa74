-------------------------- MODULE MCDictionaryBrowser --------------------------
(* Values for model-checking DictionaryBrowser. *)
EXTENDS DictionaryBrowser, TLC

CONSTANTS animals, plants, cat, dog, feline, mouser

TwoFolders == <<animals, plants>>
TwoEntries == <<cat, dog>>
TwoDescriptions == <<feline, mouser>>
ItemsAtRoot == animals :> Root @@ cat :> Root
CatIsFeline == feline :> cat
=============================================================================
