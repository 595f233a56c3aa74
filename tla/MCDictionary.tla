----------------------------- MODULE MCDictionary -----------------------------
(* Values for model-checking Dictionary. *)
EXTENDS Dictionary, TLC

CONSTANTS cat, dog, animals

Empty == [folders |-> <<>>, entries |-> <<>>, senses |-> <<>>, descriptions |-> <<>>,
          activity |-> 0]

NestedFolders ==
  LET one == WithFolder(WithRoot(Empty), Root, animals)
      two == WithFolder(one, <<animals>>, animals)
  IN WithEntry(two, cat, <<animals>>)

(* An Entry that was changed under its ID, one with a Sense, and its       *)
(* Descriptions in and out of it.                                          *)
WithSenses ==
  LET root == WithRoot(Empty)
      two == WithEntry(WithEntry(root, cat, Root), dog, Root)
      changed == [two EXCEPT !.entries[<<dog, Root>>].text = cat]
      sense == WithSense(changed, 1, <<cat, Root>>)
  IN WithDescriptions(WithDescription(sense, 2, <<cat, Root>>, 1), {3}, <<cat, Root>>, None)

SomeDatabases == {Empty, NestedFolders, WithSenses}
SlotSymmetry == Permutations(Slots)
NewFolderNames == {animals, RootName}
=============================================================================
