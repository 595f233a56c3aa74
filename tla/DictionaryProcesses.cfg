SPECIFICATION Spec
CONSTANTS
  cat = cat
  dog = dog
  animals = animals
  Names = {animals}
  Words = {cat, dog}
  RootName = RootName
  None = None
  Slots = {s1, s2}
  Databases <- SomeDatabases
  NewNames <- NewFolderNames
  MaxDepth = 2
  MaxReviewed = 2
  MaxStarts = 3
  MaxFailures = 1
SYMMETRY SlotSymmetry
INVARIANTS DescriptionsFitSenses NothingLeftOpen
PROPERTIES SaveCounted CommandAtomic
