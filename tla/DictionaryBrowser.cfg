CONSTANTS
  Root = Root
  None = None
  Gone = Gone
  Lost = Lost
  animals = animals
  plants = plants
  cat = cat
  dog = dog
  feline = feline
  mouser = mouser
  FolderIds <- TwoFolders
  EntryIds <- TwoEntries
  DescriptionIds <- TwoDescriptions
  FirstPlaces <- ItemsAtRoot
  FirstOwners <- CatIsFeline
  Views = 1
  MaxLoads = 1
  MaxWrites = 1
  MaxDepth = 2
SPECIFICATION Spec
INVARIANTS DescriptionsOfOpenEntry ShownAtRest SubjectKept
CHECK_DEADLOCK FALSE
