CONSTANTS
  Near = 5
  Slack = 2
  Closing = {","}
  Opening = {"("}
  Places <- MCPlaces
  Left = 3
  Width = 10
  Scale = 2
  Still = 4
  MinCrop = 8
  FullAnswers <- MCFullAnswers
  CropAnswers <- MCCropAnswers
  Typed <- MCTyped
  MaxPresses = 2
  MaxJobs = 3
  MaxEdits = 1
SPECIFICATION Spec
INVARIANTS RangeFitsSource DragSelectsBetween LastUsableCropKept
PROPERTIES DoubleClickRestores
CHECK_DEADLOCK FALSE
