CONSTANTS
  Providers = {"openai", "groq"}
  BundledModels <- MCBundled
  Strangers = {"other"}
  Types = {"definition", "example", "misc"}
  SenseLimit = 2
  MaxRetries = 2
  ForeignFiles <- MCFiles
  Upstreams <- MCUpstreams
  Asks <- MCAsks
  Models <- MCModels
  Values <- MCValues
SPECIFICATION Spec
INVARIANTS CatalogSurvives RefreshWorks FailureNamesLast AnswerKeepsPromise
PROPERTIES FailedRefreshKeepsCache
CHECK_DEADLOCK FALSE
