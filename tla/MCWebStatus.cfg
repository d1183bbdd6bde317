SPECIFICATION FairSpec
CONSTANTS
  Streams = {a, b}
  Fetchers = {f1, f2}
  Jobs = {"_foo", "bar"}
  Names = {"_foo", "foo", "bar"}
  Candidates <- MCCandidates
  Sanitized <- MCSanitized
  Scenarios <- MCScenarios
  Keys = {"ams"}
  MaxRetries = 1
  MaxCloses = 1
  None = none
INVARIANTS
  PagesFollow
  DownloadShownWhileFetching
PROPERTIES
  SomePageCurrent
  FetchesWithinBudget
CHECK_DEADLOCK FALSE
