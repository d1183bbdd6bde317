SPECIFICATION FairSpec
CONSTANTS
  Loop = loop
  Syncers = {hourly, refresh}
  Hourly = hourly
  Reports <- MCReports
  Models = {"C11", "C12", "O1D"}
  Heated = {"O1D"}
  Printers <- MCPrinters
  FileLists = {nofiles, somefiles}
  NoFiles = nofiles
  FirstLists = {somefiles}
  FirstUp = {TRUE}
  Delta = 2
  None = none
  MaxInputs = 1
  MaxFaults = 1
INVARIANTS
  ShownIsClose
  TopicsAgree
PROPERTY Converges
CHECK_DEADLOCK FALSE
