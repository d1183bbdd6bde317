SPECIFICATION Spec
CONSTANTS
  Profiles <- MCProfiles
  NameMatches <- MCNameMatches
  Colors <- MCColors
  MaxDepth = 2
  Caps <- MCCaps
  Files = {"cube.gcode", "cube.3mf"}
  GcodeFiles = {"cube.gcode"}
  Cap = 1
  MaxSeconds = 1
  Printers <- MCPrinters
  Scripts <- MCScripts
  MaxCalls = 1
  Temps <- MCTemps
  Percents <- MCPercents
  Targets <- MCTargets
  Speeds <- MCLevels
  FilamentArgs <- MCFilamentArgs
INVARIANTS
  AnswerIsOwn
  AMSDetected
  WithinLimits
  ResolvedIsNearest
CHECK_DEADLOCK FALSE
