SPECIFICATION FairSpec
CONSTANTS
  Subs = {s1}
  Handlers = {h1, h2}
  Callers = {c1}
  Cap = 1
  Messages <- MCMessages
  MaxMsgs = 3
  MaxCommands = 1
  SerialModel = ""
  Printer = "C13"
  BedCap <- MCBedCap
  ChamberCap <- MCChamberCap
  Temps <- MCTemps
INVARIANTS
  NeverPanics
  ModelIsLastTold
  KnownTemperatureSafe
PROPERTIES
  NeverBackwards
  EventuallyCurrent
CHECK_DEADLOCK FALSE
