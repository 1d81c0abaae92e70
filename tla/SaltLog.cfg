CONSTANTS
  N = 7
  MaxSalts = 3
  MaxCuts = 2
  MaxFaults = 1
SPECIFICATION Spec
INVARIANTS OneRecord NothingLeft
PROPERTIES ProgramsBlankOnly FlagBeforeSalt ImplementsSaltCell
