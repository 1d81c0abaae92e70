CONSTANTS
  Versions = {1, 2, 3}
  LogCapacity = 6
  Factory = 1
  Chunks = 1
  HangEarly = {}
  HangLate = {2}
  MaxCuts = 1
  MaxFaults = 1
SPECIFICATION FairSpec
INVARIANTS AlwaysBootable NoSilentDowngrade UpdateEffective FallbackEarned ProbationBound
PROPERTIES Recovers
