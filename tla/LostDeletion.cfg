SPECIFICATION FairSpec
CONSTANTS
  MaxAttempts = 2
  LucLimit = 6
  Capacity = 3
  MaxWallets = 1
  MaxCuts = 0
  MaxFaults = 1
  Faults = {"delete"}
  SafePoints <- SetupHolds
  UserIdDeletable = TRUE
PROPERTIES WipeFinishes
