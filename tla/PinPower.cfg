SPECIFICATION Spec
CONSTANTS
  MaxAttempts = 3
  LucLimit = 8
  Capacity = 4
  MaxWallets = 2
  MaxCuts = 2
  MaxFaults = 2
  Faults = {"unlock"}
  SafePoints <- SetupHolds
  UserIdDeletable = TRUE
INVARIANTS NoChipLocksFirst ReconcileTrusts FreshStart ProvisionedIsComplete
PROPERTIES OnlySpentWalletsAreWiped
