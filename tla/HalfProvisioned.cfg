SPECIFICATION Spec
CONSTANTS
  MaxAttempts = 2
  LucLimit = 6
  Capacity = 3
  MaxWallets = 1
  MaxCuts = 1
  MaxFaults = 0
  Faults <- NoFaults
  SafePoints = {"setupUnlock"}
  UserIdDeletable = TRUE
INVARIANTS ProvisionedIsComplete
