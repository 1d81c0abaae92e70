SPECIFICATION Spec
CONSTANTS
  MaxAttempts = 2
  LucLimit = 6
  Capacity = 3
  MaxWallets = 2
  MaxCuts = 1
  MaxFaults = 3
  Faults = {"unlock", "setup", "torn", "wipe", "e120", "delete", "query"}
  SafePoints <- NoSafePoints
  UserIdDeletable = FALSE
INVARIANTS WipeAccounted
PROPERTIES FlagLoweredOnConfirmation
