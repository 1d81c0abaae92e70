SPECIFICATION FairSpec
CONSTANTS
  MaxAttempts = 2
  LucLimit = 4
  Capacity = 3
  MaxWallets = 2
  MaxCuts = 2
  MaxFaults = 2
  Faults = {"flash", "torn", "unlock", "setup", "wipe", "e120", "silent", "query"}
  SafePoints <- NoSafePoints
  UserIdDeletable = TRUE
INVARIANTS IndInv GuessBudget OpenIsVerified
PROPERTIES ResetEarned ImplementsBudget WipeFinishes UnusableWalletGoes
