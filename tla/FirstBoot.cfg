SPECIFICATION FairSpec
CONSTANTS
  PageQws = 20
  MaxCuts = 2
  MaxFaults = 2
INVARIANTS Recoverable ReadyIsFinal
PROPERTIES ImplementsCeremony Finishes
