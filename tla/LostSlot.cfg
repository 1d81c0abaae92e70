CONSTANTS
  N = 4
  Slots = {0, 1}
  MaxDistinct = 1
  MaxUses = 3
  MaxGap = 2
  MaxCuts = 1
  MaxFaults = 0
  TornErases = FALSE
SPECIFICATION Spec
INVARIANT LostSlotRotates
