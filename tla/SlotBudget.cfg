CONSTANTS
  N = 4
  Slots = {0, 1}
  MaxDistinct = 1
  MaxUses = 3
  MaxGap = 2
  MaxCuts = 1
  MaxFaults = 2
  TornErases = TRUE
SPECIFICATION Spec
INVARIANTS Budget TallyCovers GapBound NeverWedged CountedBeforeRelease
