CONSTANTS
  Timeout = 2
  Grace = 1
  Defer = 2
  DeferUi = 1
  SessionCap = 2
SPECIFICATION Spec
INVARIANTS OneHandler SessionStable SessionEnds ForcedOnce RateCap
PROPERTIES ExpiredNotRevived
