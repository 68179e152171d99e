SPECIFICATION Spec
CONSTANTS
  p1 = p1
  p2 = p2
  Process = {p1, p2}
  Emits <- MCTwoEvents
  Every = 1
  Mixtures <- MCMixtures
  Strays <- MCStrays
  MaxCommands = 4
  MaxKills = 2
SYMMETRY MCSymmetry
INVARIANTS
  AloneIsExact
  SomebodyFinishes
CHECK_DEADLOCK FALSE
