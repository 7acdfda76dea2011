SPECIFICATION Spec
CONSTANTS
  p1 = p1
  p2 = p2
  Proc = {p1, p2}
  Deliverable <- PairDeliverable
  Option <- PairOption
  Of <- PairOf
  Class <- PairClass
  Summary <- PairSummary
  Place <- PairPlace
  Figure <- PairFigure
  AnomalyOf <- PairAnomalyOf
  OwnerOf <- PairOwnerOf
  Excess <- PairExcess
  TAnomaly = 2
  MaxBusy = 2
  MaxClicks = 0
  MaxFails = 1
SYMMETRY Handlers
INVARIANTS
  AppliedHasActed
  SomebodyWins
PROPERTIES
  PassHandlesAll
  ContradictionIsAsked
CHECK_DEADLOCK FALSE
