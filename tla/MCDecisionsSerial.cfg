SPECIFICATION Spec
CONSTANTS
  p1 = p1
  p2 = p2
  Proc = {p1}
  Deliverable <- SerialDeliverable
  Option <- SerialOption
  Of <- SerialOf
  Class <- SerialClass
  Summary <- SerialSummary
  Place <- SerialPlace
  Figure <- SerialFigure
  AnomalyOf <- SerialAnomalyOf
  OwnerOf <- SerialOwnerOf
  Excess <- SerialExcess
  TAnomaly = 2
  MaxBusy = 1
  MaxClicks = 2
  MaxFails = 0
INVARIANTS
  TypeOK
  RequestOpenWhileAsked
PROPERTIES
  ImplementsChoice
  ReachesADesk
CHECK_DEADLOCK FALSE
