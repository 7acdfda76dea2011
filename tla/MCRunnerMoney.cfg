SPECIFICATION Spec
CONSTANTS
  v1 = v1
  v2 = v2
  l1 = l1
  Task <- MoneyTask
  Queue <- MoneyQueue
  Line <- MoneyLine
  Worker <- MoneyWorker
  Serves <- MoneyServes
  Loops <- MoneyLoops
  WorstMicros <- MoneyWorst
  WorstTokens <- MoneyTokens
  Usages <- MoneyUsages
  Ceilings = {3, 4}
  TokenCeilings = {3, 4}
  Priors <- MoneyPriors
  Cent = 3
  MaxClicks = 0
  MaxFaults = 0
INVARIANTS
  TypeOK
  ReservedIsInFlight
  CeilingHolds
  TokenCeilingHolds
  NothingNewStarts
  EachTaskOnce
  CentsAddUp
PROPERTIES
  RunEnds
CHECK_DEADLOCK FALSE
