SPECIFICATION Spec
CONSTANTS
  v1 = v1
  v2 = v2
  l1 = l1
  Task <- BoardTask
  Queue <- BoardQueue
  Line <- BoardLine
  Worker <- BoardWorker
  Serves <- BoardServes
  Loops <- BoardOnes
  WorstMicros <- BoardOnes
  WorstTokens <- BoardOnes
  Usages <- BoardUsages
  Ceilings = {4}
  TokenCeilings = {0}
  Priors <- BoardPriors
  Cent = 3
  MaxClicks = 2
  MaxFaults = 1
INVARIANTS
  ChargeBookedOnce
  DraftMatchesOutcome
PROPERTIES
  BlockIsAnOrder
CHECK_DEADLOCK FALSE
