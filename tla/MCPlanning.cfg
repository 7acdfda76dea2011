SPECIFICATION Spec
CONSTANTS
  Analyst = {1, 2, 3, 4}
  Desk = {"aws", "gcp"}
  Skill = {"triage", "modelling"}
  Anomaly = {1, 2}
  Task = {1, 2, 3}
  Request = {1}
  Supervisor = 4
  Management = "management"
  TriageSkill = "triage"
  NoEngine = "none"
  AnomalyLimit = 6
  BlockedLimit = 3
  FlatGuard = 15
  ReworkGuard = 1
  Brief <- MCBrief
  Triage <- MCTriage
  Prefers <- MCPrefers
  Size <- MCSize
  Source <- MCSource
  Holder <- MCHolder
  Home <- MCHome
  Browser = {b1, b2}
  Runner = {r1, r2}
  InitWorld <- MCInitWorld
  NextWorlds <- MCNextWorlds
  Goals <- MCGoals
  Answers <- MCAnswers
  Today = 14
  Priced <- MCPriced
  Worst <- MCWorst
  Cap = 5
  Ceilings = {4, 5}
  AskWorst = 2
  AskCost = 1
  MaxStarts = 3
  MaxSprints = 2
  MaxMoves = 1
  MaxAsks = 1
  MaxSettings = 1
SYMMETRY Alike
INVARIANTS
  TypeOK
  LabelOnce
  ModelCostsNoMore
  MovedWorkStaysOnTheDesk
  AskIsBooked
PROPERTIES
  DueObeysThePage
CHECK_DEADLOCK FALSE
