SPECIFICATION Spec
CONSTANTS
  p1 = p1
  p2 = p2
  Proc = {p1, p2}
  Analyst = {"sup", "partner", "ana"}
  Desk = {"aws", "gcp"}
  Person = {"tania", "bo"}
  Task = {"t"}
  Supervisor = "sup"
  Partner <- MCPartner
  InitRoster <- MCRoster
  InitTask <- MCTask
  Copies = 2
  MaxBusy = 2
  MaxOps = 3
  MaxFails = 1
SYMMETRY Handlers
INVARIANTS
  TypeOK
  WorkIsAnsweredFor
  NobodyWorksForAGhost
  ChainIsWhole
  StampAndTaskAgree
  BooksStayPut
  HaltRemembers
PROPERTIES
  LiftSparesOthers
  AskedMovesMakeNoLoop
CHECK_DEADLOCK FALSE
