SPECIFICATION Spec
CONSTANTS
  NoTeam = 0
  Anywhere = "*"
  PerCent = 10
  Importer = {i1, i2}
  Closer = {c1, c2}
  Path = {1, 2, 3, 11, 12}
  MainPath = {1, 2}
  DoorPath = {3}
  Offers <- MCOffers
  Export = {"old", "new", "again", "door"}
  Bill = {"bill", "fix"}
  Unreadable = {"half", "part"}
  Calls <- MCCalls
  Lines <- MCLines
  Door <- MCDoor
  Generation <- MCGeneration
  Day = {1, 2}
  Category = {"Usage", "Purchase", "Tax", "Credit"}
  InitFolder <- MCInitFolder
  InitLedger <- MCInitLedger
  InitRules <- MCInitRules
  Absent = "absent"
  NoAgent = 0
  NoTx = NoTx
  MaxStarts = 5
SYMMETRY Alike
INVARIANTS
  TypeOK
  EachCallStandsOnce
  LedgerIsTheRows
  RevisionReplacesUnlessTwin
  TheBooksAddUp
PROPERTIES
  FrozenStays
CHECK_DEADLOCK FALSE
