SPECIFICATION Spec

CONSTANTS
  None = None
  Undefined = Undefined
  RequestDriver = {d1}
  Survey = {s1, s2}
  Order = {o1}
  Driver = {d1}
  Start = {t1}
  Caller = {c1}
  SurveyOps = {"remove", "log", "lead"}
  Failures = {}
  Fleet = {f1}
  Customer = {k1, k2}
  Day = {1}
  Duration = {1}
  Today = 1
  Total = {1, 2}
  Invoice = {i1, i2}
  Worker = {w1}
  Job = {j1}
  Ops = {"create_customer", "create_admin", "update", "accept", "reject", "remove"}
  PgMoves = {"paid", "overdue"}

ACTION_CONSTRAINT OneAtATime
SYMMETRY Interchangeable
INVARIANTS
  TypeOK
  LogTellsStatus
  RequestsFollowOrder
  InvoicesMatchOrders
  LedgerMatchesOrders
PROPERTIES
  SurveysAreServed
CHECK_DEADLOCK FALSE
