SPECIFICATION Spec

CONSTANTS
  None = None
  Undefined = Undefined
  RequestDriver = {d1}
  Survey = {s1, s2, s3, s4}
  Order = {o1, o2}
  Driver = {d1}
  Start = {t1}
  Caller = {c1}
  SurveyOps = {}
  Failures = {"handler", "gateway", "callback"}
  Fleet = {f1, f2}
  Customer = {k1, k2}
  Day = {1}
  Duration = {1}
  Today = 1
  Total = {1}
  Invoice = {i1, i2}
  Worker = {w1}
  Job = {j1}
  Ops = {"create_admin", "update"}
  PgMoves = {"paid"}

SYMMETRY Interchangeable
INVARIANTS
  DonePaid
  ExternalBelongs
  UnfinishedOrdersCount
CHECK_DEADLOCK FALSE
