SPECIFICATION SerialSpec

CONSTANTS
  None = None
  Undefined = Undefined
  RequestDriver = {d1}
  Survey = {s1, s2, s3, s4}
  Order = {o1, o2}
  Driver = {d1}
  Start = {t1}
  Caller = {c1}
  SurveyOps = {}
  Failures = {}
  Fleet = {f1}
  Customer = {k1, k2}
  Day = {1, 2}
  Duration = {1, 2}
  Today = 1
  Total = {1}
  Invoice = {i1}
  Worker = {w1}
  Job = {}
  Ops = {"create_admin", "update"}
  PgMoves = {"paid"}

SYMMETRY Interchangeable
PROPERTIES
  PaidInvoiceIsKept
CHECK_DEADLOCK FALSE
