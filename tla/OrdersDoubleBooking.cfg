SPECIFICATION Spec

CONSTANTS
  None = None
  Undefined = Undefined
  RequestDriver = {d1}
  Survey = {s1, s2, s3, s4}
  Order = {o1, o2}
  Driver = {d1}
  Start = {t1}
  Caller = {c1}
  SurveyOps = {}
  Failures = {}
  Fleet = {f1}
  Customer = {k1}
  Day = {1, 2}
  Duration = {1, 2}
  Today = 1
  Total = {1}
  Invoice = {i1}
  Worker = {w1, w2}
  Job = {}
  Ops = {"create_customer"}
  PgMoves = {}

SYMMETRY Interchangeable
INVARIANTS
  NoDoubleBooking
CHECK_DEADLOCK FALSE
