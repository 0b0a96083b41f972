SPECIFICATION Spec

CONSTANTS
  None = None
  Undefined = Undefined
  RequestDriver = {d1}
  Survey = {s1, s2}
  Order = {o1}
  Driver = {d1}
  Start = {t1}
  Caller = {c1}
  SurveyOps = {}
  Failures = {}
  Fleet = {f1}
  Customer = {k1}
  Day = {1}
  Duration = {1}
  Today = 1
  Total = {1}
  Invoice = {i1}
  Worker = {w1, w2}
  Job = {}
  Ops = {"create_customer", "accept", "reject"}
  PgMoves = {}

SYMMETRY Interchangeable
PROPERTIES
  AcceptedNeverRejected
CHECK_DEADLOCK FALSE
