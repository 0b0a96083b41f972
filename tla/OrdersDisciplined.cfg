SPECIFICATION DisciplinedSpec

CONSTANTS
  None = None
  Undefined = Undefined
  RequestDriver = {d1}
  Survey = {s1, s2, s3, s4}
  Order = {o1, o2}
  Driver = {d1}
  Start = {t1}
  Caller = {c1}
  SurveyOps = {"remove"}
  Failures = {}
  Fleet = {f1}
  Customer = {k1}
  Day = {1, 2, 3}
  Duration = {2}
  Today = 1
  Total = {1}
  Invoice = {i1}
  Worker = {w1, w2}
  Job = {}
  Ops = {"create_customer", "update", "reject"}
  PgMoves = {}

SYMMETRY Interchangeable
INVARIANTS
  NoDoubleBooking
PROPERTIES
  BookingsAreACalendar
CHECK_DEADLOCK FALSE
