SPECIFICATION SurveysSpec

CONSTANTS
  None = None
  Undefined = Undefined
  RequestDriver = {d1}
  Survey = {s1, s2}
  Order = {o1}
  Driver = {d1, d2}
  Start = {t1}
  Caller = {c1}
  SurveyOps = {"create", "update", "redate", "retype"}
  Failures = {}

INVARIANTS
  DriverWasTold
CHECK_DEADLOCK FALSE
