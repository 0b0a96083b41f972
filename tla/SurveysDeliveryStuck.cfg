SPECIFICATION FairSurveysSpec

CONSTANTS
  None = None
  Undefined = Undefined
  RequestDriver = {d1}
  Survey = {s1, s2}
  Order = {o1}
  Driver = {d1}
  Start = {t1}
  Caller = {c1}
  SurveyOps = {"log", "lead"}
  Failures = {}

PROPERTIES
  DeliveryEnds
CHECK_DEADLOCK FALSE
