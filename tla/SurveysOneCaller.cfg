SPECIFICATION FairSurveysSpec

CONSTANTS
  None = None
  Undefined = Undefined
  RequestDriver = {d1, None}
  Survey = {s1, s2}
  Order = {o1}
  Driver = {d1}
  Start = {t1}
  Caller = {c1}
  SurveyOps = {"create", "update", "remove", "log", "lead"}
  Failures = {"survey"}

INVARIANTS
  SurveysTypeOK
  
  ProgressNotNegative
  LogsNeverAhead
PROPERTIES
  StatusNeverGoesBack
  StandaloneSurveyEnds
CHECK_DEADLOCK FALSE
