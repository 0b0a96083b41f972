SPECIFICATION AccountsSpec

CONSTANTS
  None = None
  User = {u1, u2}
  Email = {e1}
  Name = {n1}
  Password = {p1, p2}
  Token = {t1}
  Push = {k1}
  Device = {d1, d2}
  Request = {r1, r2}
  e1 = e1
  n1 = n1
  p1 = p1
  p2 = p2
  Dtos <- SomeDtos

SYMMETRY InterchangeableRequests
INVARIANTS
  AccountsTypeOK
  SessionDeviceIsOwn
PROPERTIES
  PasswordIsAsked
  RemovedStaysRemoved
CHECK_DEADLOCK FALSE
