SPECIFICATION ReadsSpec

CONSTANTS
  None = None
  Order = {o1}
  Survey = {s1}
  Handler = {h1}
  Reader = {r1, r2}
  Row = {1, 2, 3, 4, 5}
  Limit = {1, 2, 3}
  MaxChanges = 3
  Absent = Absent
  Customer = {k1, k2}
  Fleet = {f1, f2}
  FleetPrice = {1, 2}
  PriceDto <- SomeBodies
  WEEKEND_PRICE <- SomeWeekendPrices
  OUT_OF_TOWN_FEE <- SomeFees
  DRIVER_FEE_IN_TOWN = 1
  DRIVER_FEE_OUT_TOWN = 2
  TAX_RATE = 250

INVARIANTS
  CountsTypeOK
  StaleForAReason
  PagesTypeOK
  MissedAtMostLeft
  RepeatedAtMostEntered
  PricesTypeOK
  InvoiceTellsRow
  ExtensionsAreTaken
PROPERTIES
  StaleCountsEnd
  WalkEnds
  TotalNeverFalls
CHECK_DEADLOCK FALSE
