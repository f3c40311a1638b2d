SPECIFICATION Spec
CONSTANTS
  ann = ann
  p1 = p1
  p2 = p2
  alice = alice
  bob = bob
  may = may
  t1 = t1
  t2 = t2
  Clerk = {ann}
  Payload = {p1, p2}
  Student = {alice, bob}
  Month = {may}
  StudentOf <- PayerOf
  MonthOf <- DatedIn
  Tx = {t1, t2}
  Report = {r1, r2}
  None = None
  MaxSubmits = 2
  MaxClosings = 1
  MaxFaults = 1
SYMMETRY Symmetry
INVARIANTS
  TypeOK
  PaidOnce
  ReportsAreCurrent
PROPERTIES
  NothingEntersAClosedMonth
CHECK_DEADLOCK FALSE
