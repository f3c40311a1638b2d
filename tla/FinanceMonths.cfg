SPECIFICATION Spec
CONSTANTS
  Enrollment = {a}
  Months = 2
  Price = 2
  FirstDay = 1
  LastDay = 2
  Closable = {0}
  MaxAmount = 2
  MaxEntries = 3
  MaxCharges = 3
INVARIANTS
  ChargeStatusAgrees
  OneLiveInstallment
PROPERTIES
  ReversalsAreExact
  ClosedMonthsAreSealed
  WithdrawalReturnsPayments
  GrantClearsTheFuture
CHECK_DEADLOCK FALSE
