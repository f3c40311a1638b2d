SPECIFICATION Spec
CONSTANTS
  Enrollment = {a, b}
  Months = 2
  Price = 2
  FirstDay = 2
  LastDay = 2
  Closable = {}
  MaxAmount = 2
  MaxEntries = 3
  MaxCharges = 3
INVARIANTS
  TypeOK
  NoEntryOverspent
  WalletIsExact
PROPERTIES
  PaymentLandsOnTargets
  CreditLandsInFull
CHECK_DEADLOCK FALSE
