SPECIFICATION Spec
CONSTANTS
  c1 = c1
  c2 = c2
  blank = blank
  raw = raw
  clean = clean
  Cell = {c1, c2}
  Value = {blank, raw, clean}
  Blank = blank
  NoValue = NoValue
  Sanitized <- Sanitizer
  Slot = {s1}
  BatchLimit = 2
  MaxRetries = 1
  MaxActs = 3
  MaxForeign = 1
  MaxFaults = 1
INVARIANTS
  TypeOK
  EditsAreKept
  AcknowledgedIsStored
  GridShowsTheMark
PROPERTIES
  NoBlindOverwrite
SYMMETRY Symmetry
CHECK_DEADLOCK FALSE
