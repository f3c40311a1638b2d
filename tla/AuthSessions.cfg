SPECIFICATION Spec
CONSTANTS
  Tab = {t1, t2}
  Request = {q1, q2}
  None = None
  MaxTokens = 4
  MaxEndings = 1
  MaxFaults = 1
SYMMETRY Symmetry
INVARIANTS
  TypeOK
  SessionIsKept
  OnlyTheLastPassword
CHECK_DEADLOCK FALSE
