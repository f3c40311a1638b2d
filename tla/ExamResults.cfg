SPECIFICATION Spec
CONSTANTS
  NoWorker = NoWorker
  NoResult = NoResult
  Result = {x}
  Worker = {w1, w2}
  MaxScore = 2
  MaxAttempts = 2
  LeaseDuration = 2
  Delay = 3
  TransportDeadline = 1
  Backoff <- MCBackoff
  BatchSize = 2
  ClaimWindow = 1
  MaxEdits = 3
  MaxFaults = 1
SYMMETRY Owners
INVARIANTS
  TypeOK
  HandedOverOnce
  OneCardAtATime
  SentMeansShown
  NoEditIsDropped
  ReleaseNeverCollides
