SPECIFICATION FairSpec
CONSTANTS
  NoWorker = NoWorker
  NoResult = NoResult
  Result = {x}
  Worker = {w1, w2}
  MaxScore = 2
  MaxAttempts = 2
  LeaseDuration = 1
  Delay = 0
  TransportDeadline = 1
  Backoff <- MCBackoff
  BatchSize = 2
  ClaimWindow = 1
  MaxEdits = 2
  MaxFaults = 2
PROPERTIES
  DeadClaimsAreReleased
