SPECIFICATION FairSpec
CONSTANTS
  NoWorker = NoWorker
  NoResult = NoResult
  Result = {x, y}
  Worker = {w1, w2}
  MaxScore = 1
  MaxAttempts = 2
  LeaseDuration = 2
  Delay = 3
  TransportDeadline = 1
  Backoff <- MCBackoff
  BatchSize = 2
  ClaimWindow = 1
  MaxEdits = 2
  MaxFaults = 1
PROPERTIES
  EveryRowCloses
