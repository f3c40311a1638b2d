SPECIFICATION FairSpec
CONSTANTS
  e1 = e1
  e2 = e2
  NoWorker = NoWorker
  NoEvent = NoEvent
  Event = {e1, e2}
  Worker = {w1}
  KindOf <- EmailAndNotification
  MaxAttempts = 2
  LeaseDuration = 3
  MinLeaseRemaining = 2
  TransportDeadline = 1
  TimeToLive = 2
  Backoff <- MCBackoff
  BatchSize = 1
  MaxFaults = 1
PROPERTIES
  EveryEventCloses
