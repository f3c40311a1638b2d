SPECIFICATION Spec
CONSTANTS
  e1 = e1
  e2 = e2
  NoWorker = NoWorker
  NoEvent = NoEvent
  Event = {e1}
  Worker = {w1, w2}
  KindOf <- OneDebt
  MaxAttempts = 2
  LeaseDuration = 4
  MinLeaseRemaining = 2
  TransportDeadline = 1
  TimeToLive = 6
  Backoff <- MCBackoff
  BatchSize = 2
  MaxFaults = 4
SYMMETRY Owners
INVARIANTS
  TypeOK
  PendingIsClaimable
  SendsAreCounted
  OneTransportAtATime
  LatenessIsBounded
  PayloadPurgedOnClose
  NothingOvertakenIsSent
  ReminderFollowsRow
PROPERTIES
  LifecycleSpec
