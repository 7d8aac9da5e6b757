SPECIFICATION MCSpec
CONSTANTS
  Priorities = {1, 2, 3}
  LastPid = 6
  Callers = {t1, t2}
  LastProcess = 2
  MaxMail = 2
  Regions = {r1, r2}
  Buffers = {b1, b2}
  NoBuffer = NoBuffer
  Capacities = {0, 4}
  Width = 3
  MaxSegments = 4
INVARIANT TypeOK
INVARIANT PriorityOrder
INVARIANT StatesExact
INVARIANT NoMissedNotify
INVARIANT SegmentsDisjoint
INVARIANT OneOwner
PROPERTY ExitedGetNoMail
PROPERTY StopDrains
PROPERTY WorkIsDone
PROPERTY StopReturns
CHECK_DEADLOCK FALSE
