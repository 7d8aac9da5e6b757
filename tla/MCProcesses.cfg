SPECIFICATION FairSpec
CONSTANTS
  MaxPid = 1000
  UUIDs = {}
  AllocSizes = {}
  MapAddresses = {}
  MaxAddress = 0
  MinUsage = 0
  Messages = {m1, m2}
  MaxMail = 2
  Priorities = {20}
  Policies = {0, 1}
  Targets = {0, 1000}
  Clients = {0, 1, 1000}
  StrayCallers = {}
  Syscalls <- ProcessAndIpcCalls
INVARIANT TypeOK
INVARIANT ReadyQueueExact
INVARIANT BlockedExact
INVARIANT NoLostWakeup
INVARIANT CheckedStateHolds
PROPERTY NoOvertaking
PROPERTY OthersLeaveTerminated
PROPERTY AtomicSafety
PROPERTY ReadyRuns
PROPERTY MailWakes
CHECK_DEADLOCK FALSE
