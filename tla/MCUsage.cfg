SPECIFICATION Spec
CONSTANTS
  MaxPid = 1000
  UUIDs = {u1, u2}
  AllocSizes = {0, 32768}
  MapAddresses = {0}
  MaxAddress = 205312
  MinUsage <- UsageFloor
  Messages = {}
  MaxMail = 0
  Priorities = {20}
  Policies = {1}
  Targets = {}
  Clients = {1000}
  StrayCallers = {}
  Syscalls <- MemoryCalls
INVARIANT UsageExact
CHECK_DEADLOCK FALSE
