SPECIFICATION FairSpec
CONSTANTS
  MaxPid = 1000
  UUIDs = {}
  AllocSizes = {}
  MapAddresses = {}
  MaxAddress = 0
  MinUsage = 0
  Messages = {m1}
  MaxMail = 1
  Priorities = {20}
  Policies = {0, 1}
  Targets = {0, 1000}
  Clients = {1, 1000}
  StrayCallers = {}
  Syscalls <- ProcessAndIpcCalls
PROPERTY WaitersWake
CHECK_DEADLOCK FALSE
