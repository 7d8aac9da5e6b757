SPECIFICATION Spec
CONSTANTS
  MaxPid = 1000
  UUIDs = {u1, u2}
  AllocSizes = {0, 32768}
  MapAddresses = {0, 163840}
  MaxAddress = 205312
  MinUsage <- UsageFloor
  Messages = {}
  MaxMail = 0
  Priorities = {20}
  Policies = {1}
  Targets = {}
  Clients = {1000}
  StrayCallers = {7}
  Syscalls <- MemoryCalls
SYMMETRY UUIDSymmetry
INVARIANT TypeOK
INVARIANT RegionIndexExact
INVARIANT UsageNeverOverReports
PROPERTY AllocationsDisjoint
PROPERTY ExitFreesMemory
CHECK_DEADLOCK FALSE
