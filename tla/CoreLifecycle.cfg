SPECIFICATION FairSpec
CONSTANTS
  Clients = {c1, c2}
  Schedulers = {s1, s2}
  Threads = {c1, c2, s1, s2}
  NoThread = NoThread
  Methods = {"process_create", "ipc_send", "get_system_info"}
INVARIANT TypeOK
INVARIANT NoDeadlock
INVARIANT TablesGuarded
INVARIANT RunningExact
INVARIANT SchedulesInitialized
PROPERTY StopEndsThreads
PROPERTY CallsReturn
CHECK_DEADLOCK FALSE
