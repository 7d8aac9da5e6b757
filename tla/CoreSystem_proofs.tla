------------------------- MODULE CoreSystem_proofs -------------------------
(***************************************************************************)
(* Theorems about CoreSystem, for every value of its constants.  CoreInv   *)
(* is the inductive invariant: TypeOK, the agreement of the ready queue    *)
(* and the blocked table with the process table, what the region table     *)
(* needs to stay well typed, and what relates the message queues to the    *)
(* call in flight.                                                         *)
(***************************************************************************)
EXTENDS CoreSystem, MemoryManager_proofs

\* The message queues and the call in flight are well typed.
IpcTypeOK ==
  /\ DOMAIN message_queues \subseteq DOMAIN processes
  /\ message_queues \in [DOMAIN message_queues -> Seq(Messages)]
  /\ syscall \in [name: {"idle", "ipc_send", "ipc_receive"}, pid: DOMAIN processes]

CoreInv ==
  ProcessInv /\ MemoryInv /\ IpcTypeOK /\ NoLostWakeup /\ CheckedStateHolds

LEMMA CoreInvInit == Init => CoreInv
<1> SUFFICES ASSUME Init PROVE CoreInv
  OBVIOUS
<1>1. ProcessInv /\ MemoryInv
  BY InitFacts, MemoryInitFacts DEF Init
<1>2. IpcTypeOK
  BY DEF Init, ProcessInit, IpcTypeOK, Idle, KERNEL
<1>3. NoLostWakeup /\ CheckedStateHolds
  BY DEF Init, NoLostWakeup, CheckedStateHolds, Idle, QueueOf
<1> QED BY <1>1, <1>2, <1>3 DEF CoreInv

-----------------------------------------------------------------------------
\* Every step preserves the invariant of the process table, and only a pass of
\* the scheduler moves a process back in the ready queue.
LEMMA ProcessStep ==
  ASSUME ProcessInv, IpcTypeOK, Next
  PROVE  ProcessInv' /\ KeepsOrder
<1>1. CASE Schedule
  BY <1>1, ScheduleFacts DEF Schedule
<1>2. CASE ipc_send_wake
  BY <1>2, WakeFacts DEF ipc_send_wake
<1>3. CASE ipc_receive_block
  <2>1. Exists(syscall.pid)
    BY DEF IpcTypeOK, Exists
  <2>2. IpcReceive \in Reason
    BY DEF IpcReceive, Reason
  <2> QED BY <1>3, <2>1, <2>2, BlockFacts DEF ipc_receive_block
<1>4. ASSUME NEW priority \in Priorities, NEW policy \in Policies,
             process_create(priority, policy)
      PROVE  ProcessInv' /\ KeepsOrder
  BY <1>4, AddFacts DEF process_create
<1>5. ASSUME NEW priority \in Priorities, NEW policy \in Policies,
             process_create_raises(priority, policy)
      PROVE  ProcessInv' /\ KeepsOrder
  BY <1>5, RejectFacts DEF process_create_raises
<1>6. ASSUME NEW pid \in Callers, process_exit(pid)
      PROVE  ProcessInv' /\ KeepsOrder
  BY <1>6, TerminateFacts DEF process_exit
<1>7. ASSUME NEW pid \in Callers, NEW wait_pid \in Callers, process_wait(pid, wait_pid)
      PROVE  ProcessInv' /\ KeepsOrder
  <2>1. wait_pid \in Nat
    BY <1>7 DEF process_wait, Exists, ProcessInv, ProcessTypeOK
  <2>2. WaitFor(wait_pid) \in Reason
    BY <2>1 DEF WaitFor, Reason
  <2> QED BY <1>7, <2>2, BlockFacts DEF process_wait
<1>8. ASSUME NEW pid \in Callers, NEW target \in Targets, NEW message \in Messages,
             ipc_send(pid, target, message)
      PROVE  ProcessInv' /\ KeepsOrder
  BY <1>8, ProcessUnchangedFacts DEF ipc_send
<1>9. ASSUME NEW pid \in Callers, ipc_receive(pid) \/ ipc_receive_empty(pid)
      PROVE  ProcessInv' /\ KeepsOrder
  BY <1>9, ProcessUnchangedFacts DEF ipc_receive, ipc_receive_empty
<1>10. ASSUME NEW pid \in Callers, NEW uuid \in UUIDs, NEW size \in AllocSizes,
              memory_allocate(pid, size, uuid)
       PROVE  ProcessInv' /\ KeepsOrder
  BY <1>10, ProcessUnchangedFacts DEF memory_allocate
<1>11. ASSUME NEW pid \in Callers, NEW uuid \in UUIDs, NEW target \in DOMAIN memory_regions,
              NEW address \in MapAddresses, memory_map(pid, target, address, uuid)
       PROVE  ProcessInv' /\ KeepsOrder
  BY <1>11, ProcessUnchangedFacts DEF memory_map
<1>12. ASSUME NEW pid \in Callers, NEW id \in DOMAIN memory_regions, memory_free(pid, id)
       PROVE  ProcessInv' /\ KeepsOrder
  BY <1>12, ProcessUnchangedFacts DEF memory_free
<1> QED BY <1>1, <1>2, <1>3, <1>4, <1>5, <1>6, <1>7, <1>8, <1>9, <1>10, <1>11, <1>12
        DEF Next

-----------------------------------------------------------------------------
\* Nobody calls with the pid of a process that is yet to be created.
StraysStay == StrayCallers \cap (FIRST_PID..MaxPid) = {}

\* The index of every process is exact, and every owner is known.
IndexInv == RegionIndexExact /\ OwnersKnown(StrayCallers)

LEMMA CallerFacts ==
  ASSUME ProcessInv, NEW pid \in Callers
  PROVE  pid \in Nat /\ pid \in DOMAIN processes \cup StrayCallers
BY CoreAssumption DEF Callers, ProcessInv, ProcessTypeOK

\* A step that only moves processes between states leaves the regions alone.
LEMMA MemoryIdleFacts ==
  ASSUME ProcessInv, MemoryInv, UNCHANGED memVars, ProcessInv',
         DOMAIN processes' = DOMAIN processes, next_pid' >= next_pid
  PROVE  MemoryInv' /\ (IndexInv => IndexInv')
BY MemoryUnchangedFacts DEF ProcessInv, ProcessTypeOK, IndexInv

\* Every step preserves the invariant of the region table and, when nobody calls
\* with the pid of a process that is yet to be created, the exact index.
LEMMA MemoryStep ==
  ASSUME ProcessInv, IpcTypeOK, MemoryInv, Next
  PROVE  MemoryInv' /\ (StraysStay /\ IndexInv => IndexInv')
<1> USE DEF ProcessInv
<1> DEFINE Goal == MemoryInv' /\ (StraysStay /\ IndexInv => IndexInv')
<1>0. ProcessInv' /\ next_pid \in Nat
  BY ProcessStep DEF ProcessTypeOK
<1>1. CASE Schedule
  <2>1. DOMAIN processes' = DOMAIN processes /\ next_pid' = next_pid
    BY <1>1 DEF Schedule, run_scheduler
  <2> QED BY <1>0, <1>1, <2>1, MemoryIdleFacts DEF Schedule
<1>2. CASE ipc_send_wake
  <2>1. DOMAIN processes' = DOMAIN processes /\ next_pid' = next_pid
    BY <1>2 DEF ipc_send_wake, WakeProcess
  <2> QED BY <1>0, <1>2, <2>1, MemoryIdleFacts DEF ipc_send_wake
<1>3. CASE ipc_receive_block
  <2>1. DOMAIN processes' = DOMAIN processes /\ next_pid' = next_pid
    BY <1>3 DEF ipc_receive_block, BlockProcess
  <2> QED BY <1>0, <1>3, <2>1, MemoryIdleFacts DEF ipc_receive_block
<1>4. ASSUME NEW priority \in Priorities, NEW policy \in Policies,
             process_create(priority, policy)
      PROVE  Goal
  <2>1. AddProcess /\ InitProcessMemory(next_pid)
    BY <1>4 DEF process_create
  <2>2. StraysStay => next_pid \notin StrayCallers
    BY <2>1, MaxPidAssumption DEF AddProcess, StraysStay, ProcessTypeOK, FIRST_PID
  <2> QED BY <2>1, <2>2, MemoryCreateFacts DEF IndexInv
<1>5. ASSUME NEW priority \in Priorities, NEW policy \in Policies,
             process_create_raises(priority, policy)
      PROVE  Goal
  <2>1. DOMAIN processes' = DOMAIN processes /\ next_pid' = next_pid + 1
    BY <1>5 DEF process_create_raises, RejectProcess
  <2> QED BY <1>0, <1>5, <2>1, MemoryIdleFacts DEF process_create_raises
<1>6. ASSUME NEW pid \in Callers, process_exit(pid)
      PROVE  Goal
  BY <1>6, MemoryExitFacts DEF process_exit, IndexInv
<1>7. ASSUME NEW pid \in Callers, NEW wait_pid \in Callers, process_wait(pid, wait_pid)
      PROVE  Goal
  <2>1. DOMAIN processes' = DOMAIN processes /\ next_pid' = next_pid
    BY <1>7 DEF process_wait, BlockProcess
  <2> QED BY <1>0, <1>7, <2>1, MemoryIdleFacts DEF process_wait
<1>8. ASSUME NEW pid \in Callers, NEW target \in Targets, NEW message \in Messages,
             ipc_send(pid, target, message)
      PROVE  Goal
  BY <1>0, <1>8, MemoryIdleFacts DEF ipc_send, procVars
<1>9. ASSUME NEW pid \in Callers, ipc_receive(pid) \/ ipc_receive_empty(pid)
      PROVE  Goal
  BY <1>0, <1>9, MemoryIdleFacts DEF ipc_receive, ipc_receive_empty, procVars
<1>10. ASSUME NEW pid \in Callers, NEW uuid \in UUIDs, NEW size \in AllocSizes,
              memory_allocate(pid, size, uuid)
       PROVE  Goal
  <2>1. size \in Int
    BY AllocSizesAssumption
  <2> QED BY <1>10, <2>1, MemoryAllocateFacts DEF memory_allocate, IndexInv
<1>11. ASSUME NEW pid \in Callers, NEW uuid \in UUIDs, NEW target \in DOMAIN memory_regions,
              NEW address \in MapAddresses, memory_map(pid, target, address, uuid)
       PROVE  Goal
  <2>1. address \in Int
    BY MapAddressesAssumption
  <2>2. pid \in Nat /\ pid \in DOMAIN processes \cup StrayCallers
    BY CallerFacts
  <2> QED BY <1>11, <2>1, <2>2, MemoryMapFacts DEF memory_map, IndexInv
<1>12. ASSUME NEW pid \in Callers, NEW id \in DOMAIN memory_regions, memory_free(pid, id)
       PROVE  Goal
  BY <1>12, MemoryFreeFacts DEF memory_free, IndexInv
<1> QED BY <1>1, <1>2, <1>3, <1>4, <1>5, <1>6, <1>7, <1>8, <1>9, <1>10, <1>11, <1>12
        DEF Next

-----------------------------------------------------------------------------
\* A step that leaves the message queues, the blocked processes and the call in
\* flight alone, and loses no process.
LEMMA IpcIdleFacts ==
  ASSUME IpcTypeOK, NoLostWakeup, CheckedStateHolds, UNCHANGED ipcVars,
         DOMAIN processes \subseteq DOMAIN processes',
         BlockedExact, UNCHANGED blocked_processes
  PROVE  IpcTypeOK' /\ NoLostWakeup' /\ CheckedStateHolds'
<1>1. UNCHANGED <<message_queues, syscall>>
  BY DEF ipcVars
<1>2. IpcTypeOK'
  BY <1>1 DEF IpcTypeOK
<1>3. NoLostWakeup'
  BY <1>1 DEF NoLostWakeup, BlockedExact, AwaitsMail, QueueOf
<1>4. CheckedStateHolds'
  BY <1>1 DEF CheckedStateHolds, QueueOf
<1> QED BY <1>2, <1>3, <1>4

\* Every step preserves what relates the message queues to the blocked processes
\* and to the call in flight.
LEMMA IpcStep ==
  ASSUME CoreInv, Next
  PROVE  IpcTypeOK' /\ NoLostWakeup' /\ CheckedStateHolds'
<1> USE DEF CoreInv, ProcessInv
<1> DEFINE Goal == IpcTypeOK' /\ NoLostWakeup' /\ CheckedStateHolds'
<1>1. CASE Schedule
  <2>1. DOMAIN processes' = DOMAIN processes /\ UNCHANGED blocked_processes
    BY <1>1 DEF Schedule, run_scheduler
  <2> QED BY <1>1, <2>1, IpcIdleFacts DEF Schedule
<1>2. CASE ipc_send_wake
  <2>1. PICK target \in DOMAIN processes : syscall = [name |-> "ipc_send", pid |-> target]
    BY <1>2 DEF ipc_send_wake, IpcTypeOK
  <2>2. /\ syscall' = Idle /\ message_queues' = message_queues
        /\ DOMAIN processes' = DOMAIN processes
        /\ WakeProcess(target)
    BY <1>2, <2>1 DEF ipc_send_wake, WakeProcess
  <2>3. ~AwaitsMail(target)' /\ \A pid : AwaitsMail(pid)' => AwaitsMail(pid)
    BY <2>2 DEF WakeProcess, Unblock, Del, Restrict, AwaitsMail
  <2>4. \A pid : QueueOf(pid)' = QueueOf(pid)
    BY <2>2 DEF QueueOf
  <2>5. NoLostWakeup'
    <3> SUFFICES ASSUME NEW pid \in DOMAIN processes, AwaitsMail(pid)', QueueOf(pid)' # <<>>
                 PROVE  FALSE
      BY <2>2 DEF NoLostWakeup
    <3>1. syscall = [name |-> "ipc_send", pid |-> pid]
      BY <2>3, <2>4 DEF NoLostWakeup
    <3>2. pid = target
      BY <2>1, <3>1
    <3> QED BY <2>3, <3>2
  <2>6. IpcTypeOK' /\ CheckedStateHolds'
    BY <2>2 DEF IpcTypeOK, CheckedStateHolds, Idle, ProcessTypeOK
  <2> QED BY <2>5, <2>6
<1>3. CASE ipc_receive_block
  <2>1. PICK pid \in DOMAIN processes : syscall = [name |-> "ipc_receive", pid |-> pid]
    BY <1>3 DEF ipc_receive_block, IpcTypeOK
  <2>2. /\ syscall' = Idle /\ message_queues' = message_queues
        /\ DOMAIN processes' = DOMAIN processes
        /\ BlockProcess(pid, IpcReceive)
    BY <1>3, <2>1 DEF ipc_receive_block, BlockProcess
  <2>3. \A other : other # pid => AwaitsMail(other)' = AwaitsMail(other)
    BY <2>2 DEF BlockProcess, Put, AwaitsMail
  <2>4. QueueOf(pid)' = <<>> /\ \A other : QueueOf(other)' = QueueOf(other)
    BY <2>1, <2>2 DEF CheckedStateHolds, QueueOf
  <2>5. NoLostWakeup'
    BY <2>1, <2>2, <2>3, <2>4 DEF NoLostWakeup
  <2>6. IpcTypeOK' /\ CheckedStateHolds'
    BY <2>2 DEF IpcTypeOK, CheckedStateHolds, Idle, ProcessTypeOK
  <2> QED BY <2>5, <2>6
<1>4. ASSUME NEW priority \in Priorities, NEW policy \in Policies,
             process_create(priority, policy)
      PROVE  Goal
  <2>1. PICK pid \in Nat : pid = next_pid /\ pid \notin DOMAIN processes
    BY DEF ProcessTypeOK
  <2>2. /\ DOMAIN processes' = DOMAIN processes \cup {pid}
        /\ message_queues' = Put(message_queues, pid, <<>>)
        /\ UNCHANGED <<blocked_processes, syscall>>
        /\ syscall = Idle
    BY <1>4, <2>1 DEF process_create, AddProcess, Put, Invoke
  <2>3. QueueOf(pid)' = <<>> /\ \A other : other # pid => QueueOf(other)' = QueueOf(other)
    BY <2>2 DEF QueueOf, Put
  <2>4. \A other : AwaitsMail(other)' = AwaitsMail(other)
    BY <2>2 DEF AwaitsMail
  <2>5. IpcTypeOK'
    <3>1. <<>> \in Seq(Messages)
      OBVIOUS
    <3> QED BY <2>2, <3>1 DEF IpcTypeOK, Put
  <2>6. NoLostWakeup'
    BY <2>2, <2>3, <2>4 DEF NoLostWakeup
  <2>7. CheckedStateHolds'
    BY <2>2 DEF CheckedStateHolds, Idle
  <2> QED BY <2>5, <2>6, <2>7
<1>5. ASSUME NEW priority \in Priorities, NEW policy \in Policies,
             process_create_raises(priority, policy)
      PROVE  Goal
  <2>1. DOMAIN processes' = DOMAIN processes /\ UNCHANGED blocked_processes
    BY <1>5 DEF process_create_raises, RejectProcess
  <2> QED BY <1>5, <2>1, IpcIdleFacts DEF process_create_raises
<1>6. ASSUME NEW pid \in Callers, process_exit(pid)
      PROVE  Goal
  <2>1. /\ DOMAIN processes' = DOMAIN processes
        /\ message_queues' = Del(message_queues, pid)
        /\ blocked_processes' = Del(blocked_processes, pid)
        /\ syscall' = syscall /\ syscall = Idle
    BY <1>6 DEF process_exit, TerminateProcess, Unblock, Invoke
  <2>2. \A other : other # pid => QueueOf(other)' = QueueOf(other)
    BY <2>1 DEF QueueOf, Del, Restrict
  <2>3. ~AwaitsMail(pid)' /\ \A other : AwaitsMail(other)' => AwaitsMail(other)
    BY <2>1 DEF AwaitsMail, Del, Restrict
  <2>4. IpcTypeOK'
    BY <2>1 DEF IpcTypeOK, Del, Restrict
  <2>5. NoLostWakeup'
    BY <2>1, <2>2, <2>3 DEF NoLostWakeup
  <2>6. CheckedStateHolds'
    BY <2>1 DEF CheckedStateHolds, Idle
  <2> QED BY <2>4, <2>5, <2>6
<1>7. ASSUME NEW pid \in Callers, NEW wait_pid \in Callers, process_wait(pid, wait_pid)
      PROVE  Goal
  <2>1. /\ DOMAIN processes' = DOMAIN processes
        /\ blocked_processes' = Put(blocked_processes, pid, WaitFor(wait_pid))
        /\ UNCHANGED <<message_queues, syscall>>
    BY <1>7 DEF process_wait, BlockProcess, ipcVars
  <2>2. \A other : AwaitsMail(other)' => AwaitsMail(other)
    BY <2>1 DEF AwaitsMail, Put, WaitFor
  <2>3. \A other : QueueOf(other)' = QueueOf(other)
    BY <2>1 DEF QueueOf
  <2>4. IpcTypeOK'
    BY <2>1 DEF IpcTypeOK
  <2>5. NoLostWakeup'
    BY <2>1, <2>2, <2>3 DEF NoLostWakeup
  <2>6. CheckedStateHolds'
    BY <2>1, <2>3 DEF CheckedStateHolds
  <2> QED BY <2>4, <2>5, <2>6
<1>8. ASSUME NEW pid \in Callers, NEW target \in Targets, NEW message \in Messages,
             ipc_send(pid, target, message)
      PROVE  Goal
  <2> DEFINE queue == Append(QueueOf(target), message)
  <2>1. /\ target \in DOMAIN processes
        /\ message_queues' = Put(message_queues, target, queue)
        /\ syscall' = [name |-> "ipc_send", pid |-> target]
        /\ syscall = Idle
        /\ UNCHANGED <<processes, blocked_processes>>
    BY <1>8 DEF ipc_send, Connected, Exists, Invoke, procVars
  <2>2. QueueOf(target) \in Seq(Messages)
    BY DEF IpcTypeOK, QueueOf
  <2>3. queue \in Seq(Messages) /\ queue # <<>>
    BY <2>2, AppendProperties
  <2> HIDE DEF queue
  <2>4. QueueOf(target)' = queue /\ \A other : other # target => QueueOf(other)' = QueueOf(other)
    BY <2>1 DEF QueueOf, Put
  <2>5. \A other : AwaitsMail(other)' = AwaitsMail(other)
    BY <2>1 DEF AwaitsMail
  <2>6. IpcTypeOK'
    BY <2>1, <2>3 DEF IpcTypeOK, Put
  <2>7. NoLostWakeup'
    BY <2>1, <2>4, <2>5 DEF NoLostWakeup, Idle
  <2>8. CheckedStateHolds'
    BY <2>1, <2>3, <2>4 DEF CheckedStateHolds
  <2> QED BY <2>6, <2>7, <2>8
<1>9. ASSUME NEW pid \in Callers, ipc_receive(pid)
      PROVE  Goal
  <2> DEFINE queue == Tail(message_queues[pid])
  <2>1. /\ pid \in DOMAIN message_queues /\ message_queues[pid] # <<>>
        /\ message_queues' = [message_queues EXCEPT ![pid] = queue]
        /\ syscall' = syscall /\ syscall = Idle
        /\ UNCHANGED <<processes, blocked_processes>>
    BY <1>9 DEF ipc_receive, AfterReceive, QueueOf, Invoke, procVars
  <2>2. queue \in Seq(Messages)
    BY <2>1 DEF IpcTypeOK
  <2> HIDE DEF queue
  <2>3. \A other : QueueOf(other)' # <<>> => QueueOf(other) # <<>>
    BY <2>1 DEF QueueOf, IpcTypeOK
  <2>4. \A other : AwaitsMail(other)' = AwaitsMail(other)
    BY <2>1 DEF AwaitsMail
  <2>5. IpcTypeOK'
    BY <2>1, <2>2 DEF IpcTypeOK
  <2>6. NoLostWakeup'
    BY <2>1, <2>3, <2>4 DEF NoLostWakeup
  <2>7. CheckedStateHolds'
    BY <2>1 DEF CheckedStateHolds, Idle
  <2> QED BY <2>5, <2>6, <2>7
<1>10. ASSUME NEW pid \in Callers, ipc_receive_empty(pid)
       PROVE  Goal
  <2>1. /\ pid \in DOMAIN processes /\ QueueOf(pid) = <<>>
        /\ syscall = Idle /\ syscall' = [name |-> "ipc_receive", pid |-> pid]
        /\ UNCHANGED <<processes, blocked_processes, message_queues>>
    BY <1>10 DEF ipc_receive_empty, Exists, Invoke, procVars
  <2>2. \A other : QueueOf(other)' = QueueOf(other) /\ AwaitsMail(other)' = AwaitsMail(other)
    BY <2>1 DEF QueueOf, AwaitsMail
  <2>3. IpcTypeOK'
    BY <2>1 DEF IpcTypeOK
  <2>4. NoLostWakeup'
    BY <2>1, <2>2 DEF NoLostWakeup, Idle
  <2>5. CheckedStateHolds'
    BY <2>1, <2>2 DEF CheckedStateHolds
  <2> QED BY <2>3, <2>4, <2>5
<1>11. ASSUME NEW pid \in Callers, NEW uuid \in UUIDs, NEW size \in AllocSizes,
              memory_allocate(pid, size, uuid)
       PROVE  Goal
  BY <1>11, IpcIdleFacts DEF memory_allocate, procVars
<1>12. ASSUME NEW pid \in Callers, NEW uuid \in UUIDs, NEW target \in DOMAIN memory_regions,
              NEW address \in MapAddresses, memory_map(pid, target, address, uuid)
       PROVE  Goal
  BY <1>12, IpcIdleFacts DEF memory_map, procVars
<1>13. ASSUME NEW pid \in Callers, NEW id \in DOMAIN memory_regions, memory_free(pid, id)
       PROVE  Goal
  BY <1>13, IpcIdleFacts DEF memory_free, procVars
<1> QED BY <1>1, <1>2, <1>3, <1>4, <1>5, <1>6, <1>7, <1>8, <1>9, <1>10, <1>11, <1>12, <1>13
        DEF Next

-----------------------------------------------------------------------------
\* A step that changes no variable.
LEMMA StutterFacts ==
  ASSUME CoreInv, UNCHANGED vars
  PROVE  CoreInv' /\ (IndexInv => IndexInv') /\ KeepsOrder
<1>1. UNCHANGED <<procVars, memVars, ipcVars>>
  BY DEF vars
<1>2. ProcessInv' /\ KeepsOrder
  BY <1>1, ProcessUnchangedFacts DEF CoreInv
<1>3. DOMAIN processes' = DOMAIN processes /\ next_pid' = next_pid /\ next_pid \in Nat
      /\ blocked_processes' = blocked_processes
  BY <1>1 DEF procVars, CoreInv, ProcessInv, ProcessTypeOK
<1>4. MemoryInv' /\ (IndexInv => IndexInv')
  BY <1>1, <1>2, <1>3, MemoryIdleFacts DEF CoreInv
<1>5. IpcTypeOK' /\ NoLostWakeup' /\ CheckedStateHolds'
  BY <1>1, <1>3, IpcIdleFacts DEF CoreInv, ProcessInv
<1> QED BY <1>2, <1>4, <1>5 DEF CoreInv

LEMMA CoreInvStep ==
  ASSUME CoreInv, [Next]_vars
  PROVE  CoreInv' /\ KeepsOrder
<1>1. CASE Next
  BY <1>1, ProcessStep, MemoryStep, IpcStep DEF CoreInv
<1>2. CASE UNCHANGED vars
  BY <1>2, StutterFacts
<1> QED BY <1>1, <1>2

\* CoreInv holds in every reachable state.
THEOREM CoreInvariant == Spec => []CoreInv
<1>1. CoreInv /\ [Next]_vars => CoreInv'
  BY CoreInvStep
<1> QED BY CoreInvInit, <1>1, PTL DEF Spec

\* Every variable has its type: the tables, the queues and the call in flight.
THEOREM TypeCorrect == Spec => []TypeOK
<1>1. CoreInv => TypeOK
  BY DEF CoreInv, ProcessInv, MemoryInv, IpcTypeOK, TypeOK
<1> QED BY <1>1, CoreInvariant, PTL

\* The ready queue holds the READY processes and no other, each once.
THEOREM QueueCorrect == Spec => []ReadyQueueExact
<1>1. CoreInv => ReadyQueueExact
  BY DEF CoreInv, ProcessInv
<1> QED BY <1>1, CoreInvariant, PTL

\* A reason is recorded for the BLOCKED processes and for no other.
THEOREM BlockedCorrect == Spec => []BlockedExact
<1>1. CoreInv => BlockedExact
  BY DEF CoreInv, ProcessInv
<1> QED BY <1>1, CoreInvariant, PTL

\* A process that awaits mail beside a message is about to be woken, although
\* the scheduler runs between the two critical sections of ipc_send.
THEOREM WakeupsKept == Spec => []NoLostWakeup
<1>1. CoreInv => NoLostWakeup
  BY DEF CoreInv
<1> QED BY <1>1, CoreInvariant, PTL

\* What the first critical section of a call saw still holds in its second one.
THEOREM ChecksKept == Spec => []CheckedStateHolds
<1>1. CoreInv => CheckedStateHolds
  BY DEF CoreInv
<1> QED BY <1>1, CoreInvariant, PTL

\* No process in the ready queue overtakes another, whatever exits, blocks and
\* wakes in between.
THEOREM RoundRobin == Spec => NoOvertaking
<1>1. CoreInv /\ [Next]_vars => [KeepsOrder]_vars
  BY CoreInvStep
<1> QED BY <1>1, CoreInvariant, PTL DEF Spec, NoOvertaking

-----------------------------------------------------------------------------
LEMMA IndexInvInit == Init => IndexInv
<1> SUFFICES ASSUME Init PROVE IndexInv
  OBVIOUS
<1>1. RegionIndexExact /\ OwnersKnown({})
  BY MemoryInitFacts DEF Init
<1>2. OwnersKnown(StrayCallers)
  BY <1>1 DEF OwnersKnown
<1> QED BY <1>1, <1>2 DEF IndexInv

\* Unless a client calls with the pid of a process that is yet to be created,
\* the index of a process lists its regions, all of them and no other.
THEOREM IndexCorrect == StraysStay => (Spec => []RegionIndexExact)
<1> SUFFICES ASSUME StraysStay PROVE Spec => []RegionIndexExact
  OBVIOUS
<1>1. CoreInv /\ IndexInv /\ [Next]_vars => IndexInv'
  BY MemoryStep, StutterFacts DEF CoreInv
<1>2. IndexInv => RegionIndexExact
  BY DEF IndexInv
<1> QED BY IndexInvInit, <1>1, <1>2, CoreInvariant, PTL DEF Spec

LEMMA DisjointStep ==
  ASSUME StraysStay, CoreInv, IndexInv, [Next]_vars
  PROVE  NewRegionsDisjoint
<1>1. CASE UNCHANGED memVars
  BY <1>1 DEF memVars, NewRegionsDisjoint
<1>2. ASSUME NEW priority \in Priorities, NEW policy \in Policies,
             process_create(priority, policy)
      PROVE  NewRegionsDisjoint
  <2>1. AddProcess /\ InitProcessMemory(next_pid)
    BY <1>2 DEF process_create
  <2>2. next_pid \notin StrayCallers
    BY <2>1, MaxPidAssumption
       DEF AddProcess, StraysStay, CoreInv, ProcessInv, ProcessTypeOK, FIRST_PID
  <2> QED BY <2>1, <2>2, CreateDisjointFacts DEF CoreInv, ProcessInv, IndexInv
<1>3. ASSUME NEW pid \in Callers, process_exit(pid)
      PROVE  NewRegionsDisjoint
  <2>1. DOMAIN memory_regions' \subseteq DOMAIN memory_regions
    BY <1>3 DEF process_exit, FreeProcessMemory, DropRegions, Restrict, memVars
  <2> QED BY <2>1 DEF NewRegionsDisjoint
<1>4. ASSUME NEW pid \in Callers, NEW uuid \in UUIDs, NEW size \in AllocSizes,
             memory_allocate(pid, size, uuid)
      PROVE  NewRegionsDisjoint
  BY <1>4, AllocateDisjointFacts DEF memory_allocate, CoreInv, IndexInv
<1>5. ASSUME NEW pid \in Callers, NEW uuid \in UUIDs, NEW target \in DOMAIN memory_regions,
             NEW address \in MapAddresses, memory_map(pid, target, address, uuid)
      PROVE  NewRegionsDisjoint
  BY <1>5, MapDisjointFacts DEF memory_map
<1>6. ASSUME NEW pid \in Callers, NEW id \in DOMAIN memory_regions, memory_free(pid, id)
      PROVE  NewRegionsDisjoint
  <2>1. DOMAIN memory_regions' \subseteq DOMAIN memory_regions
    BY <1>6 DEF memory_free, Free, Del, Restrict
  <2> QED BY <2>1 DEF NewRegionsDisjoint
<1>7. UNCHANGED vars => UNCHANGED memVars
  BY DEF vars
<1> QED BY <1>1, <1>2, <1>3, <1>4, <1>5, <1>6, <1>7
        DEF Next, Schedule, ipc_send_wake, ipc_receive_block, process_create_raises,
            process_wait, ipc_send, ipc_receive, ipc_receive_empty

\* Under the same condition a region that is allocated overlaps no region of its
\* process, whatever was freed, mapped and allocated before.
THEOREM AllocationsCorrect == StraysStay => (Spec => AllocationsDisjoint)
<1> SUFFICES ASSUME StraysStay PROVE Spec => AllocationsDisjoint
  OBVIOUS
<1>1. CoreInv /\ IndexInv /\ [Next]_vars => IndexInv'
  BY MemoryStep, StutterFacts DEF CoreInv
<1>2. CoreInv /\ IndexInv /\ [Next]_vars => [NewRegionsDisjoint]_vars
  BY DisjointStep
<1> QED BY IndexInvInit, <1>1, <1>2, CoreInvariant, PTL DEF Spec, AllocationsDisjoint

LEMMA ExitStep ==
  ASSUME CoreInv, IndexInv, [Next]_vars, NEW pid \in DOMAIN processes, Exits(pid)
  PROVE  OwnedBy(pid)' = {}
<1> USE DEF Exits, CoreInv, ProcessInv
<1>1. ASSUME NEW other \in Callers, process_exit(other)
      PROVE  OwnedBy(pid)' = {}
  <2>1. pid = other
    BY <1>1 DEF process_exit, TerminateProcess
  <2> QED BY <1>1, <2>1, MemoryExitFacts DEF process_exit, IndexInv
<1>2. ~UNCHANGED processes
  OBVIOUS
<1>3. ~Schedule /\ ~ipc_send_wake /\ ~ipc_receive_block
  BY DEF Schedule, run_scheduler, ipc_send_wake, WakeProcess, ipc_receive_block,
         BlockProcess, ProcessTypeOK
<1>4. \A priority, policy : ~process_create(priority, policy)
  BY DEF process_create, AddProcess, Put, ProcessTypeOK
<1>5. \A other, wait_pid : ~process_wait(other, wait_pid)
  BY DEF process_wait, BlockProcess, ProcessTypeOK
<1> QED BY <1>1, <1>2, <1>3, <1>4, <1>5
        DEF Next, vars, procVars, process_create_raises, RejectProcess, memory_allocate,
            memory_free, memory_map, ipc_send, ipc_receive, ipc_receive_empty

\* Under the same condition a process that exits leaves no region behind.
THEOREM ExitCorrect == StraysStay => (Spec => ExitFreesMemory)
<1> SUFFICES ASSUME StraysStay PROVE Spec => ExitFreesMemory
  OBVIOUS
<1>1. CoreInv /\ IndexInv /\ [Next]_vars => IndexInv'
  BY MemoryStep, StutterFacts DEF CoreInv
<1>2. CoreInv /\ IndexInv /\ [Next]_vars
        => [\A pid \in DOMAIN processes : Exits(pid) => OwnedBy(pid)' = {}]_vars
  BY ExitStep
<1> QED BY IndexInvInit, <1>1, <1>2, CoreInvariant, PTL DEF Spec, ExitFreesMemory

-----------------------------------------------------------------------------
\* A pass of the scheduler runs a process that is READY, and ipc_send wakes one that
\* is BLOCKED; every other change of a state is that of the process that calls.
LEMMA RevivalStep ==
  ASSUME CoreInv, [Next]_vars, NEW pid \in DOMAIN processes,
         processes[pid] = "TERMINATED", processes'[pid] # "TERMINATED"
  PROVE  processes'[pid] = "BLOCKED" /\ BlocksItself(pid)
<1> USE DEF CoreInv, ProcessInv
<1>1. processes \in [DOMAIN processes -> ProcessState] /\ ~UNCHANGED processes
  BY DEF ProcessTypeOK
<1>2. ~Schedule
  <2>1. SUFFICES ASSUME run_scheduler PROVE FALSE
    BY DEF Schedule
  <2>2. Head(ready_queue) \in Range(ready_queue)
    BY <2>1, TailFacts DEF ProcessTypeOK, ReadyQueueExact, run_scheduler
  <2>3. processes[Head(ready_queue)] = "READY"
    BY <2>2 DEF ReadyQueueExact
  <2> QED BY <1>1, <2>1, <2>3 DEF run_scheduler, Exists
<1>3. ~ipc_send_wake
  <2>1. SUFFICES ASSUME AwaitsMail(syscall.pid), ipc_send_wake PROVE FALSE
    BY <1>1 DEF ipc_send_wake, WakeProcess
  <2>2. processes[syscall.pid] = "BLOCKED"
    BY <2>1 DEF AwaitsMail, BlockedExact
  <2> QED BY <1>1, <2>1, <2>2 DEF ipc_send_wake, WakeProcess
<1>4. \A priority, policy : ~process_create(priority, policy)
  <2>1. next_pid # pid
    BY DEF ProcessTypeOK
  <2> QED BY <1>1, <2>1 DEF process_create, AddProcess, Put
<1>5. \A other : ~process_exit(other)
  BY <1>1 DEF process_exit, TerminateProcess
<1>6. ASSUME NEW other \in Callers, NEW wait_pid \in Callers, process_wait(other, wait_pid)
      PROVE  processes'[pid] = "BLOCKED" /\ BlocksItself(pid)
  <2>1. pid = other /\ processes'[pid] = "BLOCKED"
    BY <1>1, <1>6 DEF process_wait, BlockProcess
  <2>2. wait_pid \in DOMAIN processes
    BY <1>6 DEF process_wait, Exists
  <2> QED BY <1>6, <2>1, <2>2 DEF BlocksItself
<1>7. CASE ipc_receive_block
  BY <1>1, <1>7 DEF ipc_receive_block, BlockProcess, BlocksItself
<1> QED BY <1>1, <1>2, <1>3, <1>4, <1>5, <1>6, <1>7
        DEF Next, vars, procVars, process_create_raises, RejectProcess, memory_allocate,
            memory_free, memory_map, ipc_send, ipc_receive, ipc_receive_empty

\* Nobody but a terminated process itself can bring it back, and then it is blocked.
THEOREM TerminatedLeftAlone == Spec => OthersLeaveTerminated
<1>1. CoreInv /\ [Next]_vars
        => [\A pid \in DOMAIN processes :
              processes[pid] = "TERMINATED" /\ processes'[pid] # "TERMINATED"
                => processes'[pid] = "BLOCKED" /\ BlocksItself(pid)]_vars
  BY RevivalStep
<1> QED BY <1>1, CoreInvariant, PTL DEF Spec, OthersLeaveTerminated

\* The process goes on being blocked for what it is blocked for.
KeepsReason(pid) ==
  pid \in DOMAIN blocked_processes' /\ blocked_processes'[pid] = blocked_processes[pid]

\* A process that waits for another stays as it is until it makes a call itself:
\* process_exit, which is what it waits for, leaves it alone.
WaitersLeftAlone ==
  [][\A pid \in DOMAIN blocked_processes :
       blocked_processes[pid].on = "wait"
         => KeepsReason(pid) \/ process_exit(pid) \/ BlocksItself(pid)]_vars

\* Reasons go with an exit of the process itself, or with an ipc_send, which looks for
\* another reason; they are replaced when the process blocks again.
LEMMA WaiterStep ==
  ASSUME CoreInv, [Next]_vars, NEW pid \in DOMAIN blocked_processes,
         blocked_processes[pid].on = "wait", ~KeepsReason(pid)
  PROVE  process_exit(pid) \/ BlocksItself(pid)
<1> USE DEF KeepsReason
<1>1. ~UNCHANGED blocked_processes
  OBVIOUS
<1>2. ~ipc_send_wake
  BY <1>1 DEF ipc_send_wake, WakeProcess, AwaitsMail, Unblock, Del, Restrict
<1>3. ASSUME NEW other \in Callers, process_exit(other)
      PROVE  process_exit(pid)
  <2>1. pid = other
    BY <1>3 DEF process_exit, TerminateProcess, Unblock, Del, Restrict
  <2> QED BY <1>3, <2>1
<1>4. ASSUME NEW other \in Callers, NEW wait_pid \in Callers, process_wait(other, wait_pid)
      PROVE  BlocksItself(pid)
  <2>1. pid = other
    BY <1>4 DEF process_wait, BlockProcess, Put
  <2>2. wait_pid \in DOMAIN processes
    BY <1>4 DEF process_wait, Exists
  <2> QED BY <1>4, <2>1, <2>2 DEF BlocksItself
<1>5. CASE ipc_receive_block
  <2>1. syscall.pid = pid
    BY <1>5 DEF ipc_receive_block, BlockProcess, Put
  <2> QED BY <1>5, <2>1 DEF BlocksItself
<1> QED BY <1>1, <1>2, <1>3, <1>4, <1>5
        DEF Next, vars, procVars, Schedule, run_scheduler, process_create, AddProcess,
            process_create_raises, RejectProcess, memory_allocate, memory_free, memory_map,
            ipc_send, ipc_receive, ipc_receive_empty

\* No other process and no pass of the scheduler wakes a process that waits.
THEOREM WaitersAreLeft == Spec => WaitersLeftAlone
<1>1. CoreInv /\ [Next]_vars
        => [\A pid \in DOMAIN blocked_processes :
              blocked_processes[pid].on = "wait"
                => KeepsReason(pid) \/ process_exit(pid) \/ BlocksItself(pid)]_vars
  BY WaiterStep
<1> QED BY <1>1, CoreInvariant, PTL DEF Spec, WaitersLeftAlone

-----------------------------------------------------------------------------
\* Whoever stays in the ready queue never falls back in it unless it was at its head,
\* and every pass of the scheduler brings it nearer: a process that is n-th has its
\* slice after n - 1 passes at most.
BoundedWaiting ==
  [][\A i \in DOMAIN ready_queue, j \in DOMAIN ready_queue' :
       i # 1 /\ ready_queue'[j] = ready_queue[i] => j <= i /\ (Schedule => j < i)]_vars

\* Each step appends a pid that is not in the queue, or removes one, or turns the queue.
LEMMA PlaceStep ==
  ASSUME CoreInv, [Next]_vars,
         NEW i \in DOMAIN ready_queue, NEW j \in DOMAIN ready_queue', i # 1,
         ready_queue'[j] = ready_queue[i]
  PROVE  j <= i /\ (Schedule => j < i)
<1>1. ready_queue \in Seq(Nat) /\ IsInjective(ready_queue)
  BY DEF CoreInv, ProcessInv, ProcessTypeOK, ReadyQueueExact
<1>2. \A pid \in Range(ready_queue) : pid \in DOMAIN processes /\ processes[pid] = "READY"
  BY DEF CoreInv, ProcessInv, ReadyQueueExact
<1>3. CASE Schedule
  <2>1. Exists(Head(ready_queue)) /\ ready_queue # <<>>
    BY <1>1, <1>2, <1>3, TailFacts DEF Schedule, run_scheduler, Exists
  <2>2. ready_queue' = Append(Tail(ready_queue), Head(ready_queue))
    BY <1>3, <2>1 DEF Schedule, run_scheduler
  <2>3. j < i
    BY <1>1, <2>1, <2>2, TurnPlaces
  <2>4. i \in Nat /\ j \in Nat
    BY <1>1, <2>1, <2>2
  <2> QED BY <2>3, <2>4
<1>4. KeepsPlaces(ready_queue, ready_queue') => j <= i
  BY DEF KeepsPlaces
<1>5. ASSUME UNCHANGED ready_queue
      PROVE  j <= i
  <2>1. i = j /\ i \in Nat
    BY <1>1, <1>5 DEF IsInjective
  <2> QED BY <2>1
<1>6. ASSUME NEW pid, Unqueue(pid)
      PROVE  j <= i
  BY <1>1, <1>4, <1>6, RemovePlaces DEF Unqueue
<1>7. ASSUME AddProcess
      PROVE  j <= i
  <2>1. next_pid \in Nat /\ next_pid \notin DOMAIN processes
    BY DEF CoreInv, ProcessInv, ProcessTypeOK
  <2> QED BY <1>1, <1>2, <1>4, <1>7, <2>1, AppendPlaces DEF AddProcess
<1>8. ASSUME ipc_send_wake, AwaitsMail(syscall.pid)
      PROVE  j <= i
  <2>1. syscall.pid \in DOMAIN processes /\ processes[syscall.pid] = "BLOCKED"
    BY <1>8 DEF AwaitsMail, CoreInv, ProcessInv, BlockedExact
  <2>2. syscall.pid \in Nat
    BY <2>1 DEF CoreInv, ProcessInv, ProcessTypeOK
  <2>3. ready_queue' = Append(ready_queue, syscall.pid)
    BY <1>8 DEF ipc_send_wake, WakeProcess
  <2> QED BY <1>1, <1>2, <1>4, <2>1, <2>2, <2>3, AppendPlaces
<1>9. CASE ~Schedule
  <2>1. ASSUME NEW pid \in Callers, NEW wait_pid \in Callers, process_wait(pid, wait_pid)
        PROVE  j <= i
    BY <1>6, <2>1 DEF process_wait, BlockProcess
  <2>2. ASSUME NEW pid \in Callers, process_exit(pid)
        PROVE  j <= i
    BY <1>6, <2>2 DEF process_exit, TerminateProcess
  <2>3. ASSUME ipc_receive_block
        PROVE  j <= i
    BY <1>6, <2>3 DEF ipc_receive_block, BlockProcess
  <2>4. ASSUME ipc_send_wake
        PROVE  j <= i
    BY <1>5, <1>8, <2>4 DEF ipc_send_wake, WakeProcess
  <2>5. ASSUME NEW priority \in Priorities, NEW policy \in Policies,
               process_create(priority, policy)
        PROVE  j <= i
    BY <1>7, <2>5 DEF process_create
  <2> QED BY <1>5, <1>9, <2>1, <2>2, <2>3, <2>4, <2>5
          DEF Next, vars, procVars, process_create_raises, RejectProcess, memory_allocate,
              memory_free, memory_map, ipc_send, ipc_receive, ipc_receive_empty
<1> QED BY <1>3, <1>9

\* The wait for a slice is bounded by the place in the ready queue.
THEOREM WaitingIsBounded == Spec => BoundedWaiting
<1>1. CoreInv /\ [Next]_vars
        => [\A i \in DOMAIN ready_queue, j \in DOMAIN ready_queue' :
              i # 1 /\ ready_queue'[j] = ready_queue[i]
                => j <= i /\ (Schedule => j < i)]_vars
  BY PlaceStep
<1> QED BY <1>1, CoreInvariant, PTL DEF Spec, BoundedWaiting

-----------------------------------------------------------------------------
(***************************************************************************)
(* CoreSystem implements AtomicSyscalls.  First what sequences and the     *)
(* mailboxes that clients perceive need, then one step per action.         *)
(***************************************************************************)
\* A queue is what lies before its newest message, and that message.
LEMMA FrontFacts ==
  ASSUME NEW S, NEW s \in Seq(S), s # <<>>
  PROVE  /\ Front(s) \in Seq(S) /\ Last(s) \in S
         /\ Len(Front(s)) = Len(s) - 1
         /\ \A i \in 1..(Len(s) - 1) : Front(s)[i] = s[i]
         /\ Append(Front(s), Last(s)) = s
<1>1. Len(s) \in Nat \ {0} /\ Last(s) \in S
  BY DEF Last
<1>2. PICK n \in Nat : n = Len(s) - 1
  BY <1>1
<1>3. \A i \in 1..n : s[i] \in S
  BY <1>2
<1>4. /\ SubSeq(s, 1, n) \in Seq(S)
      /\ Len(SubSeq(s, 1, n)) = IF 1 <= n THEN n - 1 + 1 ELSE 0
      /\ \A i \in 1..(n - 1 + 1) : SubSeq(s, 1, n)[i] = s[1 + i - 1]
  BY <1>3, SubSeqProperties
<1>5. /\ Front(s) \in Seq(S)
      /\ Len(Front(s)) = n
      /\ \A i \in 1..n : Front(s)[i] = s[i]
  <2>1. Front(s) = SubSeq(s, 1, n)
    BY <1>2 DEF Front
  <2> QED BY <1>4, <2>1
<1>6. /\ Append(Front(s), Last(s)) \in Seq(S)
      /\ Len(Append(Front(s), Last(s))) = n + 1
      /\ \A i \in 1..n : Append(Front(s), Last(s))[i] = Front(s)[i]
      /\ Append(Front(s), Last(s))[n + 1] = Last(s)
  BY <1>1, <1>5, AppendProperties
<1>7. /\ Len(Append(Front(s), Last(s))) = Len(s)
      /\ \A i \in 1..Len(s) : Append(Front(s), Last(s))[i] = s[i]
  BY <1>1, <1>2, <1>5, <1>6 DEF Last
<1>8. Append(Front(s), Last(s)) = s
  BY <1>6, <1>7, SeqEqual
<1> QED BY <1>1, <1>2, <1>5, <1>8

\* Before a message that was just added lies what was there.
LEMMA FrontOfAppend ==
  ASSUME NEW S, NEW s \in Seq(S), NEW e \in S
  PROVE  Front(Append(s, e)) = s
<1> DEFINE t == Append(s, e)
<1>1. t \in Seq(S) /\ t # <<>> /\ Len(t) = Len(s) + 1 /\ \A i \in 1..Len(s) : t[i] = s[i]
  BY AppendProperties
<1> HIDE DEF t
<1>2. Len(t) - 1 = Len(s)
  BY <1>1
<1>3. /\ Front(t) \in Seq(S) /\ Len(Front(t)) = Len(t) - 1
      /\ \A i \in 1..(Len(t) - 1) : Front(t)[i] = t[i]
  BY <1>1, FrontFacts
<1>4. Len(Front(t)) = Len(s) /\ \A i \in 1..Len(s) : Front(t)[i] = s[i]
  BY <1>1, <1>2, <1>3
<1>5. Front(t) = s
  BY <1>3, <1>4, SeqEqual
<1> QED BY <1>5 DEF t

\* The updates of the process table are those that AtomicSyscalls makes.
LEMMA SameUpdates ==
  /\ ProcessInit => Atomic!ProcessInit
  /\ run_scheduler => Atomic!run_scheduler
  /\ AddProcess => Atomic!AddProcess
  /\ RejectProcess => Atomic!RejectProcess
  /\ \A pid : TerminateProcess(pid) => Atomic!TerminateProcess(pid)
  /\ \A pid, reason : BlockProcess(pid, reason) => Atomic!BlockProcess(pid, reason)
  /\ \A pid : WakeProcess(pid) => Atomic!WakeProcess(pid)
<1>1. ProcessInit => Atomic!ProcessInit
  BY DEF ProcessInit, Atomic!ProcessInit, KERNEL, INIT, FIRST_PID, IpcReceive,
     Atomic!KERNEL, Atomic!INIT, Atomic!FIRST_PID, Atomic!IpcReceive
<1>2. run_scheduler => Atomic!run_scheduler
  BY DEF run_scheduler, Atomic!run_scheduler, Exists, Atomic!Exists
<1>3. AddProcess => Atomic!AddProcess
  BY DEF AddProcess, Atomic!AddProcess, Put, Atomic!Put
<1>4. RejectProcess => Atomic!RejectProcess
  BY DEF RejectProcess, Atomic!RejectProcess
<1>5. \A pid : Unqueue(pid) => Atomic!Unqueue(pid)
  <2> SUFFICES ASSUME NEW pid PROVE Unqueue(pid) => Atomic!Unqueue(pid)
    OBVIOUS
  <2>1. RemoveFirst(ready_queue, pid) = Atomic!RemoveFirst(ready_queue, pid)
    BY DEF RemoveFirst, Atomic!RemoveFirst, SelectInSeq, Atomic!SelectInSeq,
           RemoveAt, Atomic!RemoveAt, Min, Atomic!Min
  <2> QED BY <2>1 DEF Unqueue, Atomic!Unqueue
<1>6. \A pid : Unblock(pid) => Atomic!Unblock(pid)
  BY DEF Unblock, Atomic!Unblock, Del, Atomic!Del, Restrict, Atomic!Restrict
<1>7. \A pid : TerminateProcess(pid) => Atomic!TerminateProcess(pid)
  BY <1>5, <1>6 DEF TerminateProcess, Atomic!TerminateProcess
<1>8. \A pid, reason : BlockProcess(pid, reason) => Atomic!BlockProcess(pid, reason)
  BY <1>5 DEF BlockProcess, Atomic!BlockProcess, Put, Atomic!Put
<1>9. \A pid : WakeProcess(pid) => Atomic!WakeProcess(pid)
  BY <1>6 DEF WakeProcess, Atomic!WakeProcess, AwaitsMail, Atomic!AwaitsMail
<1> QED BY <1>1, <1>2, <1>3, <1>4, <1>7, <1>8, <1>9

\* No queue is longer than the bound.
MailBounded == \A pid \in DOMAIN processes : Len(QueueOf(pid)) <= MaxMail

\* The mailbox of one process.
MailOf(pid) ==
  IF syscall = [name |-> "ipc_send", pid |-> pid] THEN Front(QueueOf(pid)) ELSE QueueOf(pid)

\* A step that leaves every mailbox alone, as AtomicSyscalls has it.
LEMMA MailUnchanged ==
  ASSUME DOMAIN processes' = DOMAIN processes,
         \A pid \in DOMAIN processes : MailOf(pid)' = MailOf(pid)
  PROVE  UNCHANGED MailView
<1>1. MailView = [pid \in DOMAIN processes |-> MailOf(pid)]
  BY DEF MailView, MailOf
<1>2. MailView' = [pid \in DOMAIN processes' |-> MailOf(pid)']
  BY DEF MailView, MailOf
<1> QED BY <1>1, <1>2

\* A step that changes one mailbox.
LEMMA MailChanged ==
  ASSUME DOMAIN processes' = DOMAIN processes, NEW pid \in DOMAIN processes,
         NEW queue, MailOf(pid)' = queue,
         \A other \in DOMAIN processes : other # pid => MailOf(other)' = MailOf(other)
  PROVE  MailView' = [MailView EXCEPT ![pid] = queue]
<1>1. MailView = [other \in DOMAIN processes |-> MailOf(other)]
  BY DEF MailView, MailOf
<1>2. MailView' = [other \in DOMAIN processes' |-> MailOf(other)']
  BY DEF MailView, MailOf
<1> QED BY <1>1, <1>2

\* A mailbox as CoreSystem has it and as AtomicSyscalls has it.
LEMMA MailDef ==
  DOMAIN MailView = DOMAIN processes /\ \A pid \in DOMAIN processes : MailView[pid] = MailOf(pid)
BY DEF MailView, MailOf

\* The initial states are the initial states of AtomicSyscalls.
LEMMA AtomicInit == Init => Atomic!Init
<1> SUFFICES ASSUME Init PROVE Atomic!Init
  OBVIOUS
<1>1. Atomic!ProcessInit
  BY SameUpdates DEF Init
<1>2. DOMAIN processes = {KERNEL, INIT}
  BY DEF Init, ProcessInit
<1>3. \A pid \in DOMAIN processes : MailOf(pid) = <<>>
  BY DEF Init, MailOf, QueueOf, Idle
<1>4. MailView = [pid \in {KERNEL, INIT} |-> <<>>]
  BY <1>2, <1>3 DEF MailView, MailOf
<1> QED BY <1>1, <1>4 DEF Atomic!Init, Atomic!KERNEL, Atomic!INIT, KERNEL, INIT

\* No step lets a queue outgrow the bound.
LEMMA BoundedStep ==
  ASSUME CoreInv, MailBounded, [Next]_vars
  PROVE  MailBounded'
<1> USE DEF CoreInv
<1>0. \A pid : QueueOf(pid) \in Seq(Messages)
  BY DEF QueueOf, IpcTypeOK
<1>1. ASSUME DOMAIN processes' = DOMAIN processes, UNCHANGED message_queues
      PROVE  MailBounded'
  BY <1>1 DEF MailBounded, QueueOf
<1>2. ASSUME NEW priority \in Priorities, NEW policy \in Policies,
             process_create(priority, policy)
      PROVE  MailBounded'
  <2>1. PICK new : new = next_pid
    OBVIOUS
  <2>2. /\ DOMAIN processes' = DOMAIN processes \cup {new}
        /\ message_queues' = Put(message_queues, new, <<>>)
    BY <1>2, <2>1 DEF process_create, AddProcess, Put
  <2>3. QueueOf(new)' = <<>> /\ \A pid : pid # new => QueueOf(pid)' = QueueOf(pid)
    BY <2>2 DEF Put, QueueOf
  <2>4. Len(QueueOf(new)') <= MaxMail
    BY <2>3, CoreAssumption
  <2> QED BY <2>2, <2>3, <2>4 DEF MailBounded
<1>3. ASSUME NEW pid \in Callers, process_exit(pid)
      PROVE  MailBounded'
  <2>1. /\ DOMAIN processes' = DOMAIN processes
        /\ QueueOf(pid)' = <<>>
        /\ \A other : other # pid => QueueOf(other)' = QueueOf(other)
    BY <1>3 DEF process_exit, TerminateProcess, Del, Restrict, QueueOf
  <2>2. Len(QueueOf(pid)') <= MaxMail
    BY <2>1, CoreAssumption
  <2> QED BY <2>1, <2>2 DEF MailBounded
<1>4. ASSUME NEW pid \in Callers, NEW target \in Targets, NEW message \in Messages,
             ipc_send(pid, target, message)
      PROVE  MailBounded'
  <2>1. /\ DOMAIN processes' = DOMAIN processes
        /\ QueueOf(target)' = Append(QueueOf(target), message)
        /\ Len(QueueOf(target)) < MaxMail
        /\ \A other : other # target => QueueOf(other)' = QueueOf(other)
    BY <1>4 DEF ipc_send, procVars, Put, QueueOf
  <2>2. Len(QueueOf(target)') = Len(QueueOf(target)) + 1
    BY <1>0, <2>1, AppendProperties
  <2>3. Len(QueueOf(target)) \in Nat
    BY <1>0
  <2>4. Len(QueueOf(target)') <= MaxMail
    BY <2>1, <2>2, <2>3, CoreAssumption
  <2> QED BY <2>1, <2>4 DEF MailBounded
<1>5. ASSUME NEW pid \in Callers, ipc_receive(pid)
      PROVE  MailBounded'
  <2>1. /\ DOMAIN processes' = DOMAIN processes /\ pid \in DOMAIN processes
        /\ QueueOf(pid) # <<>> /\ QueueOf(pid)' = Tail(QueueOf(pid))
        /\ \A other : other # pid => QueueOf(other)' = QueueOf(other)
    BY <1>5 DEF ipc_receive, AfterReceive, procVars, QueueOf, Exists, IpcTypeOK
  <2>2. Len(QueueOf(pid)') = Len(QueueOf(pid)) - 1 /\ Len(QueueOf(pid)) \in Nat
    BY <1>0, <2>1
  <2>3. Len(QueueOf(pid)') <= MaxMail
    BY <2>1, <2>2, CoreAssumption DEF MailBounded
  <2> QED BY <2>1, <2>3 DEF MailBounded
<1>6. CASE Schedule \/ ipc_send_wake \/ ipc_receive_block
  BY <1>1, <1>6 DEF Schedule, run_scheduler, ipc_send_wake, WakeProcess, ipc_receive_block,
                    BlockProcess, ipcVars
<1>7. ASSUME NEW priority \in Priorities, NEW policy \in Policies,
             process_create_raises(priority, policy)
      PROVE  MailBounded'
  BY <1>1, <1>7 DEF process_create_raises, RejectProcess, ipcVars
<1>8. ASSUME NEW pid \in Callers, NEW wait_pid \in Callers, process_wait(pid, wait_pid)
      PROVE  MailBounded'
  BY <1>1, <1>8 DEF process_wait, BlockProcess, ipcVars
<1>9. ASSUME UNCHANGED <<procVars, message_queues>>
      PROVE  MailBounded'
  BY <1>1, <1>9 DEF procVars
<1> HIDE DEF CoreInv
<1> QED BY <1>2, <1>3, <1>4, <1>5, <1>6, <1>7, <1>8, <1>9
        DEF Next, vars, ipcVars, ipc_receive_empty, memory_allocate, memory_map, memory_free

\* Each action of CoreSystem is an action of AtomicSyscalls, or changes nothing there:
\* ipc_send_wake sends, ipc_receive_block awaits mail, and the steps before them,
\* like the calls that manage memory, are stutters.
LEMMA AtomicStep ==
  ASSUME CoreInv, MailBounded, Next
  PROVE  Atomic!Next \/ UNCHANGED Atomic!atomicVars
<1> DEFINE Goal == Atomic!Next \/ UNCHANGED Atomic!atomicVars
<1>0. IpcTypeOK /\ CheckedStateHolds
  BY DEF CoreInv
<1>1. CASE Schedule
  <2>1. DOMAIN processes' = DOMAIN processes /\ UNCHANGED ipcVars /\ run_scheduler
    BY <1>1 DEF Schedule, run_scheduler
  <2>2. UNCHANGED MailView
    BY <2>1, MailUnchanged DEF MailOf, QueueOf, ipcVars
  <2>3. Atomic!Schedule
    BY <2>1, <2>2, SameUpdates DEF Atomic!Schedule
  <2> QED BY <2>3 DEF Atomic!Next
<1>2. CASE ipc_send_wake
  <2>1. PICK target \in DOMAIN processes : syscall = [name |-> "ipc_send", pid |-> target]
    BY <1>0, <1>2 DEF ipc_send_wake, IpcTypeOK
  <2>2. /\ syscall' = Idle /\ message_queues' = message_queues
        /\ DOMAIN processes' = DOMAIN processes
        /\ WakeProcess(target)
    BY <1>2, <2>1 DEF ipc_send_wake, WakeProcess
  <2> DEFINE queue == QueueOf(target)
  <2>3. queue \in Seq(Messages) /\ queue # <<>> /\ Len(queue) <= MaxMail
    BY <1>0, <2>1 DEF QueueOf, IpcTypeOK, CheckedStateHolds, MailBounded
  <2>4. /\ MailOf(target) = Front(queue)
        /\ MailOf(target)' = queue
        /\ \A other \in DOMAIN processes : other # target => MailOf(other)' = MailOf(other)
    BY <2>1, <2>2 DEF MailOf, QueueOf, Idle
  <2> HIDE DEF queue
  <2>5. /\ Append(Front(queue), Last(queue)) = queue /\ Last(queue) \in Messages
        /\ Len(Front(queue)) = Len(queue) - 1 /\ Len(queue) \in Nat
    BY <2>3, FrontFacts
  <2>6. MailView' = [MailView EXCEPT ![target] = queue]
    BY <2>2, <2>4, MailChanged
  <2>7. MailView[target] = Front(queue) /\ Len(MailView[target]) < MaxMail
    BY <2>3, <2>4, <2>5, MailDef, CoreAssumption
  <2>8. MailView' = [MailView EXCEPT ![target] = Append(MailView[target], Last(queue))]
    BY <2>5, <2>6, <2>7
  <2>9. Atomic!Send(target, Last(queue))
    BY <2>2, <2>7, <2>8, SameUpdates DEF Atomic!Send, Atomic!Exists
  <2> QED BY <2>5, <2>9 DEF Atomic!Next
<1>3. CASE ipc_receive_block
  <2>1. PICK pid \in DOMAIN processes : syscall = [name |-> "ipc_receive", pid |-> pid]
    BY <1>0, <1>3 DEF ipc_receive_block, IpcTypeOK
  <2>2. /\ syscall' = Idle /\ message_queues' = message_queues
        /\ DOMAIN processes' = DOMAIN processes
        /\ BlockProcess(pid, IpcReceive)
    BY <1>3, <2>1 DEF ipc_receive_block, BlockProcess
  <2>3. UNCHANGED MailView
    BY <2>1, <2>2, MailUnchanged DEF MailOf, QueueOf, Idle
  <2>4. MailView[pid] = <<>>
    BY <1>0, <2>1, MailDef DEF MailOf, CheckedStateHolds
  <2>5. Atomic!AwaitMail(pid)
    BY <2>2, <2>3, <2>4, SameUpdates
       DEF Atomic!AwaitMail, Atomic!Exists, IpcReceive, Atomic!IpcReceive
  <2> QED BY <2>5 DEF Atomic!Next
<1>4. ASSUME NEW priority \in Priorities, NEW policy \in Policies,
             process_create(priority, policy)
      PROVE  Goal
  <2>1. PICK new : new = next_pid
    OBVIOUS
  <2>2. /\ DOMAIN processes' = DOMAIN processes \cup {new} /\ new \notin DOMAIN processes
        /\ message_queues' = Put(message_queues, new, <<>>)
        /\ syscall' = syscall /\ syscall.name # "ipc_send"
        /\ AddProcess
    BY <1>4, <2>1 DEF process_create, AddProcess, Put, Invoke, Idle, CoreInv, ProcessInv,
                      ProcessTypeOK
  <2>3. MailOf(new)' = <<>> /\ \A pid : pid # new => MailOf(pid)' = MailOf(pid)
    BY <2>2 DEF MailOf, Put, QueueOf
  <2>4. /\ MailView = [pid \in DOMAIN processes |-> MailOf(pid)]
        /\ MailView' = [pid \in DOMAIN processes' |-> MailOf(pid)']
    BY DEF MailView, MailOf
  <2>5. MailView' = Atomic!Put(MailView, new, <<>>)
    BY <2>2, <2>3, <2>4 DEF Atomic!Put
  <2>6. Atomic!Create
    BY <2>1, <2>2, <2>5, SameUpdates DEF Atomic!Create
  <2> QED BY <2>6 DEF Atomic!Next
<1>5. ASSUME NEW priority \in Priorities, NEW policy \in Policies,
             process_create_raises(priority, policy)
      PROVE  Goal
  <2>1. DOMAIN processes' = DOMAIN processes /\ UNCHANGED ipcVars /\ RejectProcess
    BY <1>5 DEF process_create_raises, RejectProcess
  <2>2. UNCHANGED MailView
    BY <2>1, MailUnchanged DEF MailOf, QueueOf, ipcVars
  <2>3. Atomic!RejectCreate
    BY <2>1, <2>2, SameUpdates DEF Atomic!RejectCreate
  <2> QED BY <2>3 DEF Atomic!Next
<1>6. ASSUME NEW pid \in Callers, process_exit(pid)
      PROVE  Goal
  <2>1. /\ DOMAIN processes' = DOMAIN processes /\ pid \in DOMAIN processes
        /\ message_queues' = Del(message_queues, pid)
        /\ syscall' = syscall /\ syscall.name # "ipc_send"
        /\ TerminateProcess(pid)
    BY <1>6 DEF process_exit, TerminateProcess, Exists, Invoke, Idle
  <2>2. MailOf(pid)' = <<>> /\ \A other : other # pid => MailOf(other)' = MailOf(other)
    BY <2>1 DEF MailOf, Del, Restrict, QueueOf
  <2>3. MailView' = [MailView EXCEPT ![pid] = <<>>]
    BY <2>1, <2>2, MailChanged
  <2>4. Atomic!Exit(pid)
    BY <2>1, <2>3, SameUpdates DEF Atomic!Exit, Atomic!Exists
  <2> QED BY <2>1, <2>4 DEF Atomic!Next
<1>7. ASSUME NEW pid \in Callers, NEW wait_pid \in Callers, process_wait(pid, wait_pid)
      PROVE  Goal
  <2>1. /\ DOMAIN processes' = DOMAIN processes /\ UNCHANGED ipcVars
        /\ pid \in DOMAIN processes /\ wait_pid \in DOMAIN processes
        /\ processes[wait_pid] # "TERMINATED" /\ BlockProcess(pid, WaitFor(wait_pid))
    BY <1>7 DEF process_wait, BlockProcess, Exists
  <2>2. UNCHANGED MailView
    BY <2>1, MailUnchanged DEF MailOf, QueueOf, ipcVars
  <2>3. Atomic!Wait(pid, wait_pid)
    BY <2>1, <2>2, SameUpdates DEF Atomic!Wait, Atomic!Exists, WaitFor, Atomic!WaitFor
  <2> QED BY <2>1, <2>3 DEF Atomic!Next
<1>8. ASSUME NEW pid \in Callers, NEW target \in Targets, NEW message \in Messages,
             ipc_send(pid, target, message)
      PROVE  Goal
  <2>1. /\ target \in DOMAIN processes
        /\ message_queues' = Put(message_queues, target, Append(QueueOf(target), message))
        /\ syscall' = [name |-> "ipc_send", pid |-> target]
        /\ syscall.name # "ipc_send"
        /\ UNCHANGED procVars
    BY <1>8 DEF ipc_send, Connected, Exists, Invoke, Idle
  <2>2. QueueOf(target) \in Seq(Messages)
    BY <1>0 DEF IpcTypeOK, QueueOf
  <2>3. Front(Append(QueueOf(target), message)) = QueueOf(target)
    BY <2>2, FrontOfAppend
  <2>4. MailOf(target)' = MailOf(target)
    BY <2>1, <2>3 DEF MailOf, QueueOf, Put
  <2>5. \A other : other # target => MailOf(other)' = MailOf(other)
    BY <2>1 DEF MailOf, QueueOf, Put
  <2>6. UNCHANGED MailView
    BY <2>1, <2>4, <2>5, MailUnchanged DEF procVars
  <2> QED BY <2>1, <2>6 DEF Atomic!atomicVars, procVars
<1>9. ASSUME NEW pid \in Callers, ipc_receive(pid)
      PROVE  Goal
  <2>1. /\ pid \in DOMAIN processes /\ QueueOf(pid) # <<>>
        /\ pid \in DOMAIN message_queues
        /\ message_queues' = [message_queues EXCEPT ![pid] = Tail(QueueOf(pid))]
        /\ syscall' = syscall /\ syscall.name # "ipc_send"
        /\ UNCHANGED procVars
    BY <1>9 DEF ipc_receive, AfterReceive, QueueOf, Exists, Invoke, Idle
  <2>2. /\ MailOf(pid)' = Tail(MailOf(pid)) /\ MailOf(pid) # <<>>
        /\ \A other : other # pid => MailOf(other)' = MailOf(other)
    BY <1>0, <2>1 DEF MailOf, QueueOf, IpcTypeOK
  <2>3. MailView' = [MailView EXCEPT ![pid] = Tail(MailOf(pid))] /\ MailView[pid] = MailOf(pid)
    BY <2>1, <2>2, MailChanged, MailDef DEF procVars
  <2>4. Atomic!Receive(pid)
    BY <2>1, <2>2, <2>3 DEF Atomic!Receive, Atomic!Exists, Atomic!procVars, procVars
  <2> QED BY <2>1, <2>4 DEF Atomic!Next
<1>10. ASSUME NEW pid \in Callers, ipc_receive_empty(pid)
       PROVE  Goal
  <2>1. /\ message_queues' = message_queues /\ UNCHANGED procVars
        /\ syscall.name # "ipc_send" /\ syscall'.name # "ipc_send"
    BY <1>10 DEF ipc_receive_empty, Invoke, Idle
  <2>2. UNCHANGED MailView
    BY <2>1, MailUnchanged DEF MailOf, QueueOf, procVars
  <2> QED BY <2>1, <2>2 DEF Atomic!atomicVars, procVars
<1>11. ASSUME UNCHANGED <<procVars, ipcVars>>
       PROVE  Goal
  <2>1. UNCHANGED MailView
    BY <1>11, MailUnchanged DEF MailOf, QueueOf, procVars, ipcVars
  <2> QED BY <1>11, <2>1 DEF Atomic!atomicVars, procVars
<1> QED BY <1>1, <1>2, <1>3, <1>4, <1>5, <1>6, <1>7, <1>8, <1>9, <1>10, <1>11
        DEF Next, memory_allocate, memory_map, memory_free

\* A stutter of CoreSystem is one of AtomicSyscalls.
LEMMA AtomicStutter ==
  ASSUME UNCHANGED vars
  PROVE  UNCHANGED Atomic!atomicVars
<1>1. UNCHANGED MailView
  BY DEF vars, procVars, ipcVars, MailView, QueueOf
<1> QED BY <1>1 DEF vars, procVars, Atomic!atomicVars

\* No queue has a message at first.
LEMMA BoundedInit == Init => MailBounded
BY CoreAssumption DEF Init, MailBounded, QueueOf

\* The two-step calls appear atomic: CoreSystem implements AtomicSyscalls.
THEOREM AppearsAtomic == Spec => AtomicSafety
<1>1. CoreInv /\ MailBounded /\ [Next]_vars => [Atomic!Next]_(Atomic!atomicVars)
  BY AtomicStep, AtomicStutter
<1>2. CoreInv /\ MailBounded /\ [Next]_vars => MailBounded'
  BY BoundedStep
<1> QED BY AtomicInit, BoundedInit, <1>1, <1>2, CoreInvariant, PTL
        DEF Spec, AtomicSafety, Atomic!SafeSpec

\* As clients see it, no process that awaits mail has mail.
SleepersHaveNoMail == \A pid \in DOMAIN processes : AwaitsMail(pid) => MailView[pid] = <<>>

\* AtomicSyscalls keeps sleepers without mail: Send wakes its target, and AwaitMail
\* finds the mailbox empty.
LEMMA SleepStep ==
  ASSUME CoreInv, SleepersHaveNoMail, [Atomic!Next]_(Atomic!atomicVars)
  PROVE  SleepersHaveNoMail'
<1> DEFINE mail == MailView
<1> USE DEF SleepersHaveNoMail, Atomic!Exists
<1>1. DOMAIN mail = DOMAIN processes /\ DOMAIN blocked_processes \subseteq DOMAIN processes
  BY MailDef DEF CoreInv, ProcessInv, BlockedExact
<1> HIDE DEF mail
<1>2. CASE Atomic!Schedule \/ Atomic!RejectCreate \/ UNCHANGED Atomic!atomicVars
  BY <1>2 DEF Atomic!Schedule, Atomic!run_scheduler, Atomic!RejectCreate,
              Atomic!RejectProcess, Atomic!atomicVars, AwaitsMail
<1>3. CASE Atomic!Create
  BY <1>1, <1>3 DEF Atomic!Create, Atomic!AddProcess, Atomic!Put, AwaitsMail, mail
<1>4. ASSUME NEW pid \in DOMAIN processes, Atomic!Exit(pid)
      PROVE  SleepersHaveNoMail'
  BY <1>1, <1>4 DEF Atomic!Exit, Atomic!TerminateProcess, Atomic!Unblock, Atomic!Del,
     Atomic!Restrict, AwaitsMail, mail
<1>5. ASSUME NEW pid \in DOMAIN processes, NEW other \in DOMAIN processes,
             Atomic!Wait(pid, other)
      PROVE  SleepersHaveNoMail'
  BY <1>1, <1>5 DEF Atomic!Wait, Atomic!BlockProcess, Atomic!Put, Atomic!WaitFor, AwaitsMail, mail
<1>6. ASSUME NEW pid \in DOMAIN processes, NEW message \in Messages, Atomic!Send(pid, message)
      PROVE  SleepersHaveNoMail'
  BY <1>1, <1>6 DEF Atomic!Send, Atomic!WakeProcess, Atomic!AwaitsMail, Atomic!Unblock, Atomic!Del,
     Atomic!Restrict, AwaitsMail, mail
<1>7. ASSUME NEW pid \in DOMAIN processes, Atomic!Receive(pid)
      PROVE  SleepersHaveNoMail'
  BY <1>1, <1>7 DEF Atomic!Receive, Atomic!procVars, AwaitsMail, mail
<1>8. ASSUME NEW pid \in DOMAIN processes, Atomic!AwaitMail(pid)
      PROVE  SleepersHaveNoMail'
  BY <1>1, <1>8 DEF Atomic!AwaitMail, Atomic!BlockProcess, Atomic!Put, AwaitsMail, mail
<1> QED BY <1>2, <1>3, <1>4, <1>5, <1>6, <1>7, <1>8 DEF Atomic!Next

\* No process that awaits mail has mail: shown of AtomicSyscalls, it holds of
\* CoreSystem, whose steps are steps of AtomicSyscalls.
THEOREM SleepersAreWoken == Spec => []SleepersHaveNoMail
<1>1. Init => SleepersHaveNoMail
  BY DEF Init, ProcessInit, SleepersHaveNoMail, AwaitsMail
<1>2. CoreInv /\ MailBounded /\ SleepersHaveNoMail /\ [Next]_vars
        => SleepersHaveNoMail'
  BY AtomicStep, AtomicStutter, SleepStep
<1>3. CoreInv /\ MailBounded /\ [Next]_vars => MailBounded'
  BY BoundedStep
<1> QED BY BoundedInit, <1>1, <1>2, <1>3, CoreInvariant, PTL DEF Spec

-----------------------------------------------------------------------------
(***************************************************************************)
(* memory_usage and the pages of the process.                              *)
(***************************************************************************)
\* Nobody maps a region.
NoMappings == "memory_map" \notin Syscalls

\* What is counted are numbers.
LEMMA UsageFacts ==
  ASSUME MemoryTypeOK, RegionsFinite
  PROVE  \A pid \in DOMAIN processes : memory_usage[pid] \in Int /\ PagesOf(pid) \in Nat
<1>1. \A pid \in DOMAIN processes : memory_usage[pid] \in Int
  BY DEF MemoryTypeOK
<1> QED BY <1>1, PagesOfIs

\* A step that leaves the regions and the counters alone.
LEMMA UsageIdle ==
  ASSUME MemoryInv, RegionsFinite, UNCHANGED memVars, DOMAIN processes' = DOMAIN processes
  PROVE  /\ RegionsFinite'
         /\ UsageNeverOverReports => UsageNeverOverReports'
         /\ UsageExact => UsageExact'
<1>1. UNCHANGED <<memory_regions, memory_usage>>
  BY DEF memVars
<1>2. \A pid : PagesOf(pid)' = PagesOf(pid)
  BY <1>1, PagesKept DEF MemoryInv, OwnedBy
<1>3. RegionsFinite'
  BY <1>1 DEF RegionsFinite
<1> QED BY <1>1, <1>2, <1>3 DEF UsageNeverOverReports, UsageExact

\* process_create counts the 7 MB that it gives.
LEMMA UsageCreate ==
  ASSUME ProcessTypeOK, MemoryInv, RegionsFinite, AddProcess, InitProcessMemory(next_pid)
  PROVE  /\ RegionsFinite'
         /\ UsageNeverOverReports => UsageNeverOverReports'
         /\ \A strays : next_pid \notin strays /\ OwnersKnown(strays) /\ UsageExact => UsageExact'
<1>1. PICK new \in Nat : new = next_pid
  BY DEF ProcessTypeOK
<1>2. /\ DOMAIN processes' = DOMAIN processes \cup {new} /\ new \notin DOMAIN processes
      /\ memory_usage'[new] = 7 * MB
      /\ \A pid \in DOMAIN processes : memory_usage'[pid] = memory_usage[pid]
  BY <1>1 DEF AddProcess, InitProcessMemory, Put, ProcessTypeOK, MemoryInv, MemoryTypeOK
<1>3. /\ RegionsFinite'
      /\ PagesOf(new)' = PagesOf(new) + 7 * MB
      /\ \A pid : pid # new => PagesOf(pid)' = PagesOf(pid)
  BY <1>1, PagesCreateFacts
<1>4. PagesOf(new) \in Nat
  BY PagesOfIs DEF MemoryInv
<1>5. 7 * MB \in Nat
  BY DEF MB
<1>6. memory_usage'[new] <= PagesOf(new)'
  BY <1>2, <1>3, <1>4, <1>5
<1>7. UsageNeverOverReports => UsageNeverOverReports'
  BY <1>2, <1>3, <1>6 DEF UsageNeverOverReports
<1>8. ASSUME NEW strays, next_pid \notin strays, OwnersKnown(strays), UsageExact
      PROVE  UsageExact'
  <2>1. OwnedBy(new) = {}
    BY <1>1, <1>2, <1>8 DEF OwnersKnown, OwnedBy
  <2>2. PagesOf(new) = 0
    BY <2>1, PagesOfIs, PagesFirst DEF MemoryInv
  <2>3. memory_usage'[new] = PagesOf(new)'
    BY <1>2, <1>3, <1>5, <2>2
  <2> QED BY <1>2, <1>3, <1>8, <2>3 DEF UsageExact
<1> QED BY <1>3, <1>7, <1>8

\* process_exit counts nothing any more.
LEMMA UsageExit ==
  ASSUME MemoryInv, MemoryInv', RegionsFinite, NEW pid \in DOMAIN processes,
         DOMAIN processes' = DOMAIN processes, FreeProcessMemory(pid)
  PROVE  /\ RegionsFinite'
         /\ UsageNeverOverReports => UsageNeverOverReports'
         /\ OwnedBy(pid)' = {} /\ UsageExact => UsageExact'
<1>1. CASE pid \notin DOMAIN process_memory
  BY <1>1, UsageIdle DEF FreeProcessMemory
<1>2. CASE pid \in DOMAIN process_memory
  <2>1. memory_usage' = [memory_usage EXCEPT ![pid] = 0] /\ DOMAIN memory_usage = DOMAIN processes
    BY <1>2 DEF FreeProcessMemory, MemoryInv, MemoryTypeOK
  <2>2. /\ RegionsFinite' /\ PagesOf(pid)' \in Nat
        /\ \A other : other # pid => PagesOf(other)' = PagesOf(other)
    BY PagesExitFacts DEF MemoryInv
  <2>3. memory_usage'[pid] <= PagesOf(pid)'
    BY <2>1, <2>2
  <2>4. UsageNeverOverReports => UsageNeverOverReports'
    BY <2>1, <2>2, <2>3 DEF UsageNeverOverReports
  <2>5. ASSUME OwnedBy(pid)' = {}, UsageExact
        PROVE  UsageExact'
    <3>1. PagesOf(pid)' = 0
      BY <2>5, PagesOfNext, PagesFirst, FS_EmptySet
    <3> QED BY <2>1, <2>2, <2>5, <3>1 DEF UsageExact
  <2> QED BY <2>2, <2>4, <2>5
<1> QED BY <1>1, <1>2

\* memory_allocate counts what it gives.
LEMMA UsageAllocate ==
  ASSUME MemoryInv, RegionsFinite, DOMAIN processes' = DOMAIN processes,
         NEW pid, NEW size \in Int, NEW uuid, Allocate(pid, size, uuid)
  PROVE  /\ RegionsFinite'
         /\ UsageNeverOverReports => UsageNeverOverReports'
         /\ UsageExact => UsageExact'
<1>1. /\ pid \in DOMAIN processes /\ size \in Nat
      /\ memory_usage' = [memory_usage EXCEPT ![pid] = memory_usage[pid] + size]
      /\ DOMAIN memory_usage = DOMAIN processes
  BY DEF Allocate, Exists, ValidSize, MemoryInv, MemoryTypeOK
<1>2. PICK start \in Ends(pid) : AddRegion(uuid, Region(start, size, pid, "NORMAL"))
  BY DEF Allocate
<1>3. /\ RegionsFinite'
      /\ PagesOf(pid)' = PagesOf(pid) + size
      /\ \A other : other # pid => PagesOf(other)' = PagesOf(other)
  <2> DEFINE region == Region(start, size, pid, "NORMAL")
  <2>1. region.size = size /\ region.owner_pid = pid
    BY DEF Region
  <2>2. AddRegion(uuid, region)
    BY <1>2
  <2> HIDE DEF region
  <2> QED BY <1>1, <2>1, <2>2, PagesAddFacts
<1>4. \A other \in DOMAIN processes : memory_usage[other] \in Int /\ PagesOf(other) \in Nat
  BY UsageFacts DEF MemoryInv
<1>5. memory_usage[pid] <= PagesOf(pid) => memory_usage'[pid] <= PagesOf(pid)'
  BY <1>1, <1>3, <1>4
<1>6. memory_usage[pid] = PagesOf(pid) => memory_usage'[pid] = PagesOf(pid)'
  BY <1>1, <1>3, <1>4
<1>7. \A other \in DOMAIN processes : other # pid => memory_usage'[other] = memory_usage[other]
  BY <1>1
<1> QED BY <1>1, <1>3, <1>5, <1>6, <1>7 DEF UsageNeverOverReports, UsageExact

\* memory_map gives pages and counts none.
LEMMA UsageMap ==
  ASSUME MemoryInv, RegionsFinite, DOMAIN processes' = DOMAIN processes,
         NEW pid, NEW target, NEW address, NEW uuid, Map(pid, target, address, uuid)
  PROVE  RegionsFinite' /\ (UsageNeverOverReports => UsageNeverOverReports')
<1>1. PICK size \in Nat : size = memory_regions[target].size
  BY DEF Map, MemoryInv, MemoryTypeOK
<1>2. PICK start : AddRegion(uuid, Region(start, size, pid, "SHARED"))
  BY <1>1 DEF Map
<1>3. /\ RegionsFinite'
      /\ PagesOf(pid)' = PagesOf(pid) + size
      /\ \A other : other # pid => PagesOf(other)' = PagesOf(other)
  <2> DEFINE region == Region(start, size, pid, "SHARED")
  <2>1. region.size = size /\ region.owner_pid = pid
    BY DEF Region
  <2>2. AddRegion(uuid, region)
    BY <1>2
  <2> HIDE DEF region
  <2> QED BY <2>1, <2>2, PagesAddFacts
<1>4. \A other \in DOMAIN processes : memory_usage[other] \in Int /\ PagesOf(other) \in Nat
  BY UsageFacts DEF MemoryInv
<1>5. ASSUME NEW other \in DOMAIN processes, memory_usage[other] <= PagesOf(other)
      PROVE  memory_usage[other] <= PagesOf(other)'
  BY <1>3, <1>4, <1>5
<1>6. memory_usage' = memory_usage
  BY DEF Map
<1> QED BY <1>3, <1>5, <1>6 DEF UsageNeverOverReports

\* memory_free takes what it discounts.
LEMMA UsageFree ==
  ASSUME MemoryInv, RegionsFinite, UNCHANGED processes, NEW pid, NEW id, Free(pid, id)
  PROVE  /\ RegionsFinite'
         /\ UsageNeverOverReports => UsageNeverOverReports'
         /\ UsageExact => UsageExact'
<1>1. PICK size \in Nat : size = memory_regions[id].size
  BY DEF Free, MemoryInv, MemoryTypeOK
<1>2. /\ RegionsFinite'
      /\ PagesOf(pid)' = PagesOf(pid) - size
      /\ \A other : other # pid => PagesOf(other)' = PagesOf(other)
  BY <1>1, PagesFreeFacts
<1>3. \A other \in DOMAIN processes : memory_usage[other] \in Int /\ PagesOf(other) \in Nat
  BY UsageFacts DEF MemoryInv
<1>4. \A other \in DOMAIN processes : other # pid => memory_usage'[other] = memory_usage[other]
  BY DEF Free, Discount, MemoryInv, MemoryTypeOK
<1>5. pid \in DOMAIN processes => memory_usage'[pid] = memory_usage[pid] - size
  BY <1>1 DEF Free, Discount, Exists, MemoryInv, MemoryTypeOK
<1>6. ASSUME pid \in DOMAIN processes
      PROVE  /\ memory_usage[pid] <= PagesOf(pid) => memory_usage'[pid] <= PagesOf(pid)'
             /\ memory_usage[pid] = PagesOf(pid) => memory_usage'[pid] = PagesOf(pid)'
  BY <1>2, <1>3, <1>5, <1>6
<1> QED BY <1>2, <1>4, <1>6 DEF UsageNeverOverReports, UsageExact

\* No step counts more than it gives; without mappings it counts all of it.
LEMMA UsageStep ==
  ASSUME CoreInv, MemoryInv', RegionsFinite, [Next]_vars
  PROVE  /\ RegionsFinite'
         /\ UsageNeverOverReports => UsageNeverOverReports'
         /\ StraysStay /\ NoMappings /\ IndexInv /\ UsageExact => UsageExact'
<1> DEFINE Goal == /\ RegionsFinite'
                   /\ UsageNeverOverReports => UsageNeverOverReports'
                   /\ StraysStay /\ NoMappings /\ IndexInv /\ UsageExact => UsageExact'
<1>0. ProcessInv /\ ProcessTypeOK /\ MemoryInv
  BY DEF CoreInv, ProcessInv
<1>1. ASSUME UNCHANGED memVars, DOMAIN processes' = DOMAIN processes
      PROVE  Goal
  BY <1>0, <1>1, UsageIdle
<1>2. ASSUME NEW priority \in Priorities, NEW policy \in Policies,
             process_create(priority, policy)
      PROVE  Goal
  <2>1. AddProcess /\ InitProcessMemory(next_pid)
    BY <1>2 DEF process_create
  <2>2. StraysStay => next_pid \notin StrayCallers
    BY <1>0, <2>1, MaxPidAssumption DEF AddProcess, StraysStay, ProcessTypeOK, FIRST_PID
  <2> QED BY <1>0, <2>1, <2>2, UsageCreate DEF IndexInv
<1>3. ASSUME NEW pid \in Callers, process_exit(pid)
      PROVE  Goal
  <2>1. /\ pid \in DOMAIN processes /\ DOMAIN processes' = DOMAIN processes
        /\ FreeProcessMemory(pid) /\ TerminateProcess(pid)
    BY <1>3 DEF process_exit, TerminateProcess, Exists
  <2>2. IndexInv => OwnedBy(pid)' = {}
    BY <1>0, <1>3, <2>1, MemoryExitFacts DEF process_exit, IndexInv
  <2> QED BY <1>0, <2>1, <2>2, UsageExit
<1>4. ASSUME NEW pid \in Callers, NEW uuid \in UUIDs, NEW size \in AllocSizes,
             memory_allocate(pid, size, uuid)
      PROVE  Goal
  <2>1. size \in Int /\ DOMAIN processes' = DOMAIN processes /\ Allocate(pid, size, uuid)
    BY <1>4, AllocSizesAssumption DEF memory_allocate, procVars
  <2> QED BY <1>0, <2>1, UsageAllocate
<1>5. ASSUME NEW pid \in Callers, NEW uuid \in UUIDs, NEW target \in DOMAIN memory_regions,
             NEW address \in MapAddresses, memory_map(pid, target, address, uuid)
      PROVE  Goal
  <2>1. /\ ~NoMappings /\ DOMAIN processes' = DOMAIN processes
        /\ Map(pid, target, address, uuid)
    BY <1>5 DEF memory_map, procVars, Invoke, NoMappings
  <2> QED BY <1>0, <2>1, UsageMap
<1>6. ASSUME NEW pid \in Callers, NEW id \in DOMAIN memory_regions, memory_free(pid, id)
      PROVE  Goal
  BY <1>0, <1>6, UsageFree DEF memory_free, procVars
<1>7. CASE Schedule \/ ipc_send_wake \/ ipc_receive_block
  BY <1>1, <1>7 DEF Schedule, run_scheduler, ipc_send_wake, WakeProcess, ipc_receive_block,
                    BlockProcess
<1>8. ASSUME NEW priority \in Priorities, NEW policy \in Policies,
             process_create_raises(priority, policy)
      PROVE  Goal
  BY <1>1, <1>8 DEF process_create_raises, RejectProcess
<1>9. ASSUME NEW pid \in Callers, NEW wait_pid \in Callers, process_wait(pid, wait_pid)
      PROVE  Goal
  BY <1>1, <1>9 DEF process_wait, BlockProcess
<1>10. ASSUME UNCHANGED <<procVars, memVars>>
       PROVE  Goal
  BY <1>1, <1>10 DEF procVars
<1>11. ASSUME NEW pid \in Callers, NEW target \in Targets, NEW message \in Messages,
              ipc_send(pid, target, message)
       PROVE  Goal
  BY <1>10, <1>11 DEF ipc_send
<1>12. ASSUME NEW pid \in Callers, ipc_receive(pid) \/ ipc_receive_empty(pid)
       PROVE  Goal
  BY <1>10, <1>12 DEF ipc_receive, ipc_receive_empty
<1>13. CASE UNCHANGED vars
  BY <1>10, <1>13 DEF vars
<1> QED BY <1>2, <1>3, <1>4, <1>5, <1>6, <1>7, <1>8, <1>9, <1>11, <1>12, <1>13 DEF Next

\* init has no regions, and the regions of the kernel are not counted.
LEMMA UsageInit == Init => RegionsFinite /\ UsageNeverOverReports /\ UsageExact
<1> SUFFICES ASSUME Init PROVE RegionsFinite /\ UsageNeverOverReports /\ UsageExact
  OBVIOUS
<1>1. MemoryInv
  BY MemoryInitFacts DEF Init
<1>2. RegionsFinite
  <2>1. DOMAIN memory_regions = {<<KERNEL, "kernel_main">>} \cup {<<KERNEL, "system_shared">>}
    BY DEF Init, MemoryInit, KernelRegions
  <2>2. IsFiniteSet({<<KERNEL, "kernel_main">>})
    BY FS_Singleton
  <2> QED BY <2>1, <2>2, FS_AddElement DEF RegionsFinite
<1>3. \A pid \in DOMAIN processes : PagesOf(pid) \in Nat
  BY <1>1, <1>2, PagesOfIs DEF MemoryInv
<1>4. \A pid \in DOMAIN processes : memory_usage[pid] = 0
  BY DEF Init, MemoryInit, ProcessInit
<1>5. DOMAIN processes \ {KERNEL} = {INIT}
  BY DEF Init, ProcessInit, KERNEL, INIT
<1>6. OwnedBy(INIT) = {}
  BY DEF Init, MemoryInit, KernelRegions, Region, OwnedBy, KERNEL, INIT
<1>7. PagesOf(INIT) = 0
  BY <1>1, <1>2, <1>6, PagesOfIs, PagesFirst DEF MemoryInv
<1>8. UsageNeverOverReports
  BY <1>3, <1>4 DEF UsageNeverOverReports
<1>9. UsageExact
  BY <1>4, <1>5, <1>7 DEF UsageExact
<1> QED BY <1>2, <1>8, <1>9

\* Whatever is allocated, mapped and freed, and whoever calls, memory_usage claims no
\* more memory than the process has.
THEOREM UsageBounded == Spec => []UsageNeverOverReports
<1>1. CoreInv /\ CoreInv' /\ RegionsFinite /\ UsageNeverOverReports /\ [Next]_vars
        => RegionsFinite' /\ UsageNeverOverReports'
  BY UsageStep DEF CoreInv
<1> QED BY UsageInit, <1>1, CoreInvariant, PTL DEF Spec

\* Mappings are all that memory_usage misses: without them, and unless a client calls
\* with the pid of a process that is yet to be created, memory_usage is exact.
THEOREM UsageCorrect == StraysStay /\ NoMappings => (Spec => []UsageExact)
<1> SUFFICES ASSUME StraysStay, NoMappings PROVE Spec => []UsageExact
  OBVIOUS
<1>1. CoreInv /\ CoreInv' /\ RegionsFinite /\ IndexInv /\ UsageExact /\ [Next]_vars
        => RegionsFinite' /\ UsageExact'
  BY UsageStep DEF CoreInv
<1>2. CoreInv /\ IndexInv /\ [Next]_vars => IndexInv'
  BY MemoryStep, StutterFacts DEF CoreInv
<1> QED BY UsageInit, IndexInvInit, <1>1, <1>2, CoreInvariant, PTL DEF Spec
=============================================================================
