----------------------------- MODULE CoreSystem -----------------------------
(***************************************************************************)
(* CoreSystem (core_system.py) as its clients see it: threads invoke       *)
(* system calls on behalf of processes while the scheduler thread passes   *)
(* over the ready queue.                                                   *)
(*                                                                         *)
(* invoke_syscall holds _syscall_lock around the whole handler, so one     *)
(* system call runs at a time.  A handler is one step when all it changes  *)
(* is behind one lock that the scheduler and the query functions also      *)
(* take.  ipc_send and ipc_receive work on the message queues first and    *)
(* take _proc_lock afterwards: they are two steps each, between which the  *)
(* scheduler may run, and the variable syscall says which call is between  *)
(* its two critical sections.  A call that ends in an early return or      *)
(* raises before its first assignment changes nothing and is no step.      *)
(***************************************************************************)
EXTENDS MemoryManager

CONSTANTS
  Messages,      \* the messages that clients send
  MaxMail,       \* bound: the messages that wait in one message queue
  Priorities,    \* the priority arguments that clients give process_create
  Policies,      \* the policy arguments that clients give process_create
  Targets,       \* the pids that clients send messages to, live or not
  Clients,       \* the pids that call once a process has them
  StrayCallers,  \* the pids that call whether a process has them or not
  Syscalls       \* the system calls that the clients of this instance make

\* The table of system calls.
SyscallTable ==
  {"process_create", "process_exit", "process_wait",
   "memory_allocate", "memory_free", "memory_map",
   "ipc_send", "ipc_receive"}

ASSUME CoreAssumption ==
  /\ Syscalls \subseteq SyscallTable
  /\ MaxMail \in Nat
  /\ Priorities \subseteq Int
  /\ Policies \subseteq Int
  /\ StrayCallers \subseteq Nat

VARIABLES
  message_queues,  \* pid -> the messages sent to it, oldest first (a dict)
  syscall          \* the call that holds _syscall_lock between two steps

ipcVars == <<message_queues, syscall>>
vars    == <<procVars, memVars, ipcVars>>

Idle == [name |-> "idle", pid |-> KERNEL]

\* The messages that wait for a process, none when it has no queue.
QueueOf(pid) ==
  IF pid \in DOMAIN message_queues THEN message_queues[pid] ELSE <<>>

\* invoke_syscall enters a handler: the call is registered and _syscall_lock
\* is free.
Invoke_unlocked(name) == name \in Syscalls
Invoke(name) == name \in Syscalls /\ syscall = Idle

-----------------------------------------------------------------------------
Init ==
  /\ ProcessInit
  /\ MemoryInit
  /\ message_queues = [pid \in {} |-> <<>>]
  /\ syscall = Idle

\* One pass of the scheduler thread.
Schedule == run_scheduler /\ UNCHANGED <<memVars, ipcVars>>

\* ProcessPriority(min(max(0, n), 50)) and SchedulingPolicy(min(max(0, n), 4)):
\* the clamped number must be a value of the Enum, or a ValueError is raised.
\* SchedulingPolicy numbers its members with auto(), from 1.
Clamp(n, top)     == IF n < 0 THEN 0 ELSE IF n > top THEN top ELSE n
IsPriority(n)     == Clamp(n, 50) \in {0, 10, 20, 30, 40, 50}
IsPolicy(n)       == Clamp(n, 4) \in 1..5

process_create(priority, policy) ==
  /\ Invoke("process_create")
  /\ IsPriority(priority) /\ IsPolicy(policy)
  /\ AddProcess
  /\ InitProcessMemory(next_pid)
  /\ message_queues' = Put(message_queues, next_pid, <<>>)
  /\ UNCHANGED syscall

process_create_raises(priority, policy) ==
  /\ Invoke("process_create")
  /\ ~(IsPriority(priority) /\ IsPolicy(policy))
  /\ RejectProcess
  /\ UNCHANGED <<memVars, ipcVars>>

process_exit(pid) ==
  /\ Invoke("process_exit")
  /\ Exists(pid)
  /\ TerminateProcess(pid)
  /\ FreeProcessMemory(pid)
  /\ message_queues' = Del(message_queues, pid)
  /\ UNCHANGED syscall

\* Waiting for a terminated process returns its exit code and changes nothing.
process_wait(pid, wait_pid) ==
  /\ Invoke("process_wait")
  /\ Exists(pid) /\ Exists(wait_pid)
  /\ processes[wait_pid] # "TERMINATED"
  /\ BlockProcess(pid, WaitFor(wait_pid))
  /\ UNCHANGED <<memVars, ipcVars>>

memory_allocate(pid, size, uuid) ==
  /\ Invoke("memory_allocate")
  /\ Allocate(pid, size, uuid)
  /\ UNCHANGED <<procVars, ipcVars>>

memory_free(pid, id) ==
  /\ Invoke("memory_free")
  /\ Free(pid, id)
  /\ UNCHANGED <<procVars, ipcVars>>

memory_map(pid, target, local_address, uuid) ==
  /\ Invoke("memory_map")
  /\ Map(pid, target, local_address, uuid)
  /\ UNCHANGED <<procVars, ipcVars>>

\* ipc_send knows both ends of the message.
Connected_sender(pid, target) == Exists(pid)
Connected(pid, target) == Exists(pid) /\ Exists(target)

\* ipc_send: the message enters the target's queue, which is created if there
\* is none ...
ipc_send(pid, target, message) ==
  /\ Invoke("ipc_send")
  /\ Connected(pid, target)
  /\ Len(QueueOf(target)) < MaxMail
  /\ message_queues' = Put(message_queues, target, Append(QueueOf(target), message))
  /\ syscall' = [name |-> "ipc_send", pid |-> target]
  /\ UNCHANGED <<procVars, memVars>>

\* ... and then, behind _proc_lock, a target that awaits mail is woken.
ipc_send_wake ==
  /\ syscall.name = "ipc_send"
  /\ WakeProcess(syscall.pid)
  /\ syscall' = Idle
  /\ UNCHANGED <<memVars, message_queues>>

AfterReceive_newest(queue) == Front(queue)
AfterReceive(queue) == Tail(queue)

\* ipc_receive takes the oldest message ...
ipc_receive(pid) ==
  /\ Invoke("ipc_receive")
  /\ Exists(pid)
  /\ QueueOf(pid) # <<>>
  /\ message_queues' = [message_queues EXCEPT ![pid] = AfterReceive(@)]
  /\ UNCHANGED <<procVars, memVars, syscall>>

\* ... or, when there is none and wait is set, goes on ...
ipc_receive_empty(pid) ==
  /\ Invoke("ipc_receive")
  /\ Exists(pid)
  /\ QueueOf(pid) = <<>>
  /\ syscall' = [name |-> "ipc_receive", pid |-> pid]
  /\ UNCHANGED <<procVars, memVars, message_queues>>

\* ... to block its caller behind _proc_lock.
ipc_receive_block ==
  /\ syscall.name = "ipc_receive"
  /\ BlockProcess(syscall.pid, IpcReceive)
  /\ syscall' = Idle
  /\ UNCHANGED <<memVars, message_queues>>

Callers == (DOMAIN processes \cap Clients) \cup StrayCallers

Next ==
  \/ Schedule
  \/ ipc_send_wake
  \/ ipc_receive_block
  \/ \E priority \in Priorities, policy \in Policies :
       \/ process_create(priority, policy)
       \/ process_create_raises(priority, policy)
  \/ \E pid \in Callers :
       \/ process_exit(pid)
       \/ \E wait_pid \in Callers : process_wait(pid, wait_pid)
       \/ \E target \in Targets, message \in Messages : ipc_send(pid, target, message)
       \/ ipc_receive(pid)
       \/ ipc_receive_empty(pid)
       \/ \E uuid \in UUIDs :
            \/ \E size \in AllocSizes : memory_allocate(pid, size, uuid)
            \/ \E target \in DOMAIN memory_regions, address \in MapAddresses :
                 memory_map(pid, target, address, uuid)
       \/ \E id \in DOMAIN memory_regions : memory_free(pid, id)

Spec == Init /\ [][Next]_vars

\* The scheduler thread passes over the queue every millisecond, and a thread
\* between the two steps of a call waits for no one but _proc_lock.
Fairness ==
  /\ WF_vars(Schedule)
  /\ WF_vars(ipc_send_wake)
  /\ WF_vars(ipc_receive_block)

FairSpec == Spec /\ Fairness
-----------------------------------------------------------------------------
(***************************************************************************)
(* Properties of processes and messages.                                   *)
(***************************************************************************)

\* Type correctness of the process table, the region table, the message queues,
\* which only processes have, and the call in flight.
TypeOK ==
  /\ ProcessTypeOK
  /\ MemoryTypeOK
  /\ DOMAIN message_queues \subseteq DOMAIN processes
  /\ message_queues \in [DOMAIN message_queues -> Seq(Messages)]
  /\ syscall \in [name: {"idle", "ipc_send", "ipc_receive"}, pid: DOMAIN processes]

\* A process that awaits mail beside a waiting message is about to be woken:
\* the ipc_send that brought the message is between its two steps.
NoLostWakeup ==
  \A pid \in DOMAIN processes :
    AwaitsMail(pid) /\ QueueOf(pid) # <<>> => syscall = [name |-> "ipc_send", pid |-> pid]

\* What the first step of a call saw still holds when its second step runs: the
\* queue of a receiver about to block is still empty, and the message of a sender
\* about to wake its target is still there.
CheckedStateHolds ==
  /\ syscall.name = "ipc_receive" => QueueOf(syscall.pid) = <<>>
  /\ syscall.name = "ipc_send" => QueueOf(syscall.pid) # <<>>

\* Round robin: of two processes that stay in the ready queue, the one ahead
\* falls behind the other only by having been at the head and given its slice,
\* whatever exits, blocks and wakes in between.
NoOvertaking == [][KeepsOrder]_vars

\* The mailboxes that clients perceive: the message of an ipc_send between its
\* two steps counts as sent only when its receiver has been woken.
MailView ==
  [pid \in DOMAIN processes |->
     IF syscall = [name |-> "ipc_send", pid |-> pid]
     THEN Front(QueueOf(pid))
     ELSE QueueOf(pid)]

Atomic == INSTANCE AtomicSyscalls WITH mail <- MailView

\* The two-step calls appear atomic: every step of CoreSystem is a step of
\* AtomicSyscalls on the mailboxes that clients perceive, or a stutter.
AtomicSafety == Atomic!SafeSpec

Pids == {KERNEL, INIT} \cup FIRST_PID..MaxPid

\* No starvation: a process in the ready queue comes to the head of it, unless
\* it leaves the queue.
ReadyRuns ==
  \A pid \in Pids :
    pid \in Range(ready_queue) ~>
      (pid \notin Range(ready_queue) \/ Head(ready_queue) = pid)

\* A process that awaits mail beside a waiting message stops awaiting it.
MailWakes ==
  \A pid \in Pids : (AwaitsMail(pid) /\ QueueOf(pid) # <<>>) ~> ~AwaitsMail(pid)

\* "Wait for a process to exit": a process that waits for one that has
\* terminated does not stay blocked for ever.
WaitersWake ==
  \A pid, other \in Pids :
    (/\ pid \in DOMAIN blocked_processes
     /\ blocked_processes[pid] = WaitFor(other)
     /\ Exists(other)
     /\ processes[other] = "TERMINATED") ~> pid \notin DOMAIN blocked_processes

\* The process makes a call that blocks it: a process_wait, or an ipc_receive that
\* has found no message.
BlocksItself(pid) ==
  \/ \E other \in DOMAIN processes : process_wait(pid, other)
  \/ syscall.pid = pid /\ ipc_receive_block

\* "Process has terminated": nothing that others do, no exit, no
\* message, no pass of the scheduler, brings it back.  Only a call that it still
\* makes itself does, and then it is blocked.
OthersLeaveTerminated ==
  [][\A pid \in DOMAIN processes :
       processes[pid] = "TERMINATED" /\ processes'[pid] # "TERMINATED"
         => processes'[pid] = "BLOCKED" /\ BlocksItself(pid)]_vars
-----------------------------------------------------------------------------
(***************************************************************************)
(* Properties of memory.                                                   *)
(***************************************************************************)

\* A region that memory_allocate or process_create adds overlaps no region that
\* the process then has, whatever was freed and mapped before.
AllocationsDisjoint == [][NewRegionsDisjoint]_vars

\* A process that exits leaves no region behind.
ExitFreesMemory == [][\A pid \in DOMAIN processes : Exits(pid) => OwnedBy(pid)' = {}]_vars

\* memory_usage never claims more memory than the process has.
UsageNeverOverReports ==
  \A pid \in DOMAIN processes : memory_usage[pid] <= PagesOf(pid)

\* "Memory used by the process": memory_usage is the memory of a user process.
UsageExact ==
  \A pid \in DOMAIN processes \ {KERNEL} : memory_usage[pid] = PagesOf(pid)

\* "Use provided address or find free space": a mapping for which the client
\* gives no address overlaps no region that the process has.
MappingsFindFreeSpace ==
  [][\A pid \in Callers, uuid \in UUIDs :
       (\E target \in DOMAIN memory_regions : memory_map(pid, target, 0, uuid)) =>
         \A other \in OwnedBy(pid) :
           Disjoint(memory_regions'[uuid], memory_regions[other])]_vars
=============================================================================
