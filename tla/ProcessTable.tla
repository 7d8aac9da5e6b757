---------------------------- MODULE ProcessTable ----------------------------
(***************************************************************************)
(* The process-management state of CoreSystem (core_system.py): the        *)
(* process table, the ready queue, the table of blocked processes and the  *)
(* pid counter, with the updates that the scheduler and the system calls   *)
(* make to them.  Every update below happens in one `with self._proc_lock` *)
(* block, so each is one step.  CoreSystem and AtomicSyscalls build their  *)
(* actions from these updates.                                             *)
(*                                                                         *)
(* Here and in the other modules, X_suffix is a mutant of X: X as a        *)
(* plausible bug would have it, to show that a property sees the bug.      *)
(***************************************************************************)
EXTENDS Integers, SequencesExt

CONSTANT MaxPid     \* bound: the last pid that process_create hands out

ASSUME MaxPidAssumption == MaxPid \in Nat

VARIABLES
  processes,          \* pid -> the state of the process (a dict)
  ready_queue,        \* list of the pids that wait for their time slice
  blocked_processes,  \* pid -> the reason why the process is blocked (a dict)
  next_pid            \* the next pid to hand out

procVars == <<processes, ready_queue, blocked_processes, next_pid>>

KERNEL    == 0
INIT      == 1
FIRST_PID == 1000

ProcessState ==
  {"CREATED", "READY", "RUNNING", "BLOCKED", "SUSPENDED", "TERMINATED", "ZOMBIE"}

\* The strings "ipc_receive" and f"wait:{pid}" that blocked_processes holds.
IpcReceive   == [on |-> "ipc_receive"]
WaitFor(pid) == [on |-> "wait", pid |-> pid]
Reason       == [on: {"ipc_receive"}] \cup [on: {"wait"}, pid: Nat]

-----------------------------------------------------------------------------
\* d[k] = v, and del d[k], of a Python dict.
Put(d, k, v) == [x \in DOMAIN d \cup {k} |-> IF x = k THEN v ELSE d[x]]
Del(d, k)    == Restrict(d, DOMAIN d \ {k})

Exists(pid) == pid \in DOMAIN processes

\* Blocked in ipc_receive: what ipc_send looks for before it wakes its target.
AwaitsMail(pid) ==
  pid \in DOMAIN blocked_processes /\ blocked_processes[pid].on = "ipc_receive"

\* The pid leaves the ready queue, the pids behind it close up.
Unqueue_none(pid) == UNCHANGED ready_queue
Unqueue_swap(pid) ==
  ready_queue' = IF pid \in Range(ready_queue)
                 THEN Front([i \in DOMAIN ready_queue |->
                               IF ready_queue[i] = pid THEN Last(ready_queue)
                                                       ELSE ready_queue[i]])
                 ELSE ready_queue
Unqueue(pid) == ready_queue' = RemoveFirst(ready_queue, pid)

\* The pid is no longer blocked.
Unblock_none(pid) == UNCHANGED blocked_processes
Unblock(pid) == blocked_processes' = Del(blocked_processes, pid)

-----------------------------------------------------------------------------
\* What initialize() leaves: the kernel runs, init waits for its first slice.
ProcessInit ==
  /\ processes = [pid \in {KERNEL, INIT} |->
                    IF pid = KERNEL THEN "RUNNING" ELSE "READY"]
  /\ ready_queue = <<INIT>>
  /\ blocked_processes = [pid \in {} |-> IpcReceive]
  /\ next_pid = FIRST_PID

run_scheduler_stuck == ready_queue # <<>> /\ UNCHANGED procVars

\* _run_scheduler: the head of the queue runs for one slice and goes to the
\* back.  It is RUNNING only inside the lock, and _execute_process changes no
\* more than its runtime counters.  A pid without a process is dropped.
run_scheduler ==
  /\ ready_queue # <<>>
  /\ LET pid == Head(ready_queue) IN
       IF Exists(pid)
       THEN /\ processes' = [processes EXCEPT ![pid] = "READY"]
            /\ ready_queue' = Append(Tail(ready_queue), pid)
       ELSE /\ ready_queue' = Tail(ready_queue)
            /\ UNCHANGED processes
  /\ UNCHANGED <<blocked_processes, next_pid>>

\* process_create: the new process enters the table and the ready queue.
AddProcess ==
  /\ next_pid <= MaxPid
  /\ next_pid' = next_pid + 1
  /\ processes' = Put(processes, next_pid, "READY")
  /\ ready_queue' = Append(ready_queue, next_pid)
  /\ UNCHANGED blocked_processes

\* process_create with a priority or policy that its Enum does not have: the
\* ValueError comes after next_pid was advanced, so the pid is lost.
RejectProcess ==
  /\ next_pid <= MaxPid
  /\ next_pid' = next_pid + 1
  /\ UNCHANGED <<processes, ready_queue, blocked_processes>>

\* process_exit: the process stays in the table as TERMINATED.
TerminateProcess(pid) ==
  /\ processes' = [processes EXCEPT ![pid] = "TERMINATED"]
  /\ Unqueue(pid)
  /\ Unblock(pid)
  /\ UNCHANGED next_pid

\* process_wait and ipc_receive: the caller leaves the ready queue.
BlockProcess(pid, reason) ==
  /\ processes' = [processes EXCEPT ![pid] = "BLOCKED"]
  /\ Unqueue(pid)
  /\ blocked_processes' = Put(blocked_processes, pid, reason)
  /\ UNCHANGED next_pid

WakeProcess_none(pid) == UNCHANGED procVars

\* ipc_send: a target blocked in ipc_receive becomes ready, any other target
\* is left as it is.
WakeProcess(pid) ==
  /\ IF AwaitsMail(pid)
     THEN /\ Unblock(pid)
          /\ processes' = [processes EXCEPT ![pid] = "READY"]
          /\ ready_queue' = Append(ready_queue, pid)
     ELSE UNCHANGED <<processes, ready_queue, blocked_processes>>
  /\ UNCHANGED next_pid

-----------------------------------------------------------------------------
\* Type correctness of the process table: pids come from the counter, and the
\* kernel and init never leave.
ProcessTypeOK ==
  /\ next_pid \in Nat /\ next_pid >= FIRST_PID
  /\ {KERNEL, INIT} \subseteq DOMAIN processes
  /\ DOMAIN processes \subseteq 0..(next_pid - 1)
  /\ processes \in [DOMAIN processes -> ProcessState]
  /\ ready_queue \in Seq(Nat)
  /\ blocked_processes \in [DOMAIN blocked_processes -> Reason]

\* The ready queue and the process table agree: a process is READY exactly when
\* it is in the queue, and it is there once.  A READY process outside the queue
\* would never run again; one that is there twice would get two slices a round;
\* a BLOCKED or TERMINATED process in the queue would be run.
ReadyQueueExact ==
  /\ IsInjective(ready_queue)
  /\ Range(ready_queue) = {pid \in DOMAIN processes : processes[pid] = "READY"}

\* The blocked table and the process table agree: a process is BLOCKED exactly
\* when a reason is recorded for it.  A BLOCKED process without a reason could
\* never be woken, and a reason left behind would "wake" a process that runs.
BlockedExact ==
  DOMAIN blocked_processes = {pid \in DOMAIN processes : processes[pid] = "BLOCKED"}

\* i is ahead of j in the sequence s.
Ahead(s, i, j) ==
  \E m, n \in DOMAIN s : m < n /\ s[m] = i /\ s[n] = j

\* Of two pids that stay in the ready queue, the one ahead falls behind the other
\* only if it was at the head of the queue.
KeepsOrder ==
  \A p, q \in Range(ready_queue) :
    Ahead(ready_queue, p, q) /\ Ahead(ready_queue', q, p) => p = Head(ready_queue)

\* A process turns TERMINATED in this step.
Exits(pid) == processes[pid] # "TERMINATED" /\ processes'[pid] = "TERMINATED"
=============================================================================
