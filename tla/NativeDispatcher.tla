-------------------------- MODULE NativeDispatcher --------------------------
(***************************************************************************)
(* core::SyscallDispatcher (src/core/Syscall.{hpp,cpp}): four system calls *)
(* on a process table and on mailboxes, each table with a mutex of its     *)
(* own, all of them behind dispatcher_mutex_.  A call with a missing or    *)
(* malformed argument changes nothing.                                     *)
(***************************************************************************)
EXTENDS Integers

CONSTANTS
  Callers,      \* the threads that invoke system calls
  LastProcess,  \* bound: the last pid that process_create hands out
  MaxMail       \* bound: the messages that a mailbox is filled with

ASSUME DispatcherAssumption == LastProcess \in Nat /\ MaxMail \in Nat

VARIABLES
  processes_,       \* the pids of the live processes
  next_pid_,        \* the next pid to hand out
  message_queues_,  \* pid -> the number of its messages
  target_pid        \* thread -> the target that its ipc_send has found, or 0

dispatcherVars == <<processes_, next_pid_, message_queues_, target_pid>>

Pids == 1..LastProcess

DispatcherInit ==
  /\ processes_ = {}
  /\ next_pid_ = 1
  /\ message_queues_ = [pid \in Pids |-> 0]
  /\ target_pid = [t \in Callers |-> 0]

\* dispatcher_mutex_ is free: only ipc_send holds it for longer than one step.
Dispatches_unlocked(t) == target_pid[t] = 0
Dispatches(t) == \A u \in Callers : target_pid[u] = 0

process_create(t) ==
  /\ Dispatches(t) /\ next_pid_ \in Pids
  /\ processes_' = processes_ \cup {next_pid_}
  /\ next_pid_' = next_pid_ + 1
  /\ UNCHANGED <<message_queues_, target_pid>>

process_exit(t, pid) ==
  /\ Dispatches(t) /\ pid \in processes_
  /\ processes_' = processes_ \ {pid}
  /\ UNCHANGED <<next_pid_, message_queues_, target_pid>>

\* ipc_send finds its target under process_mutex_ ...
ipc_send(t, pid) ==
  /\ Dispatches(t) /\ pid \in processes_
  /\ target_pid' = [target_pid EXCEPT ![t] = pid]
  /\ UNCHANGED <<processes_, next_pid_, message_queues_>>

\* ... and appends to its queue under message_mutex_.
ipc_send_push(t) ==
  /\ target_pid[t] # 0 /\ message_queues_[target_pid[t]] < MaxMail
  /\ message_queues_' = [message_queues_ EXCEPT ![target_pid[t]] = @ + 1]
  /\ target_pid' = [target_pid EXCEPT ![t] = 0]
  /\ UNCHANGED <<processes_, next_pid_>>

\* ipc_receive asks for a queue and not for a process.
ipc_receive(t, pid) ==
  /\ Dispatches(t) /\ message_queues_[pid] > 0
  /\ message_queues_' = [message_queues_ EXCEPT ![pid] = @ - 1]
  /\ UNCHANGED <<processes_, next_pid_, target_pid>>

DispatcherNext ==
  \E t \in Callers :
    \/ process_create(t)
    \/ \E pid \in Pids : process_exit(t, pid) \/ ipc_send(t, pid) \/ ipc_receive(t, pid)
    \/ ipc_send_push(t)

DispatcherSpec == DispatcherInit /\ [][DispatcherNext]_dispatcherVars
-----------------------------------------------------------------------------
\* No message reaches a process that has exited: ipc_send looks its target up and
\* appends in two critical sections, and only dispatcher_mutex_ keeps process_exit
\* from coming between them.
ExitedGetNoMail ==
  [][\A pid \in Pids :
       message_queues_'[pid] > message_queues_[pid] => pid \in processes_]_dispatcherVars
=============================================================================
