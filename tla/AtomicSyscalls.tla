--------------------------- MODULE AtomicSyscalls ---------------------------
(***************************************************************************)
(* What CoreSystem promises its clients about processes and messages: each *)
(* process has one mailbox, and every system call is a single step.  In    *)
(* particular a message enters the mailbox and wakes its receiver in one   *)
(* step, and a receiver that finds its mailbox empty blocks in the same    *)
(* step, so no process sleeps beside a message.  CoreSystem.tla, where     *)
(* ipc_send and ipc_receive are two critical sections each with the        *)
(* scheduler between them, implements this specification.                  *)
(***************************************************************************)
EXTENDS ProcessTable

CONSTANTS
  Messages,   \* the messages that clients send
  MaxMail     \* bound: the messages that wait in one mailbox

VARIABLE mail   \* pid -> the messages that wait for it, oldest first

atomicVars == <<processes, ready_queue, blocked_processes, next_pid, mail>>

Init ==
  /\ ProcessInit
  /\ mail = [pid \in {KERNEL, INIT} |-> <<>>]

Schedule == run_scheduler /\ UNCHANGED mail

Create ==
  /\ AddProcess
  /\ mail' = Put(mail, next_pid, <<>>)

RejectCreate == RejectProcess /\ UNCHANGED mail

Exit(pid) ==
  /\ Exists(pid)
  /\ TerminateProcess(pid)
  /\ mail' = [mail EXCEPT ![pid] = <<>>]

Wait(pid, other) ==
  /\ Exists(pid) /\ Exists(other)
  /\ processes[other] # "TERMINATED"
  /\ BlockProcess(pid, WaitFor(other))
  /\ UNCHANGED mail

Send(target, message) ==
  /\ Exists(target)
  /\ Len(mail[target]) < MaxMail
  /\ mail' = [mail EXCEPT ![target] = Append(@, message)]
  /\ WakeProcess(target)

Receive(pid) ==
  /\ Exists(pid)
  /\ mail[pid] # <<>>
  /\ mail' = [mail EXCEPT ![pid] = Tail(@)]
  /\ UNCHANGED procVars

AwaitMail(pid) ==
  /\ Exists(pid)
  /\ mail[pid] = <<>>
  /\ BlockProcess(pid, IpcReceive)
  /\ UNCHANGED mail

Next ==
  \/ Schedule
  \/ Create
  \/ RejectCreate
  \/ \E pid \in DOMAIN processes :
       \/ Exit(pid)
       \/ \E other \in DOMAIN processes : Wait(pid, other)
       \/ \E message \in Messages : Send(pid, message)
       \/ Receive(pid)
       \/ AwaitMail(pid)

SafeSpec == Init /\ [][Next]_atomicVars
=============================================================================
