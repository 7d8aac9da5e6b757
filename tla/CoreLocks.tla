------------------------------ MODULE CoreLocks ------------------------------
(***************************************************************************)
(* The four locks of CoreSystem (core_system.py) as every method takes     *)
(* them.  CoreSystem.tla treats a critical section as one step; this       *)
(* module is about the locks that make it one: who holds and who waits     *)
(* for which lock, and which tables a thread changes or iterates over      *)
(* while it holds them.                                                    *)
(*                                                                         *)
(* The locks are RLocks: a thread never waits for itself, so what matters  *)
(* is the set of locks that it holds.  A method is the sequence of its     *)
(* sections; from one to the next it takes one lock or releases some.      *)
(* Methods are listed with their longest path.  An early return, or an     *)
(* exception, leaves all `with` blocks at once, as the end of a shorter    *)
(* method does.                                                            *)
(***************************************************************************)
EXTENDS Integers, SequencesExt

CONSTANT Threads   \* the threads of the program, the scheduler threads included

S == "_syscall_lock"
P == "_proc_lock"
M == "_mem_lock"
I == "_ipc_lock"

Locks  == {S, P, M, I}
Tables == {"processes", "ready_queue", "blocked_processes",
           "memory_regions", "process_memory", "message_queues"}

\* A section: the locks held, the tables that gain or lose entries, and the tables
\* that a loop, list() or the `in` of a list goes through.
Section(held, changes, scans) == [held |-> held, changes |-> changes, scans |-> scans]

MemoryTables == {"memory_regions", "process_memory"}
QueueTables  == {"ready_queue", "blocked_processes"}

\* The system calls.  invoke_syscall holds _syscall_lock around the handler.
ProcessCreate ==
  << Section({S}, {}, {}),
     Section({S, P}, {"processes", "ready_queue"}, {}),
     Section({S, P, M}, MemoryTables, {}),
     Section({S, P}, {}, {}),
     Section({S, P, I}, {"message_queues"}, {}) >>
ProcessExit ==
  << Section({S}, {}, {}),
     Section({S, P}, QueueTables, {"ready_queue"}),
     Section({S, P, M}, MemoryTables, {"process_memory"}),
     Section({S, P}, {}, {}),
     Section({S, P, I}, {"message_queues"}, {}) >>
ProcessWait ==
  << Section({S}, {}, {}), Section({S, P}, QueueTables, {"ready_queue"}) >>
MemoryAllocate ==
  << Section({S}, {}, {}), Section({S, M}, MemoryTables, {"process_memory"}) >>
MemoryFree ==
  << Section({S}, {}, {}), Section({S, M}, MemoryTables, {"process_memory"}) >>
MemoryMapping ==
  << Section({S}, {}, {}), Section({S, M}, MemoryTables, {}) >>
IpcSend ==
  << Section({S}, {}, {}),
     Section({S, I}, {"message_queues"}, {}),
     Section({S, I, P}, QueueTables, {}) >>
IpcReceive ==
  << Section({S}, {}, {}), Section({S, I}, {"message_queues"}, {}) >>
IpcReceiveBlock ==
  << Section({S}, {}, {}),
     Section({S, I}, {}, {}),
     Section({S, I, P}, QueueTables, {"ready_queue"}) >>

\* The queries, each under the lock of the table that it reads.
ProcessInfo  == << Section({P}, {}, {}) >>
MemoryInfo   == << Section({M}, {}, {}) >>
SyscallStats == << Section({S}, {}, {}) >>
ProcessList  == << Section({P}, {}, {"processes"}) >>
MemoryMap    == << Section({M}, {}, MemoryTables) >>

\* get_system_info: `with self._proc_lock, self._mem_lock`.
SystemInfo_swapped ==
  << Section({M}, {}, {}),
     Section({P, M}, {}, {"processes", "memory_regions"}) >>
SystemInfo_one_lock == << Section({M}, {}, {"processes", "memory_regions"}) >>
SystemInfo ==
  << Section({P}, {}, {}),
     Section({P, M}, {}, {"processes", "memory_regions"}) >>

SchedulerPass == << Section({P}, {"ready_queue"}, {}) >>

Program ==
  [process_create    |-> ProcessCreate,
   process_exit      |-> ProcessExit,
   process_wait      |-> ProcessWait,
   memory_allocate   |-> MemoryAllocate,
   memory_free       |-> MemoryFree,
   memory_map        |-> MemoryMapping,
   ipc_send          |-> IpcSend,
   ipc_receive       |-> IpcReceive,
   ipc_receive_block |-> IpcReceiveBlock,
   get_process_info  |-> ProcessInfo,
   get_memory_info   |-> MemoryInfo,
   get_syscall_stats |-> SyscallStats,
   get_process_list  |-> ProcessList,
   get_memory_map    |-> MemoryMap,
   get_system_info   |-> SystemInfo,
   _run_scheduler    |-> SchedulerPass]

Calls == DOMAIN Program

VARIABLE frame   \* thread -> the method it is in, and the section it has reached

\* A thread in no method, and one that has entered a method and no section yet.
Outside   == [call |-> "none", section |-> 0]
Entry(c)  == [call |-> c, section |-> 0]

Nothing == Section({}, {}, {})

\* The section in which a thread is, and the one that comes next.
Here(t) == IF frame[t].section = 0 THEN Nothing ELSE Program[frame[t].call][frame[t].section]
Next_(t) == IF frame[t].call = "none" \/ frame[t].section = Len(Program[frame[t].call])
            THEN Nothing
            ELSE Program[frame[t].call][frame[t].section + 1]

Holds(t)    == Here(t).held
Wants(t)    == Next_(t).held \ Holds(t)
WaitsFor(t, u) == t # u /\ Wants(t) \cap Holds(u) # {}

-----------------------------------------------------------------------------
LocksInit == frame = [t \in Threads |-> Outside]

Enter(t, c) ==
  /\ frame[t] = Outside
  /\ frame' = [frame EXCEPT ![t] = Entry(c)]

\* The locks that a thread takes are free.
Available(t) == \A u \in Threads : ~WaitsFor(t, u)

Advance(t) ==
  /\ frame[t].call # "none"
  /\ frame[t].section < Len(Program[frame[t].call])
  /\ Available(t)
  /\ frame' = [frame EXCEPT ![t].section = @ + 1]

\* The end of the method releases what it holds.
Return(t) ==
  /\ frame[t].call # "none"
  /\ frame[t].section = Len(Program[frame[t].call])
  /\ frame' = [frame EXCEPT ![t] = Outside]

LocksNext ==
  \E t \in Threads :
    \/ \E c \in Calls : Enter(t, c)
    \/ Advance(t)
    \/ Return(t)

LocksSpec == LocksInit /\ [][LocksNext]_frame
-----------------------------------------------------------------------------
\* Type correctness: a thread is outside every method, or in a method that exists.
FrameTypeOK ==
  /\ DOMAIN frame = Threads
  /\ \A t \in Threads :
       \/ frame[t] = Outside
       \/ \E c \in Calls : \E n \in 0..Len(Program[c]) :
            frame[t] = [call |-> c, section |-> n]

\* "Mutexes for thread safety" without deadlock: in every set of threads there is
\* one that waits for no other of the set.  process_create takes _ipc_lock inside
\* _proc_lock and ipc_send takes _proc_lock inside _ipc_lock; only _syscall_lock
\* around both, and the order of the queries' locks, keeps a cycle from closing.
NoDeadlock ==
  \A D \in SUBSET Threads :
    D # {} => \E t \in D : \A u \in D : ~WaitsFor(t, u)

\* Two threads collide when one changes a table that the other changes or scans.
Collide(s, r) == s.changes \cap (r.changes \cup r.scans) # {}
=============================================================================
