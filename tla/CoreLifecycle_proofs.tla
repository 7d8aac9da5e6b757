------------------------ MODULE CoreLifecycle_proofs ------------------------
(***************************************************************************)
(* Proofs about the locks and the lifecycle of the core, for any number of *)
(* clients and scheduler threads and for all sixteen methods.              *)
(***************************************************************************)
EXTENDS CoreLifecycle, TLAPS

-----------------------------------------------------------------------------
(***************************************************************************)
(* What the table of methods says of the locks.                            *)
(***************************************************************************)

SectionOf(c, n) == IF n = 0 THEN Nothing ELSE Program[c][n]
NextOf(c, n)    == IF n = Len(Program[c]) THEN Nothing ELSE Program[c][n + 1]

\* The order in which the locks are taken: nothing more under _mem_lock, only
\* _mem_lock and _ipc_lock under _proc_lock, only _proc_lock under _ipc_lock; and
\* nobody takes _ipc_lock without _syscall_lock.
Ordered(held, next) ==
  /\ held \subseteq Locks /\ next \subseteq Locks
  /\ M \in held => next \subseteq held
  /\ P \in held => next \subseteq held \cup {M, I}
  /\ I \in held => S \in held /\ next \subseteq held \cup {P}
  /\ S \in held => next \subseteq held \cup {P, M, I}
  /\ I \in next => I \in held \/ S \in held

\* The lock that guards a table.
Guard(table) ==
  IF table \in MemoryTables THEN M ELSE IF table = "message_queues" THEN I ELSE P

Guarded(s) == \A table \in s.changes \cup s.scans : Guard(table) \in s.held

\* Every method takes its locks in this order and has, in each section, the lock of
\* every table that it changes or goes through.
LEMMA ProgramOrdered ==
  ASSUME NEW c \in Calls, NEW n \in 0..Len(Program[c])
  PROVE  /\ Ordered(SectionOf(c, n).held, NextOf(c, n).held)
         /\ Guarded(SectionOf(c, n))
<1> USE DEF Section, SectionOf, NextOf, Nothing, Ordered, Guarded, Guard,
            S, P, M, I, Locks, MemoryTables, QueueTables
<1>1. CASE c = "process_create"
  <2>1. Program[c] = ProcessCreate
    BY <1>1 DEF Program
  <2> QED BY <2>1 DEF ProcessCreate
<1>2. CASE c = "process_exit"
  <2>1. Program[c] = ProcessExit
    BY <1>2 DEF Program
  <2> QED BY <2>1 DEF ProcessExit
<1>3. CASE c = "process_wait"
  <2>1. Program[c] = ProcessWait
    BY <1>3 DEF Program
  <2> QED BY <2>1 DEF ProcessWait
<1>4. CASE c = "memory_allocate"
  <2>1. Program[c] = MemoryAllocate
    BY <1>4 DEF Program
  <2> QED BY <2>1 DEF MemoryAllocate
<1>5. CASE c = "memory_free"
  <2>1. Program[c] = MemoryFree
    BY <1>5 DEF Program
  <2> QED BY <2>1 DEF MemoryFree
<1>6. CASE c = "memory_map"
  <2>1. Program[c] = MemoryMapping
    BY <1>6 DEF Program
  <2> QED BY <2>1 DEF MemoryMapping
<1>7. CASE c = "ipc_send"
  <2>1. Program[c] = IpcSend
    BY <1>7 DEF Program
  <2> QED BY <2>1 DEF IpcSend
<1>8. CASE c = "ipc_receive"
  <2>1. Program[c] = IpcReceive
    BY <1>8 DEF Program
  <2> QED BY <2>1 DEF IpcReceive
<1>9. CASE c = "ipc_receive_block"
  <2>1. Program[c] = IpcReceiveBlock
    BY <1>9 DEF Program
  <2> QED BY <2>1 DEF IpcReceiveBlock
<1>10. CASE c = "get_process_info"
  <2>1. Program[c] = ProcessInfo
    BY <1>10 DEF Program
  <2> QED BY <2>1 DEF ProcessInfo
<1>11. CASE c = "get_memory_info"
  <2>1. Program[c] = MemoryInfo
    BY <1>11 DEF Program
  <2> QED BY <2>1 DEF MemoryInfo
<1>12. CASE c = "get_syscall_stats"
  <2>1. Program[c] = SyscallStats
    BY <1>12 DEF Program
  <2> QED BY <2>1 DEF SyscallStats
<1>13. CASE c = "get_process_list"
  <2>1. Program[c] = ProcessList
    BY <1>13 DEF Program
  <2> QED BY <2>1 DEF ProcessList
<1>14. CASE c = "get_memory_map"
  <2>1. Program[c] = MemoryMap
    BY <1>14 DEF Program
  <2> QED BY <2>1 DEF MemoryMap
<1>15. CASE c = "get_system_info"
  <2>1. Program[c] = SystemInfo
    BY <1>15 DEF Program
  <2> QED BY <2>1 DEF SystemInfo
<1>16. CASE c = "_run_scheduler"
  <2>1. Program[c] = SchedulerPass
    BY <1>16 DEF Program
  <2> QED BY <2>1 DEF SchedulerPass
<1> QED BY <1>1, <1>2, <1>3, <1>4, <1>5, <1>6, <1>7, <1>8,
          <1>9, <1>10, <1>11, <1>12, <1>13, <1>14, <1>15, <1>16 DEF Calls, Program

\* Every method has finitely many sections.
LEMMA SectionsExist ==
  ASSUME NEW c \in Calls
  PROVE  Len(Program[c]) \in Nat
BY DEF Program, Calls, ProcessCreate, ProcessExit, ProcessWait, MemoryAllocate, MemoryFree,
       MemoryMapping, IpcSend, IpcReceive, IpcReceiveBlock, ProcessInfo, MemoryInfo,
       SyscallStats, ProcessList, MemoryMap, SystemInfo, SchedulerPass

\* The same of a thread in a method.
LEMMA ThreadOrdered ==
  ASSUME FrameTypeOK, NEW t \in Threads
  PROVE  /\ Ordered(Holds(t), Holds(t) \cup Wants(t))
         /\ Guarded(Here(t))
<1>1. CASE frame[t] = Outside
  <2>1. Here(t) = Nothing /\ Next_(t) = Nothing
    BY <1>1 DEF Here, Next_, Outside
  <2> QED BY <2>1 DEF Holds, Wants, Nothing, Section, Ordered, Guarded
<1>2. ASSUME NEW c \in Calls, NEW n \in 0..Len(Program[c]),
             frame[t] = [call |-> c, section |-> n]
      PROVE  /\ Ordered(Holds(t), Holds(t) \cup Wants(t))
             /\ Guarded(Here(t))
  <2>1. c # "none"
    BY DEF Calls, Program
  <2>2. Here(t) = SectionOf(c, n) /\ Next_(t) = NextOf(c, n)
    BY <1>2, <2>1 DEF Here, Next_, SectionOf, NextOf
  <2>3. Ordered(SectionOf(c, n).held, NextOf(c, n).held) /\ Guarded(SectionOf(c, n))
    BY ProgramOrdered
  <2>4. Holds(t) = SectionOf(c, n).held /\ Wants(t) = NextOf(c, n).held \ Holds(t)
    BY <2>2 DEF Holds, Wants
  <2> QED BY <2>2, <2>3, <2>4 DEF Ordered
<1> QED BY <1>1, <1>2 DEF FrameTypeOK

-----------------------------------------------------------------------------
(***************************************************************************)
(* The locks.                                                              *)
(***************************************************************************)

\* A lock has one holder: no two threads hold the same lock.
LocksExclusive ==
  \A t, u \in Threads : t # u => Holds(t) \cap Holds(u) = {}

LocksInv == FrameTypeOK /\ LocksExclusive

\* What a step of the program does to the frames: it is a step of one method.
LEMMA StepOfLocks ==
  ASSUME [Next]_vars
  PROVE  LocksNext \/ UNCHANGED frame
<1>1. CASE UNCHANGED vars
  BY <1>1 DEF vars
<1>2. ASSUME NEW c \in Clients, NEW method \in Methods, invoke(c, method)
      PROVE  LocksNext
  BY <1>2, LifecycleAssumption DEF invoke, LocksNext
<1>3. ASSUME NEW c \in Clients, initialize(c) \/ start(c) \/ stop(c) \/ Lifecycle(c)
      PROVE  UNCHANGED frame
  BY <1>3 DEF initialize, start, stop, Begin, Lifecycle, initialize_processes,
              initialize_memory, initialize_fails, start_test, start_clear,
              start_thread, start_fails, start_mark, stop_set, stop_join,
              join_times_out, stop_raises, stop_mark
<1>4. ASSUME NEW s \in Schedulers, scheduler_pass(s)
      PROVE  LocksNext
  <2>1. "_run_scheduler" \in Calls
    BY DEF Calls, Program
  <2> QED BY <1>4, <2>1, LifecycleAssumption DEF scheduler_pass, LocksNext
<1>5. ASSUME NEW s \in Schedulers, scheduler_exit(s)
      PROVE  UNCHANGED frame
  BY <1>5 DEF scheduler_exit
<1>6. ASSUME NEW t \in Threads, advance(t) \/ return_(t)
      PROVE  LocksNext
  BY <1>6 DEF advance, return_, LocksNext
<1> QED BY <1>1, <1>2, <1>3, <1>4, <1>5, <1>6 DEF Next

\* A thread that has reached no section holds nothing.
LEMMA OutsideHolds ==
  ASSUME NEW t \in Threads, frame[t].section = 0
  PROVE  Holds(t) = {}
BY DEF Holds, Here, Nothing, Section

\* A thread that is in a method at a section.
LEMMA FramesOf ==
  ASSUME FrameTypeOK, NEW t \in Threads, frame[t].call # "none"
  PROVE  /\ frame[t].call \in Calls
         /\ frame[t].section \in 0..Len(Program[frame[t].call])
         /\ frame[t] = [call |-> frame[t].call, section |-> frame[t].section]
BY DEF FrameTypeOK, Outside

\* A thread takes what is free and releases what it holds: one holder per lock.
LEMMA LocksStep ==
  ASSUME LocksInv, LocksNext \/ UNCHANGED frame
  PROVE  LocksInv'
<1> USE DEF LocksInv
<1>1. CASE UNCHANGED frame
  BY <1>1 DEF FrameTypeOK, LocksExclusive, Holds, Here
<1>2. ASSUME NEW t \in Threads, NEW c \in Calls, Enter(t, c)
      PROVE  LocksInv'
  <2>1. /\ DOMAIN frame' = Threads /\ frame'[t] = [call |-> c, section |-> 0]
        /\ \A u \in Threads \ {t} : frame'[u] = frame[u]
    BY <1>2 DEF Enter, Entry, FrameTypeOK
  <2>2. FrameTypeOK'
    <3>1. 0 \in 0..Len(Program[c])
      BY SectionsExist
    <3> QED BY <2>1, <3>1 DEF FrameTypeOK
  <2>3. Holds(t)' = {} /\ \A u \in Threads \ {t} : Holds(u)' = Holds(u)
    BY <2>1 DEF Holds, Here, Nothing, Section
  <2> QED BY <2>2, <2>3 DEF LocksExclusive
<1>3. ASSUME NEW t \in Threads, Advance(t)
      PROVE  LocksInv'
  <2> DEFINE c == frame[t].call
             n == frame[t].section
  <2>1. /\ c \in Calls /\ n \in 0..Len(Program[c]) /\ n < Len(Program[c]) /\ c # "none"
        /\ Len(Program[c]) \in Nat
    BY <1>3, FramesOf, SectionsExist DEF Advance
  <2>2. n + 1 \in 0..Len(Program[c]) /\ n + 1 # 0 /\ n # Len(Program[c])
    BY <2>1
  <2>3. /\ DOMAIN frame' = Threads /\ frame'[t] = [call |-> c, section |-> n + 1]
        /\ \A u \in Threads \ {t} : frame'[u] = frame[u]
    BY <1>3, <2>1, FramesOf DEF Advance, FrameTypeOK
  <2>4. FrameTypeOK'
    BY <2>1, <2>2, <2>3 DEF FrameTypeOK
  <2>5. Holds(t)' = Next_(t).held
    BY <2>1, <2>2, <2>3 DEF Holds, Here, Next_
  <2>6. \A u \in Threads \ {t} : Holds(u)' = Holds(u)
    BY <2>3 DEF Holds, Here
  <2>7. \A u \in Threads \ {t} : Wants(t) \cap Holds(u) = {}
    BY <1>3 DEF Advance, Available, WaitsFor
  <2> QED BY <2>4, <2>5, <2>6, <2>7 DEF LocksExclusive, Wants
<1>4. ASSUME NEW t \in Threads, Return(t)
      PROVE  LocksInv'
  <2>1. /\ DOMAIN frame' = Threads /\ frame'[t] = Outside
        /\ \A u \in Threads \ {t} : frame'[u] = frame[u]
    BY <1>4 DEF Return, FrameTypeOK
  <2>2. FrameTypeOK'
    BY <2>1 DEF FrameTypeOK
  <2>3. Holds(t)' = {} /\ \A u \in Threads \ {t} : Holds(u)' = Holds(u)
    BY <2>1 DEF Holds, Here, Nothing, Section, Outside
  <2> QED BY <2>2, <2>3 DEF LocksExclusive
<1> QED BY <1>1, <1>2, <1>3, <1>4 DEF LocksNext

\* At first nobody holds anything.
LEMMA LocksStart == Init => LocksInv
BY DEF Init, LocksInit, LocksInv, FrameTypeOK, LocksExclusive, Holds, Here, Outside,
       Nothing, Section

\* The locks have one holder each in every state.
LEMMA LocksInvariant == Spec => []LocksInv
<1>1. LocksInv /\ [Next]_vars => LocksInv'
  BY StepOfLocks, LocksStep
<1> QED BY LocksStart, <1>1, PTL DEF Spec

\* In a set of threads, a holder of the innermost lock that is held waits for none.
LEMMA SomeoneGoesOn == LocksInv => NoDeadlock
<1> SUFFICES ASSUME LocksInv, NEW D \in SUBSET Threads, D # {}
             PROVE  \E t \in D : \A u \in D : ~WaitsFor(t, u)
  BY DEF NoDeadlock
<1> USE DEF WaitsFor
<1>1. \A t \in D : Ordered(Holds(t), Holds(t) \cup Wants(t))
  BY ThreadOrdered DEF LocksInv
<1>2. \A t, u \in D : t # u => Holds(t) \cap Holds(u) = {}
  BY DEF LocksInv, LocksExclusive
<1>3. \A t \in D : Wants(t) \cap Holds(t) = {}
  BY DEF Wants
<1>4. ASSUME NEW t \in D, M \in Holds(t)
      PROVE  \A u \in D : ~WaitsFor(t, u)
  BY <1>1, <1>3, <1>4 DEF Ordered
<1>5. ASSUME \A u \in D : M \notin Holds(u), NEW t \in D, P \in Holds(t)
      PROVE  \A u \in D : ~WaitsFor(t, u)
  <2>1. ASSUME NEW u \in D, u # t, I \in Holds(u), I \in Wants(t)
        PROVE  FALSE
    <3>1. S \in Holds(u)
      BY <1>1, <2>1 DEF Ordered
    <3>2. S \in Holds(t)
      BY <1>1, <1>3, <2>1 DEF Ordered
    <3> QED BY <3>1, <3>2, <2>1, <1>2
  <2> QED BY <1>1, <1>3, <1>5, <2>1 DEF Ordered
<1>6. ASSUME \A u \in D : M \notin Holds(u) /\ P \notin Holds(u), NEW t \in D, I \in Holds(t)
      PROVE  \A u \in D : ~WaitsFor(t, u)
  BY <1>1, <1>3, <1>6 DEF Ordered
<1>7. ASSUME \A u \in D : {M, P, I} \cap Holds(u) = {}, NEW t \in D, S \in Holds(t)
      PROVE  \A u \in D : ~WaitsFor(t, u)
  BY <1>1, <1>3, <1>7 DEF Ordered
<1>8. ASSUME \A u \in D : {M, P, I, S} \cap Holds(u) = {}, NEW t \in D
      PROVE  \A u \in D : ~WaitsFor(t, u)
  BY <1>1, <1>8 DEF Ordered, Locks
<1> QED BY <1>4, <1>5, <1>6, <1>7, <1>8

\* No set of threads ever waits only for itself: every deadlock of the four locks is
\* ruled out, for any number of threads.
THEOREM LocksNeverDeadlock == Spec => []NoDeadlock
BY LocksInvariant, SomeoneGoesOn, PTL

\* Two threads that collide on a table would both hold its lock.
LEMMA GuardsMeet ==
  ASSUME LocksInv, NEW t \in Threads, NEW u \in Threads, t # u
  PROVE  ~Collide(Here(t), Here(u))
<1>1. Guarded(Here(t)) /\ Guarded(Here(u))
  BY ThreadOrdered DEF LocksInv
<1>2. Holds(t) \cap Holds(u) = {}
  BY DEF LocksInv, LocksExclusive
<1> QED BY <1>1, <1>2 DEF Collide, Guarded, Holds

\* Every table is changed under its lock and gone through under it, but for the
\* initialize that takes none.
THEOREM TablesAreGuarded == Spec => []TablesGuarded
<1>1. LocksInv => TablesGuarded
  <2> SUFFICES ASSUME LocksInv, NEW t \in Threads, NEW u \in Threads, t # u,
                      Collide(Access(t), Access(u)),
                      \A c \in {t, u} \cap Clients :
                        control[c] \notin Filling
               PROVE  FALSE
    BY DEF TablesGuarded
  <2>1. Access(t) = Here(t) /\ Access(u) = Here(u)
    BY DEF Access, Filling
  <2> QED BY <2>1, GuardsMeet
<1> QED BY LocksInvariant, <1>1, PTL

-----------------------------------------------------------------------------
(***************************************************************************)
(* Type correctness.                                                       *)
(***************************************************************************)

\* The initial state is well typed.
LEMMA TypeStart == Init => TypeOK
<1> SUFFICES ASSUME Init
             PROVE  TypeOK
  OBVIOUS
<1>1. FrameTypeOK
  BY LocksStart DEF LocksInv
<1>2. \A t \in Threads : frame[t] = Outside
  BY DEF Init, LocksInit
<1>3. \A s \in Schedulers : frame[s] = Outside
  BY <1>2, LifecycleAssumption
<1>4. control \in [Clients -> ControlLabels] /\ \A c \in Clients : ~Busy(c)
  BY DEF Init, ControlLabels, Busy
<1>5. alive \subseteq Schedulers /\ abandoned \subseteq alive
  BY DEF Init
<1> QED BY <1>1, <1>3, <1>4, <1>5 DEF Init, TypeOK

\* A lifecycle step leaves the frames alone and moves one client among the labels.
LEMMA TypeLifecycle ==
  ASSUME TypeOK, NEW c \in Clients,
         initialize(c) \/ start(c) \/ stop(c) \/ Lifecycle(c)
  PROVE  TypeOK'
<1> USE DEF TypeOK, Goto, Busy, ControlLabels, Filling, FillingProcesses, FillingMemory, flags
<1>1. UNCHANGED frame => FrameTypeOK'
  BY DEF FrameTypeOK
<1>2. CASE initialize(c) \/ start(c) \/ stop(c)
  BY <1>1, <1>2 DEF initialize, start, stop, Begin
<1>3. CASE initialize_processes(c) \/ initialize_memory(c) \/ initialize_fails(c)
  BY <1>1, <1>3 DEF initialize_processes, initialize_memory, initialize_fails
<1>4. CASE start_test(c)
  BY <1>1, <1>4 DEF start_test
<1>5. CASE start_clear(c)
  BY <1>1, <1>5 DEF start_clear
<1>6. CASE start_thread(c)
  BY <1>1, <1>6 DEF start_thread
<1>7. CASE start_fails(c)
  BY <1>1, <1>7 DEF start_fails
<1>8. CASE start_mark(c)
  BY <1>1, <1>8 DEF start_mark
<1>9. CASE stop_set(c)
  BY <1>1, <1>9 DEF stop_set
<1>10. CASE stop_join(c)
  BY <1>1, <1>10 DEF stop_join
<1>11. CASE join_times_out(c)
  BY <1>1, <1>11 DEF join_times_out
<1>12. CASE stop_raises(c)
  BY <1>1, <1>12 DEF stop_raises
<1>13. CASE stop_mark(c)
  BY <1>1, <1>13 DEF stop_mark
<1> QED
  BY <1>2, <1>3, <1>4, <1>5, <1>6, <1>7, <1>8, <1>9, <1>10, <1>11, <1>12, <1>13
     DEF Lifecycle

\* Every step keeps the types.
LEMMA TypeStep == TypeOK /\ LocksInv /\ LocksInv' /\ [Next]_vars => TypeOK'
<1> SUFFICES ASSUME TypeOK, LocksInv', [Next]_vars
             PROVE  TypeOK'
  OBVIOUS
<1>0. FrameTypeOK'
  BY DEF LocksInv
<1>1. CASE UNCHANGED vars
  BY <1>0, <1>1 DEF vars, flags, TypeOK, Busy
<1>2. ASSUME NEW c \in Clients, NEW method \in Methods, invoke(c, method)
      PROVE  TypeOK'
  BY <1>0, <1>2, LifecycleAssumption
     DEF invoke, Enter, lifecycleVars, flags, TypeOK, FrameTypeOK, Busy
<1>3. ASSUME NEW c \in Clients, initialize(c) \/ start(c) \/ stop(c) \/ Lifecycle(c)
      PROVE  TypeOK'
  BY <1>3, TypeLifecycle
<1>4. ASSUME NEW s \in Schedulers, scheduler_pass(s)
      PROVE  TypeOK'
  BY <1>0, <1>4, LifecycleAssumption
     DEF scheduler_pass, Enter, lifecycleVars, flags, TypeOK, FrameTypeOK, Busy
<1>5. ASSUME NEW s \in Schedulers, scheduler_exit(s)
      PROVE  TypeOK'
  BY <1>0, <1>5 DEF scheduler_exit, flags, TypeOK, Busy
<1>6. ASSUME NEW t \in Threads, advance(t) \/ return_(t)
      PROVE  TypeOK'
  <2>1. frame[t] # Outside /\ \A u \in Threads \ {t} : frame'[u] = frame[u]
    BY <1>6 DEF advance, return_, Advance, Return, Outside, TypeOK, FrameTypeOK
  <2> QED
    BY <1>0, <1>6, <2>1, LifecycleAssumption
       DEF advance, return_, lifecycleVars, flags, TypeOK, Busy
<1> QED BY <1>1, <1>2, <1>3, <1>4, <1>5, <1>6 DEF Next

\* Every variable of the lifecycle keeps its type, and a thread is where its state says.
THEOREM LifecycleTypeCorrect == Spec => []TypeOK
BY TypeStart, TypeStep, LocksInvariant, PTL DEF Spec

-----------------------------------------------------------------------------
(***************************************************************************)
(* While no two lifecycle calls have overlapped there is one client in a   *)
(* lifecycle call at most, and where it is says what the flags, the event  *)
(* and the threads are.                                                    *)
(***************************************************************************)

Loops == alive \ abandoned

Quiet ==
  /\ running => Loops = {scheduler_thread} /\ ~stop_event
  /\ ~running => Loops = {}

Phase(l) ==
  /\ l \in {"idle", "start"} \cup Filling => Quiet
  /\ l = "start_clear"  => ~running /\ Loops = {}
  /\ l = "start_thread" => ~running /\ Loops = {} /\ ~stop_event
  /\ l = "start_mark"   => ~running /\ Loops = {scheduler_thread} /\ ~stop_event
  /\ l = "stop"         => running /\ Quiet
  /\ l = "stop_join"    => scheduler_thread \in Schedulers /\ Loops \subseteq {scheduler_thread}
  /\ l = "stop_mark"    => Loops = {}

SoleAt(c, l) == control[c] = l /\ \A d \in Clients \ {c} : ~Busy(d)

LifeInv ==
  ~overlapped =>
    /\ \A c \in Clients : Busy(c) => SoleAt(c, control[c])
                                     /\ Phase(control[c])
    /\ (\A c \in Clients : ~Busy(c)) => Phase("idle")

\* A step after which one client at most is in a lifecycle call, at l, and the state
\* is that of l, keeps the invariant.
LEMMA LifeInvNext ==
  ASSUME NEW c \in Clients, NEW l \in ControlLabels, SoleAt(c, l)', Phase(l)'
  PROVE  LifeInv'
<1>1. control'[c] = l /\ \A d \in Clients \ {c} : control'[d] = "idle"
  BY DEF SoleAt, Busy
<1>2. CASE l = "idle"
  <2>1. \A d \in Clients : control'[d] = "idle"
    BY <1>1, <1>2
  <2>2. Phase("idle")'
    BY <1>2
  <2> QED BY <2>1, <2>2 DEF LifeInv, Busy
<1>3. CASE l # "idle"
  <2>1. ASSUME NEW d \in Clients, Busy(d)'
        PROVE  SoleAt(d, control[d])' /\ Phase(control[d])'
    <3>1. d = c /\ control'[d] = l
      BY <1>1, <2>1 DEF Busy
    <3>2. SoleAt(d, control[d])'
      BY <1>1, <3>1 DEF SoleAt, Busy
    <3>3. Phase(control[d])'
      BY <3>1 DEF Phase
    <3> QED BY <3>2, <3>3
  <2>2. ~(\A d \in Clients : ~Busy(d)')
    BY <1>1, <1>3 DEF Busy
  <2> QED BY <2>1, <2>2 DEF LifeInv
<1> QED BY <1>2, <1>3

\* A client that steps on from a label.
LEMMA LifeMove ==
  ASSUME TypeOK, LifeInv, ~overlapped, NEW c \in Clients, Busy(c),
         NEW l \in ControlLabels, Goto(c, l), Phase(l)'
  PROVE  LifeInv'
<1>1. SoleAt(c, l)'
  BY DEF LifeInv, SoleAt, Goto, Busy, TypeOK
<1> QED BY <1>1, LifeInvNext

\* Nothing has begun.
LEMMA LifeStart == Init => LifeInv
BY DEF Init, LifeInv, Phase, Quiet, Loops, Busy

\* A lifecycle call that begins on its own starts from the idle state.
LEMMA LifeBegin ==
  ASSUME TypeOK, LifeInv, NEW c \in Clients, initialize(c) \/ start(c) \/ stop(c)
  PROVE  LifeInv'
<1> SUFFICES ASSUME ~overlapped'
             PROVE  LifeInv'
  BY DEF LifeInv
<1>1. PICK l \in {"initialize", "start_initialize", "start", "stop"} :
        /\ Begin(c, l)
        /\ l = "stop" => running
  BY DEF initialize, start, stop
<1>2. ~overlapped /\ \A d \in Clients : ~Busy(d)
  BY <1>1 DEF Begin, TypeOK
<1>3. Phase("idle")
  BY <1>2 DEF LifeInv
<1>4. SoleAt(c, l)'
  BY <1>1, <1>2 DEF Begin, Goto, SoleAt, Busy, TypeOK
<1>5. Phase(l)'
  BY <1>1, <1>3 DEF Begin, Phase, Filling, FillingProcesses, FillingMemory, Quiet, Loops, flags
<1>6. l \in ControlLabels
  BY DEF ControlLabels, Filling, FillingProcesses, FillingMemory
<1> QED BY <1>4, <1>5, <1>6, LifeInvNext

\* Each step of a client in a lifecycle call leads from the state of its label to
\* the state of the next.
LEMMA LifeClient ==
  ASSUME TypeOK, LifeInv, NEW c \in Clients, Lifecycle(c)
  PROVE  LifeInv'
<1>1. overlapped' = overlapped /\ Busy(c)
  BY DEF Lifecycle, initialize_processes, initialize_memory, initialize_fails, start_test,
         start_clear,
              start_thread, start_fails, start_mark, stop_set, stop_join,
         join_times_out, stop_raises, stop_mark, Filling, FillingProcesses, FillingMemory, Busy
<1> SUFFICES ASSUME ~overlapped
             PROVE  LifeInv'
  BY <1>1 DEF LifeInv
<1>2. Phase(control[c])
  BY <1>1 DEF LifeInv
<1>3. ASSUME NEW l \in ControlLabels, Goto(c, l), Phase(l)'
      PROVE  LifeInv'
  BY <1>1, <1>3, LifeMove
<1> USE DEF Phase, Quiet, Loops, flags, Filling, FillingProcesses, FillingMemory
<1>4. CASE initialize_processes(c) \/ initialize_memory(c) \/ initialize_fails(c)
  <2>1. PICK l \in {"idle", "start"} \cup Filling : Goto(c, l)
    BY <1>4 DEF initialize_processes, initialize_memory, initialize_fails
  <2>2. Phase(l)'
    BY <1>2, <1>4 DEF initialize_processes, initialize_memory, initialize_fails
  <2> QED BY <2>1, <2>2, <1>3 DEF ControlLabels
<1>5. CASE start_test(c)
  <2>1. CASE MayStart
    <3>1. Goto(c, "start_clear") /\ Phase("start_clear")'
      BY <1>2, <1>5, <2>1 DEF start_test, MayStart
    <3> QED BY <3>1, <1>3 DEF ControlLabels
  <2>2. CASE ~MayStart
    <3>1. Goto(c, "idle") /\ Phase("idle")'
      BY <1>2, <1>5, <2>2 DEF start_test, MayStart
    <3> QED BY <3>1, <1>3 DEF ControlLabels
  <2> QED BY <2>1, <2>2
<1>6. CASE start_clear(c)
  <2>1. Goto(c, "start_thread") /\ Phase("start_thread")'
    BY <1>2, <1>6 DEF start_clear
  <2> QED BY <2>1, <1>3 DEF ControlLabels
<1>7. CASE start_thread(c)
  <2>1. Goto(c, "start_mark") /\ Phase("start_mark")'
    BY <1>2, <1>7 DEF start_thread, TypeOK
  <2> QED BY <2>1, <1>3 DEF ControlLabels
<1>8. CASE start_fails(c)
  <2>1. Goto(c, "idle") /\ Phase("idle")'
    BY <1>2, <1>8 DEF start_fails
  <2> QED BY <2>1, <1>3 DEF ControlLabels
<1>9. CASE start_mark(c)
  <2>1. Goto(c, "idle") /\ Phase("idle")'
    BY <1>2, <1>9 DEF start_mark
  <2> QED BY <2>1, <1>3 DEF ControlLabels
<1>10. CASE stop_set(c)
  <2>1. Goto(c, "stop_join") /\ Phase("stop_join")'
    BY <1>2, <1>10 DEF stop_set, TypeOK
  <2> QED BY <2>1, <1>3 DEF ControlLabels
<1>11. CASE stop_join(c)
  <2>1. Goto(c, "stop_mark") /\ Phase("stop_mark")'
    BY <1>2, <1>11 DEF stop_join
  <2> QED BY <2>1, <1>3 DEF ControlLabels
<1>12. CASE join_times_out(c)
  <2>1. Goto(c, "stop_mark") /\ Phase("stop_mark")'
    BY <1>2, <1>12 DEF join_times_out
  <2> QED BY <2>1, <1>3 DEF ControlLabels
<1>13. CASE stop_raises(c)
  BY <1>2, <1>13, LifecycleAssumption DEF stop_raises
<1>14. CASE stop_mark(c)
  <2>1. Goto(c, "idle") /\ Phase("idle")'
    BY <1>2, <1>14 DEF stop_mark
  <2> QED BY <2>1, <1>3 DEF ControlLabels
<1> QED
  BY <1>4, <1>5, <1>6, <1>7, <1>8, <1>9, <1>10, <1>11, <1>12, <1>13, <1>14 DEF Lifecycle

\* A step that leaves the labels, the flags and the threads that loop alone.
LEMMA LifeSame ==
  ASSUME LifeInv,
         UNCHANGED <<flags, scheduler_thread, control, overlapped>>, Loops' = Loops
  PROVE  LifeInv'
BY DEF LifeInv, SoleAt, Busy, Phase, Quiet, flags

\* A thread leaves its loop when the event is set: then it was given up, or it is
\* the one that a stop waits for.
LEMMA LifeExit ==
  ASSUME TypeOK, LifeInv, NEW s \in Schedulers, scheduler_exit(s)
  PROVE  LifeInv'
<1> SUFFICES ASSUME ~overlapped, ~overlapped'
             PROVE  LifeInv'
  BY DEF LifeInv, scheduler_exit
<1>1. Loops' = Loops \ {s} /\ stop_event
  BY DEF scheduler_exit, Loops
<1>2. ASSUME NEW l \in ControlLabels, Phase(l)
      PROVE  Phase(l)'
  BY <1>1, <1>2 DEF scheduler_exit, Phase, Quiet, flags
<1>4. control' = control /\ \A c \in Clients : control[c] \in ControlLabels
  BY DEF scheduler_exit, TypeOK
<1>5. "idle" \in ControlLabels
  BY DEF ControlLabels
<1>6. ASSUME NEW c \in Clients, Busy(c)'
      PROVE  SoleAt(c, control[c])' /\ Phase(control[c])'
  <2>1. PICK l \in ControlLabels : l = control[c]
    BY <1>4
  <2>2. SoleAt(c, l) /\ Phase(l)
    BY <1>4, <1>6, <2>1 DEF LifeInv, Busy
  <2>3. SoleAt(c, l)'
    BY <1>4, <2>2 DEF SoleAt, Busy
  <2>4. Phase(l)' /\ l = control'[c]
    BY <1>2, <1>4, <2>1, <2>2
  <2> QED BY <2>3, <2>4 DEF SoleAt, Phase
<1>7. ASSUME \A c \in Clients : ~Busy(c)'
      PROVE  Phase("idle")'
  <2>1. Phase("idle")
    BY <1>4, <1>7 DEF LifeInv, Busy
  <2> QED BY <1>2, <1>5, <2>1
<1> QED BY <1>6, <1>7 DEF LifeInv

\* Every step keeps what the labels say of the flags and the threads.
LEMMA LifeStep == TypeOK /\ LifeInv /\ [Next]_vars => LifeInv'
<1> SUFFICES ASSUME TypeOK, LifeInv, [Next]_vars
             PROVE  LifeInv'
  OBVIOUS
<1>1. CASE UNCHANGED vars
  BY <1>1, LifeSame DEF vars, Loops
<1>2. ASSUME NEW c \in Clients, NEW method \in Methods, invoke(c, method)
      PROVE  LifeInv'
  BY <1>2, LifeSame DEF invoke, lifecycleVars, Loops
<1>3. ASSUME NEW c \in Clients, initialize(c) \/ start(c) \/ stop(c) \/ Lifecycle(c)
      PROVE  LifeInv'
  BY <1>3, LifeBegin, LifeClient
<1>4. ASSUME NEW s \in Schedulers, scheduler_pass(s)
      PROVE  LifeInv'
  BY <1>4, LifeSame DEF scheduler_pass, lifecycleVars, Loops
<1>5. ASSUME NEW s \in Schedulers, scheduler_exit(s)
      PROVE  LifeInv'
  BY <1>5, LifeExit
<1>6. ASSUME NEW t \in Threads, advance(t) \/ return_(t)
      PROVE  LifeInv'
  BY <1>6, LifeSame DEF advance, return_, lifecycleVars, Loops
<1> QED BY <1>1, <1>2, <1>3, <1>4, <1>5, <1>6 DEF Next

\* What the labels say holds in every state.
LEMMA LifeInvariant == Spec => []LifeInv
BY LifeStart, LifeStep, LifecycleTypeCorrect, PTL DEF Spec

\* `running` is exact between lifecycle calls that did not overlap, whatever joins
\* time out and whatever threads cannot be made.
THEOREM RunningIsExact == Spec => []RunningExact
<1>1. LifeInv => RunningExact
  BY DEF LifeInv, RunningExact, Phase, Quiet, Loops
<1> QED BY LifeInvariant, <1>1, PTL

-----------------------------------------------------------------------------
(***************************************************************************)
(* What has been set up when a client gets so far as to make a thread,     *)
(* whatever overlaps and however many initializations fail.                *)
(***************************************************************************)

Starting == {"start", "start_clear", "start_thread", "start_mark"}

SetUpInv ==
  /\ initialized => init_queued
  /\ running \/ alive # {} => initialized
  /\ \A c \in Clients : /\ control[c] \in FillingMemory => init_queued
                        /\ control[c] \in Starting => initialized

\* Each step of a client in a lifecycle call: only an initialize that has come to its
\* end leads on to `start`.
LEMMA SetUpClient ==
  ASSUME TypeOK, SetUpInv, NEW c \in Clients,
         initialize(c) \/ start(c) \/ stop(c) \/ Lifecycle(c)
  PROVE  SetUpInv'
<1> USE DEF SetUpInv, Starting, Filling, FillingProcesses, FillingMemory, Goto, flags
<1>0. control \in [Clients -> ControlLabels]
  BY DEF TypeOK
<1>1. CASE initialize(c) \/ start(c) \/ stop(c)
  BY <1>0, <1>1 DEF initialize, start, stop, Begin
<1>2. CASE initialize_processes(c) \/ initialize_memory(c) \/ initialize_fails(c)
  BY <1>0, <1>2 DEF initialize_processes, initialize_memory, initialize_fails
<1>3. CASE start_test(c) \/ start_clear(c)
  BY <1>0, <1>3 DEF start_test, start_clear
<1>4. CASE start_thread(c) \/ start_fails(c) \/ start_mark(c)
  BY <1>0, <1>4 DEF start_thread, start_fails, start_mark
<1>5. CASE stop_set(c) \/ stop_join(c) \/ join_times_out(c) \/ stop_raises(c) \/ stop_mark(c)
  BY <1>0, <1>5 DEF stop_set, stop_join, join_times_out, stop_raises, stop_mark
<1> QED BY <1>1, <1>2, <1>3, <1>4, <1>5 DEF Lifecycle

\* No thread is made before, and the flag is never taken back.
LEMMA SetUpStep == TypeOK /\ SetUpInv /\ [Next]_vars => SetUpInv'
<1> SUFFICES ASSUME TypeOK, SetUpInv, [Next]_vars
             PROVE  SetUpInv'
  OBVIOUS
<1>1. ASSUME UNCHANGED <<flags, init_queued, control>>, alive' \subseteq alive
      PROVE  SetUpInv'
  BY <1>1 DEF SetUpInv, flags
<1>2. ASSUME NEW c \in Clients, initialize(c) \/ start(c) \/ stop(c) \/ Lifecycle(c)
      PROVE  SetUpInv'
  BY <1>2, SetUpClient
<1>3. ASSUME NEW s \in Schedulers, scheduler_exit(s)
      PROVE  SetUpInv'
  BY <1>1, <1>3 DEF scheduler_exit
<1> QED
  BY <1>1, <1>2, <1>3
     DEF Next, vars, invoke, scheduler_pass, advance, return_, lifecycleVars

\* No scheduler thread lives, and the core does not run, before an initialize has come
\* to its end, for any number of clients, overlaps and failures.
THEOREM CoreIsSetUp == Spec => []SchedulesInitialized
<1>1. Init => SetUpInv
  BY DEF Init, SetUpInv, FillingMemory, Starting
<1>2. SetUpInv => SchedulesInitialized
  BY DEF SetUpInv, SchedulesInitialized
<1> QED BY <1>1, <1>2, SetUpStep, LifecycleTypeCorrect, PTL DEF Spec
=============================================================================
