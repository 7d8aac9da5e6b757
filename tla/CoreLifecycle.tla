---------------------------- MODULE CoreLifecycle ----------------------------
(***************************************************************************)
(* The life of CoreSystem (core_system.py): any thread may call            *)
(* initialize, start and stop, which take no lock, while others make       *)
(* system calls and queries and the scheduler threads pass over the ready  *)
(* queue.  Every test of a flag and every assignment is a step of its own. *)
(***************************************************************************)
EXTENDS CoreLocks

CONSTANTS
  Clients,      \* the threads that call the methods of the core
  Schedulers,   \* the scheduler threads that the system can have at once
  Methods,      \* the system calls and queries that clients make
  NoThread      \* the None of _scheduler_thread

ASSUME LifecycleAssumption ==
  /\ Threads = Clients \cup Schedulers
  /\ Clients \cap Schedulers = {}
  /\ NoThread \notin Threads
  /\ Methods \subseteq Calls

VARIABLES
  initialized, running,  \* the flags of those names
  stop_event,            \* _stop_event is set
  scheduler_thread,      \* _scheduler_thread
  alive,                 \* the scheduler threads that have not left their loop
  init_queued,           \* the init process has entered the ready queue
  control,               \* client -> where it is in initialize, start or stop
  abandoned,             \* history: the live threads whose join timed out
  overlapped             \* history: two lifecycle calls have overlapped

flags == <<initialized, running, stop_event>>
vars  == <<frame, flags, scheduler_thread, alive, init_queued, control,
           abandoned, overlapped>>

Busy(c)    == control[c] # "idle"
Goto(c, l) == control' = [control EXCEPT ![c] = l]

Init ==
  /\ LocksInit
  /\ initialized = FALSE /\ running = FALSE /\ stop_event = FALSE
  /\ scheduler_thread = NoThread
  /\ alive = {}
  /\ init_queued = FALSE
  /\ control = [c \in Clients |-> "idle"]
  /\ abandoned = {}
  /\ overlapped = FALSE

-----------------------------------------------------------------------------
(***************************************************************************)
(* initialize, start and stop.                                             *)
(***************************************************************************)

Begin(c, label) ==
  /\ ~Busy(c) /\ frame[c] = Outside
  /\ Goto(c, label)
  /\ overlapped' = (overlapped \/ \E d \in Clients : Busy(d))
  /\ UNCHANGED <<frame, flags, scheduler_thread, alive, init_queued, abandoned>>

\* A call of initialize or start on a core that is not initialized fills the tables;
\* otherwise initialize returns and start tests `running`.
initialize(c) == ~initialized /\ Begin(c, "initialize")
start(c)      == Begin(c, IF initialized THEN "start" ELSE "start_initialize")

\* `if not self.running: return True`: a stop of a core that does not run is no step.
stop(c)       == running /\ Begin(c, "stop")

\* An initialize, and one that start has called.
FillingProcesses == {"initialize", "start_initialize"}
FillingMemory    == {"initialize_memory", "start_initialize_memory"}
Filling          == FillingProcesses \cup FillingMemory

\* The kernel and init enter the process table, and init the ready queue, once more if
\* an initialize that failed, or one that overlaps, has already put it there.
initialize_processes(c) ==
  /\ control[c] \in FillingProcesses
  /\ init_queued' = TRUE
  /\ Goto(c, IF control[c] = "initialize" THEN "initialize_memory"
                                          ELSE "start_initialize_memory")
  /\ UNCHANGED <<frame, flags, scheduler_thread, alive, abandoned, overlapped>>

\* _init_memory, and the flag at the end.
initialize_memory(c) ==
  /\ control[c] \in FillingMemory
  /\ initialized' = TRUE
  /\ Goto(c, IF control[c] = "initialize_memory" THEN "idle" ELSE "start")
  /\ UNCHANGED <<frame, running, stop_event, scheduler_thread, alive, init_queued,
                 abandoned, overlapped>>

\* An exception, before or after init was queued: initialize returns False, with the
\* flag as it was and what it has filled left in the tables, and so does a start that
\* has called it.
initialize_fails_unnoticed(c) ==
  /\ control[c] \in Filling
  /\ Goto(c, IF control[c] \in {"initialize", "initialize_memory"} THEN "idle" ELSE "start")
  /\ UNCHANGED <<frame, flags, scheduler_thread, alive, init_queued, abandoned, overlapped>>
initialize_fails(c) ==
  /\ control[c] \in Filling
  /\ Goto(c, "idle")
  /\ UNCHANGED <<frame, flags, scheduler_thread, alive, init_queued, abandoned, overlapped>>

MayStart_always == TRUE
MayStart == ~running

start_test(c) ==
  /\ control[c] = "start"
  /\ Goto(c, IF MayStart THEN "start_clear" ELSE "idle")
  /\ UNCHANGED <<frame, flags, scheduler_thread, alive, init_queued, abandoned, overlapped>>

start_clear(c) ==
  /\ control[c] = "start_clear"
  /\ stop_event' = FALSE
  /\ Goto(c, "start_thread")
  /\ UNCHANGED <<frame, initialized, running, scheduler_thread, alive, init_queued,
                 abandoned, overlapped>>

start_thread(c) ==
  /\ control[c] = "start_thread"
  /\ \E s \in Schedulers \ alive :
       /\ alive' = alive \cup {s}
       /\ scheduler_thread' = s
  /\ Goto(c, "start_mark")
  /\ UNCHANGED <<frame, flags, init_queued, abandoned, overlapped>>

\* Thread.start() raises when the system has no thread to give: start returns
\* False and leaves the event cleared.
start_fails(c) ==
  /\ control[c] = "start_thread"
  /\ Schedulers \subseteq alive
  /\ scheduler_thread' = NoThread
  /\ Goto(c, "idle")
  /\ UNCHANGED <<frame, flags, alive, init_queued, abandoned, overlapped>>

start_mark(c) ==
  /\ control[c] = "start_mark"
  /\ running' = TRUE
  /\ Goto(c, "idle")
  /\ UNCHANGED <<frame, initialized, stop_event, scheduler_thread, alive, init_queued,
                 abandoned, overlapped>>

stop_set(c) ==
  /\ control[c] = "stop"
  /\ stop_event' = TRUE
  /\ Goto(c, "stop_join")
  /\ UNCHANGED <<frame, initialized, running, scheduler_thread, alive, init_queued,
                 abandoned, overlapped>>

\* join(timeout=3.0): it waits until the thread has left its loop, or gives up.
stop_join(c) ==
  /\ control[c] = "stop_join"
  /\ scheduler_thread \notin alive
  /\ scheduler_thread' = NoThread
  /\ Goto(c, "stop_mark")
  /\ UNCHANGED <<frame, flags, alive, init_queued, abandoned, overlapped>>

join_never_times_out(c) == FALSE
join_times_out(c) ==
  /\ control[c] = "stop_join"
  /\ scheduler_thread \in alive
  /\ abandoned' = abandoned \cup {scheduler_thread}
  /\ scheduler_thread' = NoThread
  /\ Goto(c, "stop_mark")
  /\ UNCHANGED <<frame, flags, alive, init_queued, overlapped>>

\* join raises when another stop() has taken the thread away, or when it was never
\* started: stop returns False.
stop_raises(c) ==
  /\ control[c] = "stop_join"
  /\ scheduler_thread = NoThread
  /\ Goto(c, "idle")
  /\ UNCHANGED <<frame, flags, scheduler_thread, alive, init_queued, abandoned, overlapped>>

stop_mark(c) ==
  /\ control[c] = "stop_mark"
  /\ running' = FALSE
  /\ Goto(c, "idle")
  /\ UNCHANGED <<frame, initialized, stop_event, scheduler_thread, alive, init_queued,
                 abandoned, overlapped>>

Lifecycle(c) ==
  \/ initialize_processes(c) \/ initialize_memory(c) \/ initialize_fails(c)
  \/ start_test(c) \/ start_clear(c) \/ start_thread(c) \/ start_fails(c)
  \/ start_mark(c)
  \/ stop_set(c) \/ stop_join(c) \/ join_times_out(c) \/ stop_raises(c)
  \/ stop_mark(c)

-----------------------------------------------------------------------------
(***************************************************************************)
(* System calls, queries and the scheduler loop.                           *)
(***************************************************************************)

lifecycleVars == <<flags, scheduler_thread, alive, init_queued, control, abandoned, overlapped>>

invoke(c, method) ==
  /\ ~Busy(c)
  /\ Enter(c, method)
  /\ UNCHANGED lifecycleVars

advance(t)  == Advance(t) /\ UNCHANGED lifecycleVars
return_(t)  == Return(t)  /\ UNCHANGED lifecycleVars

\* _scheduler_loop: the event is tested between two passes.
scheduler_pass_untested(s) ==
  /\ s \in alive
  /\ Enter(s, "_run_scheduler")
  /\ UNCHANGED lifecycleVars
scheduler_pass(s) ==
  /\ s \in alive
  /\ ~stop_event
  /\ Enter(s, "_run_scheduler")
  /\ UNCHANGED lifecycleVars

scheduler_exit_early(s) ==
  /\ s \in alive
  /\ stop_event
  /\ alive' = alive \ {s}
  /\ abandoned' = abandoned \ {s}
  /\ UNCHANGED <<frame, flags, scheduler_thread, init_queued, control, overlapped>>
scheduler_exit(s) ==
  /\ s \in alive /\ frame[s] = Outside
  /\ stop_event
  /\ alive' = alive \ {s}
  /\ abandoned' = abandoned \ {s}
  /\ UNCHANGED <<frame, flags, scheduler_thread, init_queued, control, overlapped>>

Next ==
  \/ \E c \in Clients :
       \/ initialize(c) \/ start(c) \/ stop(c)
       \/ Lifecycle(c)
       \/ \E method \in Methods : invoke(c, method)
  \/ \E s \in Schedulers : scheduler_pass(s) \/ scheduler_exit(s)
  \/ \E t \in Threads : advance(t) \/ return_(t)

Spec == Init /\ [][Next]_vars

\* Threads that wait for nothing go on.  A thread that waits for a lock gets it if
\* the lock is free again and again: its holders return, and the scheduler thread
\* sleeps a millisecond between two passes.
Fairness ==
  /\ \A c \in Clients : WF_vars(Lifecycle(c))
  /\ \A s \in Schedulers : WF_vars(scheduler_pass(s)) /\ WF_vars(scheduler_exit(s))
  /\ \A t \in Threads : SF_vars(advance(t)) /\ WF_vars(return_(t))

FairSpec == Spec /\ Fairness
-----------------------------------------------------------------------------
ControlLabels ==
  Filling \cup
  {"idle", "start", "start_clear", "start_thread", "start_mark",
   "stop", "stop_join", "stop_mark"}

\* Type correctness: only clients and live schedulers are in a method, and a client
\* in a lifecycle call is in no other.
TypeOK ==
  /\ FrameTypeOK
  /\ {initialized, running, stop_event, init_queued, overlapped} \subseteq BOOLEAN
  /\ scheduler_thread \in Schedulers \cup {NoThread}
  /\ abandoned \subseteq alive /\ alive \subseteq Schedulers
  /\ control \in [Clients -> ControlLabels]
  /\ \A c \in Clients : Busy(c) => frame[c] = Outside
  /\ \A s \in Schedulers \ alive : frame[s] = Outside

\* What a thread does to the tables: initialize fills them and holds no lock.
Access(t) ==
  IF t \in Clients /\ control[t] \in FillingProcesses
  THEN Section({}, {"processes", "ready_queue"}, {})
  ELSE IF t \in Clients /\ control[t] \in FillingMemory
  THEN Section({}, MemoryTables, {})
  ELSE Here(t)

\* No thread changes a table while another changes it or iterates over it, which
\* would lose an update or raise "changed size during iteration" -- except that
\* initialize, which takes no lock, may come upon a call that did not wait for it.
TablesGuarded ==
  \A t, u \in Threads :
    t # u /\ Collide(Access(t), Access(u)) =>
      \E c \in {t, u} \cap Clients : control[c] \in Filling

\* `running` tells the truth: between lifecycle calls, unless two have overlapped,
\* exactly the thread of _scheduler_thread passes over the queue and nothing tells
\* it to stop, or no thread does.  Threads whose join timed out are exempt.
RunningExact ==
  ~overlapped /\ (\A c \in Clients : ~Busy(c)) =>
    /\ alive \ abandoned = IF running THEN {scheduler_thread} ELSE {}
    /\ running => ~stop_event

\* Nobody passes over the queue of a core that is not set up: while a scheduler
\* thread lives, or `running` says so, some initialize has come to its end, however
\* many have failed half-way before or since, in whatever threads.
SchedulesInitialized ==
  running \/ alive # {} => initialized /\ init_queued

\* Every scheduler thread leaves its loop once the event is set and stays set: the one
\* that stop() waits for, one whose join it gave up, and one that an overlapping start
\* has left without a name.
StopEndsThreads == stop_event ~> (alive = {} \/ ~stop_event)

\* Every call returns: no thread waits for a lock for ever, and every lifecycle
\* call comes to its end.
CallsReturn ==
  \A c \in Clients :
    (frame[c] # Outside \/ Busy(c)) ~> (frame[c] = Outside /\ ~Busy(c))
=============================================================================
