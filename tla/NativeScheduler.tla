-------------------------- MODULE NativeScheduler --------------------------
(***************************************************************************)
(* The native scheduler (src/core/CoreSystem.{hpp,cpp}): any thread adds   *)
(* tasks to a ready queue ordered by priority, one scheduler thread runs   *)
(* them one after the other, and one controlling thread starts and stops   *)
(* the scheduler thread.                                                   *)
(*                                                                         *)
(* Every block that holds queueMutex_ is one step.  stop() is three: it    *)
(* clears running_ behind the mutex, notifies the condition variable after *)
(* it has released the mutex, and joins the thread.  The scheduler thread  *)
(* sleeps in cv_.wait; a notification, or nothing at all, wakes it.  An    *)
(* exception that nobody catches ends the program.                         *)
(***************************************************************************)
EXTENDS Integers, SequencesExt

CONSTANTS
  Priorities,   \* the priorities that callers give addProcess
  LastPid       \* bound: the last pid that addProcess hands out

ASSUME NativeAssumption == Priorities \subseteq Int /\ LastPid \in Nat

VARIABLES
  readyQueue_,     \* the processes that wait to run: [pid, priority]
  processStates_,  \* pid -> state (a map)
  nextPid_,        \* the next pid to hand out
  running_,        \* the scheduler is to go on
  scheduler,       \* where the scheduler thread is
  proc,            \* the pid of the process that it took last, 0 before the first
  controller       \* where the controlling thread is, or "aborted"

queueVars == <<readyQueue_, processStates_, nextPid_>>
vars == <<queueVars, running_, scheduler, proc, controller>>

ProcessState == {"READY", "RUNNING", "TERMINATED"}

\* cv_.notify_one and cv_.notify_all: only the scheduler thread ever waits.
Notify_none == UNCHANGED scheduler
Notify == scheduler' = IF scheduler = "asleep" THEN "awake" ELSE scheduler

Init ==
  /\ readyQueue_ = <<>>
  /\ processStates_ = [pid \in {} |-> "READY"]
  /\ nextPid_ = 1
  /\ running_ = FALSE
  /\ scheduler = "none"
  /\ proc = 0
  /\ controller = "idle"

-----------------------------------------------------------------------------
(***************************************************************************)
(* addProcess, by any thread, a running task included.                     *)
(***************************************************************************)

\* A new process goes before every process of a lower priority.
RunsBefore_equal(priority, other) == priority >= other.priority
RunsBefore(priority, other) == priority > other.priority

\* Where std::find_if stops: at the first process that the new one runs before,
\* or at the end.
IsPlace(place, priority) ==
  /\ \A i \in 1..(place - 1) : ~RunsBefore(priority, readyQueue_[i])
  /\ place <= Len(readyQueue_) => RunsBefore(priority, readyQueue_[place])

\* processStates_[pid] = READY, for a new pid.
SetReady_none(pid) == UNCHANGED processStates_
SetReady(pid) ==
  processStates_' =
    [other \in DOMAIN processStates_ \cup {pid} |->
       IF other = pid THEN "READY" ELSE processStates_[other]]

addProcess(priority) ==
  /\ nextPid_ <= LastPid
  /\ \E place \in 1..(Len(readyQueue_) + 1) :
       /\ IsPlace(place, priority)
       /\ readyQueue_' =
            InsertAt(readyQueue_, place, [pid |-> nextPid_, priority |-> priority])
  /\ SetReady(nextPid_)
  /\ nextPid_' = nextPid_ + 1
  /\ Notify
  /\ UNCHANGED <<running_, proc, controller>>

-----------------------------------------------------------------------------
(***************************************************************************)
(* The controlling thread.                                                 *)
(***************************************************************************)

start ==
  /\ controller = "idle"
  /\ scheduler = "none"
  /\ running_' = TRUE
  /\ scheduler' = "awake"
  /\ UNCHANGED <<queueVars, proc, controller>>

\* A second start assigns to a std::thread that is joinable: std::terminate.
start_again ==
  /\ controller = "idle"
  /\ scheduler # "none"
  /\ running_' = TRUE
  /\ controller' = "aborted"
  /\ UNCHANGED <<queueVars, scheduler, proc>>

stop ==
  /\ controller = "idle"
  /\ running_' = FALSE
  /\ controller' = "notify"
  /\ UNCHANGED <<queueVars, scheduler, proc>>

stop_notify ==
  /\ controller = "notify"
  /\ Notify
  /\ controller' = IF scheduler = "none" THEN "idle" ELSE "join"
  /\ UNCHANGED <<queueVars, running_, proc>>

stop_join ==
  /\ controller = "join"
  /\ scheduler = "exited"
  /\ scheduler' = "none"
  /\ controller' = "idle"
  /\ UNCHANGED <<queueVars, running_, proc>>

-----------------------------------------------------------------------------
(***************************************************************************)
(* schedulerLoop.                                                          *)
(***************************************************************************)

\* cv_.wait finds nothing to do and sleeps ...
fall_asleep ==
  /\ scheduler = "awake"
  /\ running_ /\ readyQueue_ = <<>>
  /\ scheduler' = "asleep"
  /\ UNCHANGED <<queueVars, running_, proc, controller>>

\* ... and may wake with no notification.
wake_spuriously ==
  /\ scheduler = "asleep"
  /\ scheduler' = "awake"
  /\ UNCHANGED <<queueVars, running_, proc, controller>>

MayExit_early == ~running_
MayExit == ~running_ /\ readyQueue_ = <<>>

exit_loop ==
  /\ scheduler = "awake"
  /\ MayExit
  /\ scheduler' = "exited"
  /\ UNCHANGED <<queueVars, running_, proc, controller>>

take_process ==
  /\ scheduler = "awake"
  /\ readyQueue_ # <<>>
  /\ readyQueue_' = Tail(readyQueue_)
  /\ LET pid == Head(readyQueue_).pid IN
       /\ proc' = pid
       /\ processStates_' = [processStates_ EXCEPT ![pid] = "RUNNING"]
  /\ scheduler' = "task"
  /\ UNCHANGED <<nextPid_, running_, controller>>

\* The task returns.
SetTerminated_none == UNCHANGED processStates_
SetTerminated == processStates_' = [processStates_ EXCEPT ![proc] = "TERMINATED"]

finish_process ==
  /\ scheduler = "task"
  /\ SetTerminated
  /\ scheduler' = "awake"
  /\ UNCHANGED <<readyQueue_, nextPid_, running_, proc, controller>>

\* The task throws, or calls stop(), which throws when it joins its own thread:
\* std::terminate.
task_throws ==
  /\ scheduler = "task"
  /\ controller' = "aborted"
  /\ UNCHANGED <<queueVars, running_, scheduler, proc>>

-----------------------------------------------------------------------------
Next ==
  /\ controller # "aborted"
  /\ \/ \E priority \in Priorities : addProcess(priority)
     \/ start \/ start_again
     \/ stop \/ stop_notify \/ stop_join
     \/ fall_asleep \/ wake_spuriously \/ exit_loop
     \/ take_process \/ finish_process \/ task_throws

Spec == Init /\ [][Next]_vars

\* The threads that run make progress, and tasks return.  Nobody has to add a
\* process or to call start or stop, and no sleeper has to wake unasked.
Fairness ==
  /\ WF_vars(controller # "aborted" /\ stop_notify)
  /\ WF_vars(controller # "aborted" /\ stop_join)
  /\ WF_vars(controller # "aborted" /\ fall_asleep)
  /\ WF_vars(controller # "aborted" /\ exit_loop)
  /\ WF_vars(controller # "aborted" /\ take_process)
  /\ WF_vars(controller # "aborted" /\ finish_process)

FairSpec == Spec /\ Fairness
-----------------------------------------------------------------------------
Alive == scheduler \in {"awake", "asleep", "task"}

InState(state) == {pid \in DOMAIN processStates_ : processStates_[pid] = state}

\* The processes that the queue can hold when the next pid is the given one.
Entry(next) == [pid: 1..(next - 1), priority: Priorities]

\* Type correctness: a queued process and a running one have a state.
TypeOK ==
  /\ nextPid_ \in Nat \ {0}
  /\ processStates_ \in [1..(nextPid_ - 1) -> ProcessState]
  /\ readyQueue_ \in Seq(Entry(nextPid_))
  /\ running_ \in BOOLEAN
  /\ scheduler \in {"none", "awake", "asleep", "task", "exited"}
  /\ proc \in 0..(nextPid_ - 1)
  /\ scheduler = "task" => proc # 0
  /\ controller \in {"idle", "notify", "join", "aborted"}

\* "Larger values run sooner": the head of the queue, which runs next, has the
\* highest priority of all that wait, and among equals the one that came first.
PriorityOrder ==
  \A i, j \in DOMAIN readyQueue_ : i < j =>
    \/ readyQueue_[i].priority > readyQueue_[j].priority
    \/ /\ readyQueue_[i].priority = readyQueue_[j].priority
       /\ readyQueue_[i].pid < readyQueue_[j].pid

\* What getProcessState says is so: READY processes wait in the queue, and the
\* one that RUNS is the one the scheduler thread has taken.
StatesExact ==
  /\ InState("READY") = {readyQueue_[i].pid : i \in DOMAIN readyQueue_}
  /\ InState("RUNNING") = IF scheduler = "task" THEN {proc} ELSE {}

\* No lost wakeup: when there is work, or the scheduler is to stop, the scheduler
\* thread does not sleep, unless stop() is about to notify it.
NoMissedNotify ==
  scheduler = "asleep" =>
    /\ readyQueue_ = <<>>
    /\ running_ \/ controller \in {"notify", "aborted"}

\* stop() waits for the work: when the scheduler thread leaves its loop, every
\* process that was added has run to its end.
StopDrains ==
  [][scheduler' = "exited" /\ scheduler # "exited" =>
       InState("TERMINATED") = DOMAIN processStates_]_vars

\* Work that waits while the scheduler thread lives is done, whatever the
\* controlling thread does, when processes are added only finitely often.
WorkIsDone ==
  \A pid \in 1..LastPid :
    (Alive /\ pid \in InState("READY")) ~>
      (controller = "aborted" \/ pid \in InState("TERMINATED"))

\* stop() returns, when processes are added only finitely often.
StopReturns ==
  (controller \in {"notify", "join"}) ~> (controller \in {"idle", "aborted"})
=============================================================================
