# Trinity: formal models, checks and proofs

This directory models the programs of this repository in TLA+. TLC checks the
models on small instances, and TLAPS proves the most important results for every
value of the constants. Paths below are relative to the root of the repository.

## 1. The system and its parts

The repository holds three programs that share no code.

| Part | Source | State | Operations | Model |
|---|---|---|---|---|
| Python core: processes, scheduler, messages | `core_system.py` | `processes`, `ready_queue`, `blocked_processes`, `next_pid`, `message_queues` | `process_create/exit/wait`, `ipc_send/receive`, the scheduler pass | `ProcessTable`, `CoreSystem`, `AtomicSyscalls` |
| Python core: memory manager | `core_system.py` | `memory_regions`, `process_memory`, `memory_usage` | `memory_allocate/free/map`, plus what create and exit do | `MemoryManager`, `CoreSystem` |
| Python core: lifecycle | `core_system.py` 200-332 | `initialized`, `running`, the scheduler thread, `_stop_event` | `initialize`, `start`, `stop`, the scheduler loop | `CoreLifecycle` |
| Python core: locks, queries | `core_system.py` 229-232, 930-1051 | four `RLock`s | every system call, `get_*`, the scheduler pass | `CoreLocks`, `CoreLifecycle` |
| Python core: command line | `core_system.py` 1053-1136 | none of its own | `main` | no |
| HTTP service | `trinity_service_main.py` | the configuration file and its copy in memory, two readiness flags, the main thread | `reload`, `drain`, `undrain`, probes, signals | `TrinityKernel`, `TrinityService`, `ServiceShutdown` |
| Events API | `trinity_comm_http.py` | subscriptions and messages of the external `Broker` | `produce`, `ack`, `poll`, `consume` | `EventsApi`, `TrinityService` |
| Native scheduler | `src/core/CoreSystem.{hpp,cpp}`, `src/process/ProcessState.hpp` | `readyQueue_`, `processStates_`, `running_`, the thread | `addProcess`, `start`, `stop`, `schedulerLoop` | `NativeScheduler` |
| Native dispatcher | `src/core/Syscall.{hpp,cpp}` | processes and message queues behind three mutexes | create, exit, send, receive | `NativeDispatcher` |
| Native memory | `src/memory/*.hpp`, `src/system/CoreSystem.cpp` | a buffer with a bump pointer and a list of segments | `allocate`, `free`, moves, re-initialisation | `NativeMemory` |

How they interact:

* In the Python core, client threads enter through `invoke_syscall`, which holds
  `_syscall_lock` around the whole handler. The scheduler thread takes only
  `_proc_lock`, once per pass. Processes and memory have a lock each, and message
  queues a third. `process_create` and `process_exit` take the memory lock and
  the IPC lock inside `_proc_lock`; `ipc_send` and `ipc_receive` take `_proc_lock`
  inside `_ipc_lock`.
* In the HTTP service every request has a thread of its own. The threads share
  the kernel object, the configuration file and its temporary file. The signal
  handler runs in the main thread.
* In the native scheduler any thread, a running task included, adds processes;
  one controlling thread starts and stops; one thread runs the tasks. One mutex
  and one condition variable tie them together.

What is hard, and what correctness means:

* *Processes and messages.* The state of a process is kept in three places that
  every call updates by hand, and the two halves of `ipc_send` and `ipc_receive`
  interleave with the scheduler. Correct means: the three places agree, no process
  sleeps beside a message, nobody starves or is overtaken, and the calls look
  atomic to clients.
* *Memory.* Two indexes of the same regions and a counter, each updated by hand.
  Correct means: the indexes agree, allocations are disjoint, exit frees
  everything, the counter is the memory of the process.
* *Native scheduler.* A condition variable, a stop that races work, tasks that add
  work. Correct means: no lost notification, order by priority, a stop that drains
  the queue and returns.
* *Locks and lifecycle.* Four locks, nested in two orders, and three methods that
  test and set flags without any. Correct means: no deadlock, no table changed
  while another thread goes through it, one scheduler thread, flags that tell the
  truth.
* *HTTP service and Events API.* Check-then-act over shared files and flags, and
  failures, kills and clients that leave between two steps. Correct means: the
  configuration is whole and kept, the flags agree, subscriptions are closed,
  messages are not dropped, requests end.
* *Native dispatcher and memory.* Two mutexes under a third; arithmetic that wraps.
  Correct means: no message for a process that has exited, segments that do not
  overlap, one owner per buffer.

`PROJECT.json` lists under `hazards` every place where this code is hard to
test, with the properties that watch it.

## 2. The modules

| Module | Content |
|---|---|
| `ProcessTable` | state and updates behind `_proc_lock` |
| `MemoryManager` | state and updates behind `_mem_lock` |
| `CoreSystem` | message queues, the call in flight, one action per system call and per critical section, the properties |
| `AtomicSyscalls` | the abstract specification: one mailbox per process, every call one step |
| `MCCoreSystem` | sets and symmetry for TLC |
| `CoreLocks` | the four locks: which sections a method consists of, who holds and who waits |
| `CoreLifecycle` | `CoreLocks` with `initialize`, `start`, `stop`, clients and scheduler threads |
| `RequestThreads` | the threads of `ThreadingHTTPServer` |
| `TrinityKernel` | reload, drain, undrain; the configuration files, the operator, kill and start |
| `EventsApi` | subscriptions and messages; an external broker |
| `TrinityService` | the last two with the main thread, signals, kills and restarts |
| `ServiceShutdown` | `TrinityService` with the end of `serve_forever` and of `main` |
| `MCService` | one kind of request per behaviour, for TLC |
| `NativeScheduler` | the native scheduler |
| `NativeDispatcher`, `NativeMemory` | the other two native parts |
| `MCNative` | one native part per behaviour, for TLC |
| `*_proofs` | theorems and their lemmas |

A definition `X_suffix` is X as a plausible bug would have it. It is used nowhere
but to confirm that a property of a run notices the bug (`mutants` in
`PROJECT.json`).

### CoreSystem and the code

The variables carry the names of the Python attributes. `processes` maps a pid to
its state only; `memory_usage` is the field of `ProcessInfo` of that name. The
variable `syscall` stands for `_syscall_lock`: it is `Idle` when the lock is free
or held inside a single step.

| Code | Action |
|---|---|
| `_run_scheduler`, `_execute_process` | `Schedule` |
| `_syscall_process_create` | `process_create`; with a value that an Enum lacks, `process_create_raises`, which loses the pid |
| `_syscall_process_exit` | `process_exit` |
| `_syscall_process_wait` | `process_wait`; when the target has terminated the call changes nothing |
| `_syscall_memory_allocate`, `_free`, `_map` | `memory_allocate`, `memory_free`, `memory_map` |
| `_syscall_ipc_send` | `ipc_send`, then `ipc_send_wake` |
| `_syscall_ipc_receive` | `ipc_receive`; on an empty queue `ipc_receive_empty`, then `ipc_receive_block`; without `wait` nothing |

*Atomicity.* A handler that changes state behind one lock is one step.
`process_create` and `process_exit` hold `_proc_lock` from beginning to end, so
the scheduler cannot come between their changes, and no other call can, because of
`_syscall_lock`. `ipc_send` and `ipc_receive` change the queue before they take
`_proc_lock`, and the scheduler may run in between: two steps. RUNNING is never
seen: `_run_scheduler` sets it and unsets it under the lock.

*Left out.* Names, payloads, headers, time stamps and run-time counters;
permissions, which only raise before anything changes; the `contexts` and
`pending_responses` tables, which no code uses; the statistics of system calls;
physical memory, which no allocation looks at; exit codes.

*Units.* Addresses and sizes are in pages of 4 KiB. All constants of the code are
multiples of a page, and no property depends on an offset in a page.

### NativeScheduler and the code

The variables carry the names of the C++ members. `scheduler` says where the
scheduler thread is: `none` (no joinable thread), `awake` (about to test the
predicate of `cv_.wait`), `asleep`, `task` (running a task without the mutex) or
`exited` (left its loop, not yet joined). `controller` says where the thread that
calls `start` and `stop` is; `aborted` is the end of the program by
`std::terminate`, which a second `start()`, a task that throws and a task that
calls `stop()` bring about. `stop()` is three steps because it notifies after it
has released the mutex. Wakeups of the condition variable may be spurious, and no
property counts on them.

### CoreLocks, CoreLifecycle and the code

`CoreSystem` takes a critical section as one step. `CoreLocks` is about what makes
it one. `Program` lists each of the nine paths through a system call, the six
queries and the scheduler pass as a sequence of sections; a section names the locks
held and the tables that the code changes or goes through there. `frame` says in
which section of which method a thread is. `Enter` and `Return` are the two ends of
a method; `Advance` goes to the next section when the locks that it needs are free.

`CoreLifecycle` adds `initialize`, `start`, `stop` and `_scheduler_loop`, one action
per test or assignment of a flag, of `_stop_event` or of `_scheduler_thread`
(`start_test`, `start_clear`, `start_thread`, `start_mark`; `stop_set`, `stop_join`
or `join_times_out`, `stop_mark`). `start_fails` and `stop_raises` are the paths
through their `except`. `initialize` fills the tables in two steps,
`initialize_processes`, which queues init, and `initialize_memory`, at the end of which
it sets its flag; `initialize_fails` may come before either and leaves what was filled,
so that a retry queues init again (`init_queued` says that init is queued, not how
often). While a client is there, `Access` says that it changes the tables without a
lock. `overlapped` and `abandoned` are history: whether
two lifecycle calls ever overlapped, and the threads whose join timed out.

### The HTTP service and the code

`at[t]` is where a request thread is in `handle_reload` (`read`, `open`, `write`,
`replace`, `install`, `finish`) or `handle_drain` (`drain_read`, `drain_publish`);
one action per line that reads or changes something shared. `file` and `tmp` are the
contents of `<config>` and `<config>.tmp`: a document, a text that does not parse,
empty, or torn. `handle[t]` says which file an open handle of t writes to: when
`os.replace` moves the file, the handle goes with it. A write may fail half-way, and
a kill may come at any moment; both may leave a torn file. A reload of another path
(`config_path`: `reload_other`, `reload_elsewhere`) installs some document or fails;
that path's own two files are not modelled, since nothing else looks at them. The path
is assumed to be neither `<config>` under another name nor `<config>.tmp`.

`request[t]` is a request of the Events API: the next step of its handler, its
subscription, the message that it has polled, what is left of X-Timeout in polls of
a second, and whether its client reads, has stopped to read or has left. `fate[m]`
follows a message from `new` through `queued` in the broker and `held` by a request to
`sent`, `acked` or `lost`. What the code catches may be raised: a poll
(`poll_raises`), a write or the conversion of the message (`write_fails`), `close()`
(`Close`, which then leaves the subscription open), the write of the headers to a client
that has left (`headers_fail`). A write waits while the client is connected and does not
read. The broker is another package; it is assumed to hand every message out once.

`stack` is the stack of the main thread: Python runs a signal handler on top of
whatever the thread is in. It is empty while the process is down. A kill loses
the requests, the subscriptions and the drain, and keeps the files.

*Left out.* Authorisation, rate limits, tracing and the `/muscle/` routes (other
packages); a request that is refused or malformed, which changes nothing; a power
loss that undoes what was written without `fsync`.

### NativeDispatcher, NativeMemory and the code

`ipc_send` is two steps, `ipc_send` and `ipc_send_push`, since it looks up its target
under `process_mutex_` and appends under `message_mutex_`; `target_pid` is what it
carries from one to the other, and `Dispatches` says that `dispatcher_mutex_` is
free. `NativeMemory` has the fields of `MemoryRegion` for every region, addresses
as offsets and sizes modulo `2^Width`. `wrapped` is history: the regions in which
`m_used + size` has overflowed.

## 3. What the runs check

| Run | Question | Result |
|---|---|---|
| `processes` | Do the three places agree, are wakeups kept, does nobody starve or get overtaken, does nobody else bring a terminated process back, do calls look atomic? | holds |
| `memory` | Do the indexes agree, are allocations disjoint, does exit free everything, does the counter never claim too much? | holds |
| `native_scheduler` | Are notifications kept, is the order by priority, does `stop()` drain and return? Do exited processes get no mail? Are segments disjoint and buffers owned once? | holds |
| `core_lifecycle` | Can the locks deadlock, is a table ever unguarded, do flags and threads agree, does a scheduler run only on a core that is set up and end when it is told to, does every call return? | holds |
| `http_service` | Is the configuration whole and kept, do the flags agree, are subscriptions closed and messages accounted for, do requests end? | holds |
| `waiters_wake` | Does a process that waits for another wake after that one's exit? | **no** |
| `mapping_free_space` | Does a mapping without an address find free space? | **no** |
| `usage_exact` | Is `memory_usage` the memory of the process? | **no** |
| `exit_frees_all` | Does exit free the regions that were mapped under the pid before it was handed out? | **no** |
| `reload_race` | Is the configuration replaced atomically also by two reloads at once? | **no** |
| `graceful_exit` | Does the process end after a signal? | **no** |

The last six are disagreements between the code and its own comments. `findings`
in `PROJECT.json` quotes the comment for each. In short:

* `process_wait` blocks with a reason that no code looks for.
* The default address of a mapping is the constant `0x30000000`.
* `memory_map` adds nothing to `memory_usage`, `memory_free` subtracts.
* `memory_map` does not ask whether its process exists, and `process_create`
  assigns the index of the new pid.
* All reloads use the same `<config>.tmp`. One truncates it, another renames it: the
  configuration is then an empty file.
* The signal handler calls `server.shutdown()` in the thread that runs, or has yet to
  run, `serve_forever`, and waits for ever for it to return. The process has to be
  killed.

Also met while modelling, without a run: the default `policy=0` of
`process_create` always raises, since `auto()` numbers `SchedulingPolicy` from 1,
and `main()` relies on the default when it creates its test process
(`core_system.py` 1081).

### Properties

* `ReadyQueueExact`, `BlockedExact`: a process is READY exactly when it is in the
  ready queue, once, and BLOCKED exactly when a reason is recorded.
* `NoLostWakeup`: a process in `ipc_receive` with a waiting message is the target of
  the `ipc_send` in flight. `CheckedStateHolds`: what the first half of a call saw
  is still so in its second half.
* `NoOvertaking`: in the ready queue a process falls behind another only from the
  head. `ReadyRuns`, `MailWakes`: the corresponding liveness.
* `OthersLeaveTerminated`: no pass of the scheduler, no message and no exit of another
  brings a terminated process back. A call of its own does (the handlers ask whether a
  process is in the table, not whether it is alive): an `ipc_receive` or `process_wait`
  leaves it BLOCKED, and a message then makes it READY. No doc or comment says that
  this cannot be, so it is no finding.
* `AtomicSafety`: `CoreSystem` implements `AtomicSyscalls` under the mapping
  `MailView`, which hides the message of an `ipc_send` until its wakeup is done.
* `RegionIndexExact`, `AllocationsDisjoint`, `ExitFreesMemory`,
  `UsageNeverOverReports`: see the module.
* `NoDeadlock`: in every set of threads there is one that waits for no other of the
  set. `process_create` nests `_ipc_lock` in `_proc_lock` and `ipc_send` the other way
  round; `_syscall_lock` keeps the two apart. `TablesGuarded`: no thread changes a
  table while another changes it or goes through it; `initialize`, which takes no
  lock, is exempt. `CallsReturn`.
* `RunningExact`: what `running` says of the threads, unless two lifecycle calls have
  overlapped (`overlapped`). Without the exemption it is false: `start` tests its flag
  long before it sets it, and two that overlap make two scheduler threads, one of
  which loses its name. Nothing in the repository says that these methods may be called
  concurrently (the comment "Mutexes for thread safety", `core_system.py:229`, is about
  the locks, which they do not take), so this is no finding.
* `SchedulesInitialized`, `StopEndsThreads`: both without any exemption, through
  overlaps, joins that gave up and initialisations that fail half-way. No scheduler runs
  before some `initialize` has come to its end; and once `_stop_event` is set and stays
  set every scheduler thread leaves its loop, those too that nobody has a name for.
* `ConfigFileWhole`, `ConfigFileKept`, `ReloadExact`, `FlagsAgree`: with the exemptions
  that the code makes necessary, each a history variable: `tmp_shared` (two reloads
  had `<config>.tmp` open at once), `edit_raced` (an edit between a reload's read and
  its replace is overwritten), `alone` (reloads of `<config>` that met no other
  reload and no edit; a reload of another path leaves the kernel with what that path
  holds and `<config>` as it is),
  `flags_raced` (the latest drains overlapped).
* `SubscriptionsClosed`: every way out of both handlers tries to close the subscription,
  once. An open subscription that no request will still try to close is in `unclosed`,
  its close() has raised or it has none (both handlers swallow that, and the poll has no
  other way), or in `orphaned`: the headers of a stream are written before the `try`
  whose `finally` closes it, and when the client has left by then nothing does.
  `MessagesAccounted`: until it is written, or the write has failed.
* `RequestsEnd`: a request ends, or comes to wait in a write for a client that is
  connected and has stopped to read (`Blocked`): the connection has no timeout, and
  such a client holds the thread for as long as it likes. A request with X-Timeout
  `inf`, which `float()` accepts, is exempt.
* `SegmentsDisjoint` (except after an overflow, `wrapped`), `OneOwner`,
  `ExitedGetNoMail`.
* `PriorityOrder`, `StatesExact`, `NoMissedNotify`, `StopDrains`, `WorkIsDone`,
  `StopReturns`: see the module.

### Bounds

* `MaxPid = 1000`: kernel, init and one created process, which may have been
  rejected instead. Three processes are enough for one to be overtaken by another
  while a third exits or blocks.
* `MaxMail = 2`, two messages: enough for a queue whose order matters and that is
  not empty after a receive.
* Targets 0 and 1000: a process that always exists and one that may not exist yet,
  run, be blocked or have terminated.
* Two uuids: an allocation or mapping beside the three segments and another one;
  they are interchangeable, so their permutations are a symmetry (the run has no
  liveness property). The allocation size of 128 MB (32768 pages) is chosen so
  that two allocations reach beyond `0x30000000`; size 0 is the rejected one.
  `MapAddresses` has the default and 640 MB, in the middle of where allocations go.
  `MaxAddress = 205312` (802 MB) is where two allocations end. `MinUsage` lets
  `memory_usage` fall below zero by one shared mapping.
* `StrayCallers = {7}` in `memory`: a pid that no process ever has. In
  `exit_frees_all` it is 1000, the pid that process_create hands out next.
* `LastPid = 6`, three priorities: a queue with equal and different priorities,
  tasks that add work during a stop, and several starts and stops.

* `core_lifecycle`: two clients and two scheduler threads, so that a start can run
  against a stop, a start, a thread that was given up, or no thread to give. Of the
  methods `process_create`, `ipc_send` and `get_system_info`: those that nest the locks
  in opposite orders, and the query with two. The proofs are about all sixteen.
* `http_service`: two request threads, two documents (an object and an array), a text
  that does not parse; two messages, two subscriptions, X-Timeout of no, one or
  endlessly many polls; one signal. Messages and subscriptions are used in order,
  since each can stand for any other, and a client stops to read when a write needs it.
  A behaviour serves reloads, drains or the
  Events API: they share no variable but the threads, and the product of the three
  would add no case. Threads are used again: the number of requests is not bounded.
* `native_scheduler`: two callers, two processes and two messages in the dispatcher;
  in the memory two regions, two buffers, capacity 4 with sizes of three bits, four
  segments. A wrapped region is not followed further.

### Fairness

`FairSpec` of `CoreSystem` has weak fairness of the scheduler pass, a daemon
thread that passes every millisecond, and of the second halves of `ipc_send` and
`ipc_receive`, whose threads wait only for `_proc_lock`, which is never held for
long. Clients are under no obligation to call anything. In `NativeScheduler` the
two threads make progress and tasks return; nobody has to add, start or stop, and
a sleeper need not wake unless notified. `WorkIsDone` and `StopReturns` hold when
processes are added finitely often, which the bound `LastPid` makes so: a stream
of work without end keeps the queue from draining and lets low priorities starve.

In `CoreLifecycle` a client in a lifecycle call goes on, live scheduler threads pass and
leave, and methods return. A thread that waits for a lock has strong fairness: its
holders return, and `RLock` serves a waiter when it is free again and again. In
`TrinityService` the main thread and the request threads go on; signals, edits, kills,
requests, clients that leave, stop to read or read again, and polls and writes that raise
are under no obligation. A write to a client that does not read waits; the fairness of
the request threads is not about it. `ServiceShutdown` adds that
`serve_forever` ends when it runs and is asked to, and that the process ends when
it can: `GracefulExit` fails all the same. `NativeDispatcher` and `NativeMemory`
have no liveness property.

`CHECK_DEADLOCK FALSE` is set where the system may stop: with no client calling, nothing need
happen, and the bounds stop the rest. `http_service` is checked for deadlock: a killed
process can always start again.

## 4. What is proved

Every safety invariant and every action property that a passing run checks is also
proved, for all values of the constants that the named assumptions allow, three of them
(`RegionIndexExact`, `AllocationsDisjoint`, `ExitFreesMemory`) unless clients call under
pids that are yet to be handed out. For the Python core the proofs are in
`ProcessTable_proofs`, `MemoryManager_proofs` and `CoreSystem_proofs` (each extends the
one before), and in `CoreLifecycle_proofs`; for the HTTP service in
`TrinityKernel_proofs` and `TrinityService_proofs`; for the native programs in
`NativeScheduler_proofs` and `NativeParts_proofs`.

*Python core.* `CoreInv` is the inductive invariant: `ReadyQueueExact`,
`BlockedExact` and the types of the process table (`ProcessInv`), the types of the
region table with what keeps uuids and segment ids apart (`MemoryInv`), the types
of the message queues, `NoLostWakeup` and `CheckedStateHolds`. `NoLostWakeup` is not
inductive alone: `ipc_receive_block` would break it if the queue had been filled
since `ipc_receive_empty`, and `CheckedStateHolds` says that it has not, which in
turn is so because no other call starts while `syscall` is not `Idle`. One lemma
per update says what it does to the queue (order, duplicates, range), one lemma
per module lifts that to the actions, and the theorems follow:
`CoreInvariant`, `TypeCorrect`, `QueueCorrect`, `BlockedCorrect`, `WakeupsKept`,
`ChecksKept`, `RoundRobin`. `TerminatedLeftAlone` follows from the invariant too: a pass
of the scheduler runs the head of the queue, which is READY by `ReadyQueueExact`, and
`ipc_send` wakes a process with a reason, which is BLOCKED by `BlockedExact`.

Two theorems say in general what a run can only show on its instance. `WaitingIsBounded`:
a process that stays in the ready queue never falls back unless it was at the head, and
each pass of the scheduler brings it nearer, so that the n-th has its slice after n - 1
passes. `ReadyRuns` follows from this by fairness, which is left to TLC.
`WaitersAreLeft`: a process that is blocked in `process_wait` stays so until it makes a
call itself. This is the finding of the run `waiters_wake` for any number of processes.

*Refinement.* `AppearsAtomic` proves that `CoreSystem` implements `AtomicSyscalls` under
`MailView`. Initial states map to initial states (`AtomicInit`), and each step to a step
or a stutter (`AtomicStep`): `ipc_send` changes a queue and stutters, and
`ipc_send_wake` is `Send`; `ipc_receive_empty` stutters, and `ipc_receive_block` is
`AwaitMail`. The second step of each pair can only be taken for an abstract step because of
`CheckedStateHolds`: the queue of the target still ends with the message, that of the
receiver is still empty. `MailBounded` gives the bound of `Send` when the message is
perceived. `SleepersAreWoken` uses the refinement: that no process sleeps beside mail is a
few lines about `AtomicSyscalls`, and holds of `CoreSystem` because its steps are steps
of `AtomicSyscalls`.

`IndexCorrect`, `AllocationsCorrect` and `ExitCorrect` need `IndexInv` and the
assumption `StraysStay`: no client calls under a pid that is yet to be handed out.
The run `exit_frees_all` shows that they are false without it.

*memory_usage.* The pages of a process are a sum over the set of its regions, which the
community modules define by recursion over a set. `MemoryManager_proofs` shows that this
sum exists and is what it unfolds to, for every finite set of regions: a set on which two
solutions of the recursion differ has a smallest such subset, by the well-foundedness of
the strict subset ordering (`MinimalSubset`, `PagesUnique`, `SumExists`). It follows how
the sum changes when a region enters or leaves (`PagesAdd`, `PagesRemove`, `PagesSame`),
and from that what each memory call does to the pages of each process. `UsageBounded`:
`memory_usage` never claims more than the process has, whoever calls.
`UsageCorrect`: it is exact if there are no mappings and `StraysStay`, so that the
mappings that the run `usage_exact` shows are the cause, together with the regions that
`exit_frees_all` shows.

*Native scheduler.* `NativeInv` adds to the invariants of the run that no process
is queued twice: without it the process that runs could still be in the queue and
`StatesExact` would not be preserved. `InsertFacts` says what the insertion does to
the queue, and `PriorityOrder` follows from where `std::find_if` stops. Theorems:
`NativeInvariant`, `NativeTypeCorrect`, `PrioritiesKept`, `StatesCorrect`,
`NotificationsKept`, `StopWaitsForWork`.

*Locks.* `CoreLifecycle_proofs` proves of each of the sixteen methods that it takes its
locks in one order (`Ordered`: nothing under `_mem_lock`, no `_ipc_lock` without
`_syscall_lock`) and holds the lock of every table that it touches (`Guarded`). With
the exclusion of the `RLock`s, which is inductive with the types, both results follow for any
number of threads: in a set of threads the holder of the innermost lock that is
held waits for none of the set (`LocksNeverDeadlock`), and two threads that collide
on a table would both hold its lock (`TablesAreGuarded`).

*Lifecycle.* `LifeInv` says, for each label that the one client in a lifecycle call can
be at, what the flags, the event and the looping threads are (`Phase`); `RunningExact` is
what it says at `idle` and is not inductive without the rest. `SetUpInv` needs no
exemption for overlaps: a `start` past its initialisation, a live thread and `running`
each say that `initialized` is set, which is never unset, and a client that is to set it
has queued init. Theorems: `LifecycleTypeCorrect`, `RunningIsExact`, `CoreIsSetUp`.

*HTTP service.* `TrinityKernel_proofs` proves the four safety properties of the kernel
for any number of request threads and any documents. `TmpInv`: while
`<config>.tmp` is not shared, one thread at most uses it, it is empty until that
thread has written, and then it holds that thread's document. `KeptInv`: that
document is what the file holds. `AloneInv` says the same of a reload that is alone, whatever
earlier reloads did, and follows it to the kernel's copy. `FlagsInv`: the drain under
way will publish the flag as it is. `DownInv` is needed because a restart clears
the histories: a process that is down serves nothing and has equal flags.

`TrinityService_proofs` goes on with the Events API and the service as a whole. Every
step of a request is of one of six kinds (`Kinds`: it goes on, takes a message, closes
its subscription, writes its message, is left with an open subscription, begins), and
the invariants are shown for the kinds. `MsgInv`: a message in hand is held by the
broker, is in one hand, and is there at a stage that writes it; without the last part
`stream_close` could drop a message. `SubsInv` adds to `SubscriptionsClosed` that
subscriptions are the broker's. `ServeInv`: a thread that serves a reload or a
drain serves no request of the Events API. Theorems: `ServiceTypeCorrect`,
`SubscriptionsAreClosed`, `MessagesAreAccounted`.

*The end of the service.* Above a frame of the signal handler there are only frames of the
handler (`StackInv`). So no request is accepted after a signal until the process is gone
(`NoRequestAfterSignal`), and `serve_forever` never sees the request to end while it
runs: `ShutdownNeverReturns` says that `server.shutdown()` never returns, and that a
service with the end of `serve_forever` and of `main` added behaves as one without. This is
why `TrinityService` may leave them out, and it is the finding of the run `graceful_exit`
for any number of signals and threads.

*Native memory and dispatcher.* `NativeParts_proofs`: for any regions, capacities and width of
`size_t`, a segment that is appended begins where the used part ends, and taking the
last one out returns no more than its own space (`SoundAppend`, `SoundRemove`).
Theorems: `MemoryTypeCorrect`, `SegmentsAreDisjoint`, `BufferHasOneOwner`. In the dispatcher at most
one thread is in an `ipc_send`, and its target is alive while it is there
(`DispatcherInv`); `ExitedGetNothing` follows.

The assumptions are those that the modules name: numbers are numbers, uuids are
not segment names.

## 5. What is only model-checked

Liveness under fairness: `ReadyRuns`, `MailWakes`, `WorkIsDone`, `StopReturns`,
`StopEndsThreads`, `CallsReturn`, `RequestsEnd`. It needs ENABLED, which is out of the reach of the prover.
The findings are counterexamples of TLC; `WaitersAreLeft` and `ShutdownNeverReturns`
prove two of them in general.

## 6. Not modelled

* The command lines (`core_system.py` 1053-1136, the arguments and the logging of the
  service's `main`): they call what is modelled, in one thread.
* `test_run_simulation.py`: a sequential driver of the Python core, whose calls are
  modelled.
* Native process attributes (`src/process/ProcessInfo.hpp`): an enumeration that
  nothing uses.
* Packages that the repository imports and does not hold: the broker beyond its calls,
  authorisation, rate limits, tracing, the `/muscle/` handlers.
* Statistics, time stamps, names and payloads: no property is about them.

## 7. Plan

Done: all components that keep state, and the proofs of their safety. Worth adding
next: more of the steps that the liveness properties rest on, as safety facts (each step
of a request brings its end nearer), and an abstract specification of the native
scheduler, with a proof that the scheduler implements it.
