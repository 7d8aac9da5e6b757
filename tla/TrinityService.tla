--------------------------- MODULE TrinityService ---------------------------
(***************************************************************************)
(* The HTTP service (trinity_service_main.py): main, the signal handler    *)
(* that runs on top of it, and a request thread per request, which runs a  *)
(* reload, a drain or a request of the Events API.                         *)
(***************************************************************************)
EXTENDS TrinityKernel, EventsApi, SequencesExt

CONSTANT MaxSignals   \* the signals that one process gets

ASSUME SignalAssumption == MaxSignals \in Nat

VARIABLE stack   \* the frames of the main thread, none when the process is down

vars == <<kernelVars, eventsVars, stack>>

Up         == stack # <<>>
Runs(name) == Up /\ Last(stack) = name
Signals    == Len(SelectSeq(stack, LAMBDA f : f \in {"_grace", "shutdown"}))

\* A thread that no request has.
Free_of_reload(t) == at[t] = "idle"
Free(t) == at[t] = "idle" /\ Stage(t) = "idle"

Init == KernelInit /\ EventsInit /\ stack = <<"main">>

-----------------------------------------------------------------------------
(***************************************************************************)
(* The main thread.  server.shutdown() waits for serve_forever to return;  *)
(* how it can, and what main does then, is in ServiceShutdown.tla: it      *)
(* never comes to it.                                                      *)
(***************************************************************************)

serve_forever ==
  /\ Runs("main")
  /\ stack' = Append(stack, "serve_forever")
  /\ UNCHANGED <<kernelVars, eventsVars>>

\* SIGINT or SIGTERM: Python runs the handler in the main thread, on top of what
\* the thread is in.
signal ==
  /\ Up /\ Signals < MaxSignals
  /\ stack' = Append(stack, "_grace")
  /\ UNCHANGED <<kernelVars, eventsVars>>

\* The handler calls server.shutdown().
_grace ==
  /\ Runs("_grace")
  /\ stack' = Append(Front(stack), "shutdown")
  /\ UNCHANGED <<kernelVars, eventsVars>>

\* The process is gone, and with it its request threads, which are daemons.
Ends == stack' = <<>> /\ kernel_crash /\ events_crash

crash == Up /\ Ends

restart ==
  /\ ~Up
  /\ kernel_start
  /\ stack' = <<"main">>
  /\ UNCHANGED eventsVars

Main == serve_forever \/ _grace
-----------------------------------------------------------------------------
(***************************************************************************)
(* The requests.                                                           *)
(***************************************************************************)

\* The server gives a new request a thread.
accept(t) ==
  /\ Runs("serve_forever") /\ Free(t)
  /\ \/ KernelBegin(t) /\ UNCHANGED <<eventsVars, stack>>
     \/ EventsBegin(t) /\ UNCHANGED <<kernelVars, stack>>
     \/ (\E m \in Messages : publish(m) \/ ack(m)) /\ UNCHANGED <<kernelVars, stack>>

work(t) ==
  \/ KernelStep(t) /\ UNCHANGED <<eventsVars, stack>>
  \/ EventsStep(t) /\ UNCHANGED <<kernelVars, stack>>

Environment ==
  \/ (\E content \in Whole : edit(content)) /\ UNCHANGED <<eventsVars, stack>>
  \/ (\E t \in Workers : EventsOutside(t)) /\ UNCHANGED <<kernelVars, stack>>
  \/ signal \/ crash \/ restart

Next ==
  \/ Main
  \/ \E t \in Workers : accept(t) \/ work(t)
  \/ Environment

Spec == Init /\ [][Next]_vars

\* The threads of the process run.  No fairness for what arrives from outside.
Fairness == WF_vars(Main) /\ \A t \in Workers : WF_vars(work(t))

FairSpec == Spec /\ Fairness
-----------------------------------------------------------------------------
\* Type correctness of the service.
TypeOK ==
  /\ KernelTypeOK /\ EventsTypeOK
  /\ \A f \in Range(stack) : f \in {"main", "serve_forever", "_grace", "shutdown"}
  /\ \A t \in Workers : at[t] = "idle" \/ Stage(t) = "idle"
  /\ ~Up => \A t \in Workers : Free(t)

\* The thread waits in a write to a client that is connected and does not read.
Blocked(t) == Stage(t) \in {"headers", "answer", "write"} /\ Client(t) = "stalled"

\* Every request ends, whatever the other threads do and however its polls, writes and
\* close() fail, unless it comes to wait for a client that stops to read -- the
\* connection has no timeout -- or its client asked for an infinite time: then a
\* stream or a poll that no message reaches goes on for ever, also after the client
\* has left.
RequestsEnd ==
  \A t \in Workers :
    (~Free(t) /\ (Stage(t) # "idle" => request[t].left # Forever)) ~> (Free(t) \/ Blocked(t))
=============================================================================
