------------------------------ MODULE MCNative ------------------------------
(***************************************************************************)
(* The three native parts for TLC.  They share no state: each behaviour is *)
(* one of the part it has chosen, and the other parts do not move.         *)
(***************************************************************************)
EXTENDS NativeScheduler, NativeDispatcher, NativeMemory

CONSTANT MaxSegments   \* bound: the segments of a region

VARIABLE part   \* the part that this behaviour is about

Moves(p, next, others) == part = p /\ next /\ UNCHANGED <<part, others>>

MCInit ==
  /\ part \in {"scheduler", "dispatcher", "memory"}
  /\ Init /\ DispatcherInit /\ NativeMemoryInit

\* A region in which m_used + size has overflowed is not followed any further.
Bounded == wrapped = {} /\ \A r \in Regions : Len(m_segments'[r]) <= MaxSegments

MCNext ==
  \/ Moves("scheduler", Next, <<dispatcherVars, memoryVars>>)
  \/ Moves("dispatcher", DispatcherNext, <<vars, memoryVars>>)
  \/ Moves("memory", NativeMemoryNext /\ Bounded, <<vars, dispatcherVars>>)

MCSpec ==
  /\ MCInit /\ [][MCNext]_<<part, vars, dispatcherVars, memoryVars>>
  /\ part = "scheduler" => Fairness
=============================================================================
