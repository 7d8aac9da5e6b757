----------------------------- MODULE MCService -----------------------------
(***************************************************************************)
(* An instance of the service for TLC.  A reload, a drain and the Events   *)
(* API share the threads and the main thread and no other state, so that   *)
(* each behaviour serves requests of one of these kinds only.  Signals,    *)
(* which end the accepting and nothing else, come while drains are served. *)
(* A client stops to read when the handler writes to it: before, nobody    *)
(* looks.  Messages and subscriptions are numbers, each of which can stand *)
(* for any other: they are used in order.  One finite time of a poll       *)
(* stands for all, which it does not count.                                *)
(***************************************************************************)
EXTENDS TrinityService

VARIABLE kind   \* the requests that this behaviour serves

reloadVars == <<files, config, doc, handle, edited, alone, tmp_shared, edit_raced>>
drainVars  == <<flags, value, flags_raced>>
Reads      == {"read", "read_other"}

InOrder ==
  /\ \A m, n \in Messages : m < n /\ fate'[n] # "new" => fate'[m] # "new"
  /\ \A r, s \in Subscriptions : r < s /\ s \in open_subs' \ open_subs => r \in open_subs

MCInit == Init /\ kind \in {"reload", "drain", "events"}

MCNext ==
  /\ Next
  /\ UNCHANGED kind
  /\ kind # "reload" => UNCHANGED reloadVars /\ \A t \in Workers : at'[t] \notin Reads
  /\ kind # "drain"  => UNCHANGED drainVars /\ ~Runs("_grace")'
  /\ kind # "events" => UNCHANGED eventsVars
  /\ InOrder
  /\ \A t \in Workers : (Stage(t) = "poll")' => request'[t].left # 0
  /\ \A t \in Workers : (Client(t) = "stalled")' => Client(t) = "stalled" \/ Blocked(t)'

MCSpec == MCInit /\ [][MCNext]_<<vars, kind>> /\ Fairness
=============================================================================
