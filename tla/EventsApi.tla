----------------------------- MODULE EventsApi -----------------------------
(***************************************************************************)
(* The Events API (trinity_comm_http.py): produce, ack, and the two ways   *)
(* to consume, one JSON poll and an SSE stream, each run by a thread of    *)
(* its own against the broker.  The broker is another package: it is       *)
(* modelled by the calls made here, and hands each message out once.  A    *)
(* broker call that raises before it did anything ends the request, as a   *)
(* refused authorisation and a missing field do: these are no steps.       *)
(***************************************************************************)
EXTENDS RequestThreads, Integers

CONSTANTS
  Messages,       \* the messages that producers publish
  Subscriptions,  \* the subscriptions that the broker can have open
  NoSubscription, NoMessage,   \* the None of each
  MaxTime         \* the longest finite X-Timeout, in polls of a second

ASSUME EventsAssumption ==
  MaxTime \in Nat /\ NoMessage \notin Messages /\ NoSubscription \notin Subscriptions

\* X-Timeout is read by float(), for which "inf" is a number.
Forever == MaxTime + 1

VARIABLES
  request,      \* thread -> its request of the Events API
  open_subs,    \* broker: the open subscriptions
  fate,         \* broker: message -> where it is
  orphaned,     \* history: subscriptions whose client left before the headers
  unclosed      \* history: subscriptions whose close() has raised

subsVars   == <<open_subs, orphaned, unclosed>>
brokerVars == <<fate, subsVars>>
eventsVars == <<request, brokerVars>>

\* A thread without a request.  A request has a stage (the next step of its handler),
\* its subscription, the message it has polled, what is left of X-Timeout, and a
\* client that reads, that has stopped to read so that no more fits into the
\* connection, or that has left.
NoRequest ==
  [stage |-> "idle", sub |-> NoSubscription, msg |-> NoMessage, left |-> 0, client |-> "here"]

Clients   == {"here", "stalled", "gone"}
Stage(t)  == request[t].stage
Client(t) == request[t].client
Queued    == {m \in Messages : fate[m] = "queued"}

EventsGoto(t, l) == request' = [request EXCEPT ![t].stage = l]
EndRequest(t)    == request' = [request EXCEPT ![t] = NoRequest]
Fate(m, f)       == fate' = [fate EXCEPT ![m] = f]

EventsInit ==
  /\ request = [t \in Workers |-> NoRequest]
  /\ open_subs = {} /\ orphaned = {} /\ unclosed = {}
  /\ fate = [m \in Messages |-> "new"]

-----------------------------------------------------------------------------
(***************************************************************************)
(* handle_events_POST: one call of the broker each.                        *)
(***************************************************************************)

publish(m) ==
  /\ fate[m] = "new"
  /\ Fate(m, "queued")
  /\ UNCHANGED <<request, subsVars>>

ack(m) ==
  /\ fate[m] = "sent"
  /\ Fate(m, "acked")
  /\ UNCHANGED <<request, subsVars>>

-----------------------------------------------------------------------------
(***************************************************************************)
(* handle_events_GET                                                       *)
(***************************************************************************)

subscribe(t, first, timeout) ==
  /\ Stage(t) = "idle"
  /\ \E s \in Subscriptions \ open_subs :
       /\ open_subs' = open_subs \cup {s}
       /\ request' = [request EXCEPT ![t] =
            [NoRequest EXCEPT !.stage = first, !.sub = s, !.left = timeout]]
  /\ UNCHANGED <<fate, orphaned, unclosed>>

\* poll hands out a message.
Polls(t, next) ==
  /\ \E m \in Queued :
       /\ request' = [request EXCEPT ![t] = [@ EXCEPT !.msg = m, !.stage = next]]
       /\ Fate(m, "held")
  /\ UNCHANGED subsVars

\* close() raises, or the object has none: both handlers go on, with the subscription
\* open.
Close(t) ==
  /\ \/ open_subs' = open_subs \ {request[t].sub} /\ UNCHANGED unclosed
     \/ unclosed' = unclosed \cup {request[t].sub} /\ UNCHANGED open_subs
  /\ UNCHANGED <<fate, orphaned>>

\* What becomes of the message in hand, if there is one, with its write.
Leave(t, f) == IF request[t].msg = NoMessage THEN UNCHANGED fate ELSE Fate(request[t].msg, f)

\* A write returns unless the client is connected and does not read: the connection
\* has no timeout.  It may not tell that the client has left.
WriteOut(t) ==
  /\ Client(t) # "stalled"
  /\ Leave(t, IF Client(t) = "gone" THEN "lost" ELSE "sent")

\* /events/poll: one poll, which ends with None when the time is over.
poll_message(t) == Stage(t) = "poll" /\ Polls(t, "poll_close")

poll_none(t) ==
  /\ Stage(t) = "poll" /\ request[t].left # Forever
  /\ EventsGoto(t, "poll_close")
  /\ UNCHANGED brokerVars

poll_close_forgotten(t) ==
  /\ Stage(t) = "poll_close"
  /\ EventsGoto(t, "answer")
  /\ UNCHANGED brokerVars
poll_close(t) ==
  /\ Stage(t) = "poll_close"
  /\ Close(t)
  /\ EventsGoto(t, "answer")

\* The message, or "message": None.
answer(t) ==
  /\ Stage(t) = "answer"
  /\ WriteOut(t)
  /\ EndRequest(t)
  /\ UNCHANGED subsVars

\* /events/consume: the headers are written outside the `try` whose `finally` closes
\* the subscription.
headers_sent(t) ==
  /\ Stage(t) = "headers" /\ Client(t) # "stalled"
  /\ EventsGoto(t, "loop")
  /\ UNCHANGED brokerVars

headers_fail(t) ==
  /\ Stage(t) = "headers" /\ Client(t) = "gone"
  /\ orphaned' = orphaned \cup {request[t].sub}
  /\ EndRequest(t)
  /\ UNCHANGED <<open_subs, unclosed, fate>>

InTime(t) == Stage(t) = "loop" /\ request[t].left > 0

stream_message_late(t) ==
  InTime(t) /\ Polls(t, IF request[t].left = 1 THEN "close" ELSE "write")
stream_message(t) == InTime(t) /\ Polls(t, "write")

\* poll(timeout=1.0) has waited a second for nothing.
stream_none_untimed(t) == InTime(t) /\ UNCHANGED eventsVars
stream_none(t) ==
  /\ InTime(t)
  /\ request' = [request EXCEPT ![t].left = IF @ = Forever THEN @ ELSE @ - 1]
  /\ UNCHANGED brokerVars

stream_end(t) ==
  /\ Stage(t) = "loop" /\ ~InTime(t)
  /\ EventsGoto(t, "close")
  /\ UNCHANGED brokerVars

stream_write(t) ==
  /\ Stage(t) = "write"
  /\ WriteOut(t)
  /\ request' = [request EXCEPT ![t] = [@ EXCEPT !.msg = NoMessage, !.stage = "loop"]]
  /\ UNCHANGED subsVars

stream_close(t) ==
  /\ Stage(t) = "close"
  /\ Close(t)
  /\ EndRequest(t)

\* A write, or the conversion of the message to JSON, raises: the message is lost.  The
\* stream goes on to its close; the answer of a poll is given up.
write_fails(t) ==
  /\ \/ /\ Stage(t) = "write"
        /\ request' = [request EXCEPT ![t] = [@ EXCEPT !.msg = NoMessage, !.stage = "close"]]
     \/ Stage(t) = "answer" /\ EndRequest(t)
  /\ Leave(t, "lost")
  /\ UNCHANGED subsVars

\* poll raises: both handlers go on to close the subscription.
poll_raises(t) ==
  /\ \/ Stage(t) = "poll" /\ EventsGoto(t, "poll_close")
     \/ InTime(t) /\ EventsGoto(t, "close")
  /\ UNCHANGED brokerVars

EventsStep(t) ==
  \/ poll_message(t) \/ poll_none(t) \/ poll_close(t) \/ answer(t)
  \/ headers_sent(t) \/ headers_fail(t)
  \/ stream_message(t) \/ stream_none(t) \/ stream_end(t)
  \/ stream_write(t) \/ stream_close(t)

EventsBegin(t) ==
  \E first \in {"poll", "headers"}, timeout \in 0..Forever : subscribe(t, first, timeout)

\* The client stops to read, reads again, or leaves.
client_turns(t, c) ==
  /\ Stage(t) # "idle"
  /\ <<Client(t), c>> \in {<<"here", "stalled">>, <<"stalled", "here">>,
                           <<"here", "gone">>, <<"stalled", "gone">>}
  /\ request' = [request EXCEPT ![t].client = c]
  /\ UNCHANGED brokerVars

\* What happens to a request from outside.
EventsOutside(t) ==
  poll_raises(t) \/ write_fails(t) \/ \E c \in Clients : client_turns(t, c)

\* The process is killed, and with it the broker's subscriptions.
events_crash ==
  /\ request' = [t \in Workers |-> NoRequest]
  /\ open_subs' = {} /\ orphaned' = {} /\ unclosed' = {}
  /\ fate' = [m \in Messages |-> IF fate[m] = "held" THEN "lost" ELSE fate[m]]
-----------------------------------------------------------------------------
Requests ==
  [stage  : {"idle", "poll", "poll_close", "answer", "headers", "loop", "write", "close"},
   sub    : Subscriptions \cup {NoSubscription},
   msg    : Messages \cup {NoMessage},
   left   : 0..Forever,
   client : Clients]

EventsTypeOK ==
  /\ request \in [Workers -> Requests]
  /\ open_subs \subseteq Subscriptions
  /\ orphaned \cup unclosed \subseteq open_subs
  /\ fate \in [Messages -> {"new", "queued", "held", "sent", "acked", "lost"}]

\* The threads that have a subscription to close.
Subscribed == {t \in Workers : Stage(t) \notin {"idle", "answer"}}

\* Each way out of both handlers, an answer, the end of the time, a poll or a write
\* that raises, tries once to close the subscription: each open one belongs to a
\* request that is being served, and to one only, or its close() has raised, or it is
\* that of a stream whose client was gone before the headers were written, which
\* nothing closes.
SubscriptionsClosed ==
  /\ open_subs = {request[t].sub : t \in Subscribed} \cup orphaned \cup unclosed
  /\ \A t \in Subscribed : request[t].sub \notin orphaned \cup unclosed
  /\ \A t, u \in Subscribed : request[t].sub = request[u].sub => t = u

\* A message that the broker has handed out is in the hands of one thread that will
\* still try to write it: none is dropped because the time is over or a poll or a
\* close has raised.
MessagesAccounted ==
  \A m \in Messages : fate[m] = "held" =>
    \E t \in Workers :
      /\ \A u \in Workers : request[u].msg = m <=> u = t
      /\ Stage(t) \in {"poll_close", "answer", "write"}
=============================================================================
