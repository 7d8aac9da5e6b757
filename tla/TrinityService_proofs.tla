------------------------ MODULE TrinityService_proofs ------------------------
(***************************************************************************)
(* Proofs about the Events API and about the whole HTTP service, for any   *)
(* number of request threads, messages, subscriptions and times: every     *)
(* subscription and every polled message has one request that sees to it.  *)
(***************************************************************************)
EXTENDS TrinityKernel_proofs, ServiceShutdown

-----------------------------------------------------------------------------
(***************************************************************************)
(* What a step of the service does to the Events API.                      *)
(***************************************************************************)

EventsTransition ==
  \/ \E t \in Workers : EventsStep(t) \/ EventsBegin(t) \/ EventsOutside(t)
  \/ \E m \in Messages : publish(m) \/ ack(m)
  \/ events_crash
  \/ UNCHANGED eventsVars

\* The steps that are not the Events API's leave its variables alone.
LEMMA EventsTransitions ==
  ASSUME [Next]_vars
  PROVE  EventsTransition
<1>1. ASSUME UNCHANGED vars
      PROVE  EventsTransition
  BY <1>1 DEF vars, EventsTransition
<1>2. ASSUME Main
      PROVE  EventsTransition
  BY <1>2 DEF Main, serve_forever, _grace, EventsTransition
<1>3. ASSUME NEW t \in Workers, accept(t) \/ work(t)
      PROVE  EventsTransition
  BY <1>3 DEF accept, work, EventsTransition
<1>4. ASSUME Environment
      PROVE  EventsTransition
  BY <1>4 DEF Environment, signal, crash, Ends, restart, EventsTransition
<1> QED BY <1>1, <1>2, <1>3, <1>4 DEF Next

-----------------------------------------------------------------------------
(***************************************************************************)
(* Type correctness.                                                       *)
(***************************************************************************)

Stages == {"idle", "poll", "poll_close", "answer", "headers", "loop", "write", "close"}
Fates  == {"new", "queued", "held", "sent", "acked", "lost"}

\* Requests are requests, and messages are somewhere.
RequestsInv == request \in [Workers -> Requests] /\ fate \in [Messages -> Fates]

\* What the handlers make of a request is a request.
LEMMA RequestFields ==
  ASSUME NEW r \in Requests
  PROVE  /\ r.stage \in Stages /\ r.sub \in Subscriptions \cup {NoSubscription}
         /\ r.msg \in Messages \cup {NoMessage} /\ r.left \in 0..Forever /\ r.client \in Clients
         /\ \A l \in Stages : [r EXCEPT !.stage = l] \in Requests
         /\ \A l \in Stages, m \in Messages \cup {NoMessage} :
              [r EXCEPT !.msg = m, !.stage = l] \in Requests
         /\ \A n \in 0..Forever : [r EXCEPT !.left = n] \in Requests
         /\ \A c \in Clients : [r EXCEPT !.client = c] \in Requests
BY DEF Requests, Stages

\* A thread without a request, and a request that begins.
LEMMA NewRequests ==
  /\ NoRequest \in Requests
  /\ \A l \in Stages, s \in Subscriptions, n \in 0..Forever :
       [NoRequest EXCEPT !.stage = l, !.sub = s, !.left = n] \in Requests
<1>1. 0 \in 0..Forever
  BY EventsAssumption DEF Forever
<1> QED BY <1>1 DEF NoRequest, Requests, Stages, Clients

\* The request of one thread changes.
Only(t, r) == request' = [request EXCEPT ![t] = r]

\* Each step replaces the request of its thread by another.
LEMMA RequestStep ==
  ASSUME RequestsInv, NEW t \in Workers,
         EventsStep(t) \/ EventsBegin(t) \/ EventsOutside(t)
  PROVE  \E r \in Requests : Only(t, r)
<1>0. request[t] \in Requests
  BY DEF RequestsInv
<1> USE DEF Only, EventsGoto, EndRequest, Stages
<1>1. ASSUME poll_message(t)
      PROVE  \E r \in Requests : Only(t, r)
  BY <1>0, <1>1, RequestFields, NewRequests DEF poll_message, Polls, Queued
<1>2. ASSUME poll_none(t)
      PROVE  \E r \in Requests : Only(t, r)
  BY <1>0, <1>2, RequestFields, NewRequests DEF poll_none
<1>3. ASSUME poll_close(t)
      PROVE  \E r \in Requests : Only(t, r)
  BY <1>0, <1>3, RequestFields, NewRequests DEF poll_close, Close
<1>4. ASSUME answer(t)
      PROVE  \E r \in Requests : Only(t, r)
  BY <1>0, <1>4, RequestFields, NewRequests DEF answer, WriteOut
<1>5. ASSUME headers_sent(t)
      PROVE  \E r \in Requests : Only(t, r)
  BY <1>0, <1>5, RequestFields, NewRequests DEF headers_sent
<1>6. ASSUME headers_fail(t)
      PROVE  \E r \in Requests : Only(t, r)
  BY <1>0, <1>6, RequestFields, NewRequests DEF headers_fail
<1>7. ASSUME stream_message(t)
      PROVE  \E r \in Requests : Only(t, r)
  BY <1>0, <1>7, RequestFields, NewRequests DEF stream_message, Polls, InTime, Queued
<1>8. ASSUME stream_none(t)
      PROVE  \E r \in Requests : Only(t, r)
  <2>1. PICK n : n \in 0..Forever /\ Only(t, [request[t] EXCEPT !.left = n])
    <3>1. request[t].left \in 0..Forever /\ request[t].left > 0 /\ Forever \in Nat
      <4>1. request[t].left \in 0..Forever
        BY <1>0, RequestFields
      <4>2. request[t].left > 0
        BY <1>8 DEF stream_none, InTime
      <4>3. Forever \in Nat
        BY EventsAssumption DEF Forever
      <4> QED BY <4>1, <4>2, <4>3
    <3>2. CASE request[t].left = Forever
      BY <1>8, <3>1, <3>2 DEF stream_none
    <3>3. CASE request[t].left # Forever
      <4>1. request[t].left - 1 \in 0..Forever
        BY <3>1
      <4> QED BY <1>8, <3>3, <4>1 DEF stream_none
    <3> QED BY <3>2, <3>3
  <2> QED BY <1>0, <2>1, RequestFields
<1>9. ASSUME stream_end(t)
      PROVE  \E r \in Requests : Only(t, r)
  BY <1>0, <1>9, RequestFields, NewRequests DEF stream_end, InTime
<1>10. ASSUME stream_write(t)
      PROVE  \E r \in Requests : Only(t, r)
  BY <1>0, <1>10, RequestFields, NewRequests DEF stream_write, WriteOut
<1>11. ASSUME stream_close(t)
      PROVE  \E r \in Requests : Only(t, r)
  BY <1>0, <1>11, RequestFields, NewRequests DEF stream_close, Close
<1>12. ASSUME NEW c \in Clients, client_turns(t, c)
      PROVE  \E r \in Requests : Only(t, r)
  BY <1>0, <1>12, RequestFields DEF client_turns
<1>13. ASSUME poll_raises(t)
      PROVE  \E r \in Requests : Only(t, r)
  BY <1>0, <1>13, RequestFields, NewRequests DEF poll_raises, InTime
<1>14. ASSUME EventsBegin(t)
      PROVE  \E r \in Requests : Only(t, r)
  BY <1>14, NewRequests DEF EventsBegin, subscribe
<1>15. ASSUME write_fails(t)
      PROVE  \E r \in Requests : Only(t, r)
  BY <1>0, <1>15, RequestFields, NewRequests DEF write_fails
<1> HIDE DEF Only
<1> QED
  BY <1>1, <1>2, <1>3, <1>4, <1>5, <1>6, <1>7, <1>8, <1>9, <1>10, <1>11, <1>12, <1>13, <1>14, <1>15
     DEF EventsStep, EventsOutside

\* Requests stay requests, and messages stay somewhere.
LEMMA RequestsNext == RequestsInv /\ EventsTransition => RequestsInv'
<1> SUFFICES ASSUME RequestsInv, EventsTransition
             PROVE  RequestsInv'
  OBVIOUS
<1>1. ASSUME NEW t \in Workers,
             EventsStep(t) \/ EventsBegin(t) \/ EventsOutside(t)
      PROVE  RequestsInv'
  <2>1. request' \in [Workers -> Requests]
    <3>1. PICK r \in Requests : Only(t, r)
      BY <1>1, RequestStep
    <3> QED BY <3>1 DEF Only, RequestsInv
  <2>2. fate' = fate \/ \E m, f : f \in Fates /\ fate' = [fate EXCEPT ![m] = f]
    BY <1>1 DEF EventsStep, EventsBegin, EventsOutside, subscribe, client_turns, poll_raises,
        write_fails, Polls, WriteOut, Leave, Close, Fate, Fates, brokerVars, poll_message,
        poll_none, poll_close, answer, headers_sent, headers_fail, stream_message, stream_none,
        stream_end, stream_write, stream_close
  <2> QED BY <2>1, <2>2 DEF RequestsInv
<1>2. ASSUME NEW m \in Messages, publish(m) \/ ack(m)
      PROVE  RequestsInv'
  BY <1>2 DEF publish, ack, Fate, Fates, RequestsInv
<1>3. ASSUME events_crash
      PROVE  RequestsInv'
  BY <1>3, NewRequests DEF events_crash, Fates, RequestsInv
<1>4. ASSUME UNCHANGED eventsVars
      PROVE  RequestsInv'
  BY <1>4 DEF eventsVars, brokerVars, RequestsInv
<1> QED BY <1>1, <1>2, <1>3, <1>4 DEF EventsTransition

-----------------------------------------------------------------------------
(***************************************************************************)
(* Six kinds of steps: a request goes on; takes a message from the broker; *)
(* closes its subscription; writes its message out; is left with an open   *)
(* subscription; begins.                                                   *)
(***************************************************************************)

Holding == {"poll_close", "answer", "write"}

\* A message in hand is held, by one request, which is at a stage that writes it
\* out; and a message that is held is in hand.
MsgInv ==
  /\ \A t \in Workers : request[t].msg # NoMessage =>
       fate[request[t].msg] = "held" /\ Stage(t) \in Holding
  /\ \A t, u \in Workers :
       request[t].msg = request[u].msg /\ request[t].msg # NoMessage => t = u
  /\ \A m \in Messages : fate[m] = "held" => \E t \in Workers : request[t].msg = m

GoesOn(t, r) ==
  /\ Only(t, r) /\ r.sub = request[t].sub /\ r.msg = request[t].msg
  /\ Stage(t) # "idle"
  /\ \/ r.stage = Stage(t)
     \/ Stage(t) \in {"poll", "headers", "loop"} /\ r.stage \in {"poll_close", "loop", "close"}
  /\ UNCHANGED brokerVars

Takes(t, r, m) ==
  /\ Only(t, r) /\ r.sub = request[t].sub /\ r.msg = m
  /\ Stage(t) \in {"poll", "loop"} /\ r.stage \in {"poll_close", "write"}
  /\ fate[m] = "queued" /\ fate' = [fate EXCEPT ![m] = "held"]
  /\ UNCHANGED subsVars

Closes(t, r) ==
  /\ Only(t, r) /\ r.msg = request[t].msg
  /\ \/ Stage(t) = "poll_close" /\ r.stage = "answer"
     \/ Stage(t) = "close" /\ r.stage = "idle"
  /\ Close(t)

Writes(t, r, f) ==
  /\ Only(t, r) /\ r.msg = NoMessage
  /\ \/ Stage(t) = "answer" /\ r.stage = "idle"
     \/ Stage(t) = "write" /\ r.stage \in {"loop", "close"} /\ r.sub = request[t].sub
  /\ f \in {"lost", "sent"} /\ Leave(t, f)
  /\ UNCHANGED subsVars

Orphans(t, r) ==
  /\ Only(t, r) /\ r = NoRequest /\ Stage(t) = "headers"
  /\ orphaned' = orphaned \cup {request[t].sub}
  /\ UNCHANGED <<open_subs, unclosed, fate>>

Begins(t, r) ==
  /\ Only(t, r) /\ Stage(t) = "idle" /\ r.stage \in {"poll", "headers"} /\ r.msg = NoMessage
  /\ r.sub \in Subscriptions \ open_subs /\ open_subs' = open_subs \cup {r.sub}
  /\ UNCHANGED <<fate, orphaned, unclosed>>

Kinds(t) ==
  \E r \in Requests :
    \/ GoesOn(t, r) \/ Closes(t, r) \/ Orphans(t, r) \/ Begins(t, r)
    \/ \E m \in Messages : Takes(t, r, m)
    \/ \E f \in {"lost", "sent"} : Writes(t, r, f)

\* A step of one of these kinds is one.
LEMMA KindOf ==
  ASSUME NEW t \in Workers, NEW r \in Requests
  PROVE  /\ GoesOn(t, r) \/ Closes(t, r) \/ Orphans(t, r) \/ Begins(t, r) => Kinds(t)
         /\ \A m \in Messages : Takes(t, r, m) => Kinds(t)
         /\ \A f \in {"lost", "sent"} : Writes(t, r, f) => Kinds(t)
BY Zenon DEF Kinds

\* Every step of a request is of one of these kinds.
LEMMA StepKinds ==
  ASSUME RequestsInv, MsgInv, NEW t \in Workers,
         EventsStep(t) \/ EventsBegin(t) \/ EventsOutside(t)
  PROVE  Kinds(t)
<1>0. request[t] \in Requests
  BY DEF RequestsInv
<1> DEFINE old == request[t]
<1>1. /\ \A l \in Stages : /\ [old EXCEPT !.stage = l] \in Requests
                           /\ [old EXCEPT !.stage = l].stage = l
                           /\ [old EXCEPT !.stage = l].sub = old.sub
                           /\ [old EXCEPT !.stage = l].msg = old.msg
      /\ \A n \in 0..Forever : /\ [old EXCEPT !.left = n] \in Requests
                               /\ [old EXCEPT !.left = n].stage = old.stage
                               /\ [old EXCEPT !.left = n].sub = old.sub
                               /\ [old EXCEPT !.left = n].msg = old.msg
      /\ \A c \in Clients : /\ [old EXCEPT !.client = c] \in Requests
                            /\ [old EXCEPT !.client = c].stage = old.stage
                            /\ [old EXCEPT !.client = c].sub = old.sub
                            /\ [old EXCEPT !.client = c].msg = old.msg
  BY <1>0 DEF Requests, Stages
<1>2. NoRequest \in Requests /\ NoRequest.stage = "idle" /\ NoRequest.msg = NoMessage
  BY NewRequests DEF NoRequest
<1> USE DEF Stage, brokerVars
<1>3. ASSUME poll_message(t)
      PROVE  Kinds(t)
  <2>1. PICK m \in Messages :
          /\ Only(t, [old EXCEPT !.msg = m, !.stage = "poll_close"])
          /\ fate[m] = "queued" /\ fate' = [fate EXCEPT ![m] = "held"]
    BY <1>3 DEF poll_message, Polls, Queued, Fate, Only
  <2> DEFINE r == [old EXCEPT !.msg = m, !.stage = "poll_close"]
  <2> HIDE DEF r
  <2>2. r \in Requests /\ r.stage = "poll_close" /\ r.sub = old.sub /\ r.msg = m
    <3>1. "poll_close" \in Stages /\ m \in Messages \cup {NoMessage}
      BY <2>1 DEF Stages
    <3>2. r = [old EXCEPT !.msg = m, !.stage = "poll_close"]
      BY DEF r
    <3> QED BY <1>0, <3>1, <3>2 DEF Requests, Stages
  <2>3. old.stage \in {"poll", "loop"} /\ UNCHANGED subsVars
    BY <1>3 DEF poll_message, Polls
  <2>4. Takes(t, r, m)
    BY <2>1, <2>2, <2>3 DEF Takes, r
  <2> QED BY <2>1, <2>2, <2>4, KindOf
<1>4. ASSUME poll_none(t)
      PROVE  Kinds(t)
  <2>1. GoesOn(t, [old EXCEPT !.stage = "poll_close"])
    BY <1>1, <1>2, <1>4 DEF poll_none, GoesOn, Only, EventsGoto, EndRequest, Stages
  <2> QED BY <1>1, <1>2, <2>1, KindOf DEF Stages
<1>5. ASSUME poll_close(t)
      PROVE  Kinds(t)
  <2>1. Closes(t, [old EXCEPT !.stage = "answer"])
    BY <1>1, <1>5 DEF poll_close, Closes, Only, EventsGoto, Stages
  <2> QED BY <1>1, <2>1, KindOf DEF Stages
<1>6. ASSUME answer(t)
      PROVE  Kinds(t)
  <2>1. PICK f \in {"lost", "sent"} : Writes(t, NoRequest, f)
    BY <1>2, <1>6 DEF answer, WriteOut, Writes, Only, EndRequest
  <2> QED BY <1>2, <2>1, KindOf
<1>7. ASSUME headers_sent(t)
      PROVE  Kinds(t)
  <2>1. GoesOn(t, [old EXCEPT !.stage = "loop"])
    BY <1>1, <1>2, <1>7 DEF headers_sent, GoesOn, Only, EventsGoto, EndRequest, Stages
  <2> QED BY <1>1, <1>2, <2>1, KindOf DEF Stages
<1>8. ASSUME headers_fail(t)
      PROVE  Kinds(t)
  <2>1. Orphans(t, NoRequest)
    BY <1>1, <1>2, <1>8 DEF headers_fail, Orphans, Only, EventsGoto, EndRequest, Stages
  <2> QED BY <1>1, <1>2, <2>1, KindOf DEF Stages
<1>9. ASSUME stream_message(t)
      PROVE  Kinds(t)
  <2>1. PICK m \in Messages :
          /\ Only(t, [old EXCEPT !.msg = m, !.stage = "write"])
          /\ fate[m] = "queued" /\ fate' = [fate EXCEPT ![m] = "held"]
    BY <1>9 DEF stream_message, InTime, Polls, Queued, Fate, Only
  <2> DEFINE r == [old EXCEPT !.msg = m, !.stage = "write"]
  <2> HIDE DEF r
  <2>2. r \in Requests /\ r.stage = "write" /\ r.sub = old.sub /\ r.msg = m
    <3>1. "write" \in Stages /\ m \in Messages \cup {NoMessage}
      BY <2>1 DEF Stages
    <3>2. r = [old EXCEPT !.msg = m, !.stage = "write"]
      BY DEF r
    <3> QED BY <1>0, <3>1, <3>2 DEF Requests, Stages
  <2>3. old.stage \in {"poll", "loop"} /\ UNCHANGED subsVars
    BY <1>9 DEF stream_message, InTime, Polls
  <2>4. Takes(t, r, m)
    BY <2>1, <2>2, <2>3 DEF Takes, r
  <2> QED BY <2>1, <2>2, <2>4, KindOf
<1>10. ASSUME stream_none(t)
      PROVE  Kinds(t)
  <2>1. PICK r \in Requests : Only(t, r)
    BY <1>10, RequestStep DEF EventsStep
  <2>2. request'[t] = r /\ UNCHANGED brokerVars /\ old.stage = "loop"
    BY <1>10, <2>1 DEF Only, RequestsInv, stream_none, InTime
  <2>3. r.stage = old.stage /\ r.sub = old.sub /\ r.msg = old.msg
    BY <1>0, <1>10, <2>2 DEF stream_none, RequestsInv, Requests
  <2>4. GoesOn(t, r)
    BY <2>1, <2>2, <2>3 DEF GoesOn
  <2> QED BY <2>4, KindOf
<1>11. ASSUME stream_end(t)
      PROVE  Kinds(t)
  <2>1. GoesOn(t, [old EXCEPT !.stage = "close"])
    BY <1>1, <1>2, <1>11 DEF stream_end, GoesOn, Only, EventsGoto, EndRequest, Stages
  <2> QED BY <1>1, <1>2, <2>1, KindOf DEF Stages
<1> DEFINE After(l) == [old EXCEPT !.msg = NoMessage, !.stage = l]
<1>17. ASSUME NEW l \in {"loop", "close"}, NEW f \in {"lost", "sent"},
              Only(t, After(l)), old.stage = "write", Leave(t, f), UNCHANGED subsVars
       PROVE  Kinds(t)
  <2>1. l \in Stages
    BY DEF Stages
  <2>2. /\ After(l) \in Requests /\ After(l).stage = l
        /\ After(l).sub = old.sub /\ After(l).msg = NoMessage
    BY <1>0, <2>1 DEF Requests, Stages
  <2>3. Writes(t, After(l), f)
    BY <1>17, <2>2 DEF Writes
  <2> QED BY <2>2, <2>3, KindOf
<1>12. ASSUME stream_write(t)
      PROVE  Kinds(t)
  BY <1>12, <1>17 DEF stream_write, WriteOut, Only
<1>18. ASSUME write_fails(t)
       PROVE  Kinds(t)
  <2>1. CASE old.stage = "write"
    BY <1>17, <1>18, <2>1 DEF write_fails, Only
  <2>2. CASE old.stage = "answer"
    <3>1. Writes(t, NoRequest, "lost")
      BY <1>2, <1>18, <2>2 DEF write_fails, Writes, Only, EndRequest
    <3> QED BY <1>2, <3>1, KindOf
  <2> QED BY <1>18, <2>1, <2>2 DEF write_fails
<1>13. ASSUME stream_close(t)
      PROVE  Kinds(t)
  <2>1. old.msg = NoMessage
    BY <1>13 DEF MsgInv, Holding, stream_close
  <2>2. Closes(t, NoRequest)
    BY <1>2, <1>13, <2>1 DEF stream_close, Closes, Only, EndRequest
  <2> QED BY <1>2, <2>2, KindOf
<1>14. ASSUME NEW c \in Clients, client_turns(t, c)
      PROVE  Kinds(t)
  <2>1. GoesOn(t, [old EXCEPT !.client = c])
    BY <1>1, <1>14 DEF client_turns, GoesOn, Only
  <2> QED BY <1>1, <2>1, KindOf
<1>15. ASSUME poll_raises(t)
      PROVE  Kinds(t)
  <2>1. PICK l \in {"poll_close", "close"} : GoesOn(t, [old EXCEPT !.stage = l])
    BY <1>1, <1>15 DEF poll_raises, InTime, GoesOn, Only, EventsGoto, Stages
  <2> QED BY <1>1, <2>1, KindOf DEF Stages
<1>16. ASSUME EventsBegin(t)
      PROVE  Kinds(t)
  <2>1. PICK l \in {"poll", "headers"}, n \in 0..Forever : subscribe(t, l, n)
    BY <1>16 DEF EventsBegin
  <2>2. PICK s \in Subscriptions \ open_subs :
          /\ open_subs' = open_subs \cup {s}
          /\ Only(t, [NoRequest EXCEPT !.stage = l, !.sub = s, !.left = n])
    BY <2>1 DEF subscribe, Only
  <2> DEFINE r == [NoRequest EXCEPT !.stage = l, !.sub = s, !.left = n]
  <2>3. r \in Requests /\ r.stage = l /\ r.sub = s /\ r.msg = NoMessage
    BY NewRequests DEF NoRequest, Stages
  <2>4. Begins(t, r)
    BY <2>1, <2>2, <2>3 DEF subscribe, Begins
  <2> QED BY <2>3, <2>4, KindOf
<1> HIDE DEF Stage, brokerVars
<1> QED
  BY <1>3, <1>4, <1>5, <1>6, <1>7, <1>8, <1>9, <1>10, <1>11, <1>12, <1>13, <1>14, <1>15,
     <1>16, <1>18 DEF EventsStep, EventsOutside

-----------------------------------------------------------------------------
(***************************************************************************)
(* The messages.                                                           *)
(***************************************************************************)

\* A message goes from the broker to one thread and from there to the client.
LEMMA MsgNext == RequestsInv /\ RequestsInv' /\ MsgInv /\ EventsTransition => MsgInv'
<1> SUFFICES ASSUME RequestsInv, RequestsInv', MsgInv, EventsTransition
             PROVE  MsgInv'
  OBVIOUS
<1>0. NoMessage \notin Messages
  BY EventsAssumption
<1> DEFINE Same(t) == \A u \in Workers \ {t} : request'[u] = request[u]
<1>1. ASSUME NEW t \in Workers, NEW r \in Requests, Only(t, r)
      PROVE  request'[t] = r /\ Same(t) /\ request[t] \in Requests
  BY <1>1 DEF Only, RequestsInv
<1> USE DEF MsgInv, Holding, Stage
<1> DEFINE Typed == \A u \in Workers : request[u].msg \in Messages \cup {NoMessage}
<1>2. Typed /\ DOMAIN fate = Messages
  BY RequestFields DEF RequestsInv
<1>3. ASSUME NEW t \in Workers, NEW r \in Requests, GoesOn(t, r)
      PROVE  MsgInv'
  BY <1>1, <1>3 DEF GoesOn, brokerVars
<1>4. ASSUME NEW t \in Workers, NEW r \in Requests, Closes(t, r)
      PROVE  MsgInv'
  BY <1>1, <1>4 DEF Closes, Close
<1>5. ASSUME NEW t \in Workers, NEW r \in Requests, Orphans(t, r) \/ Begins(t, r)
      PROVE  MsgInv'
  BY <1>1, <1>5 DEF Orphans, Begins, NoRequest
<1>6. ASSUME NEW t \in Workers, NEW r \in Requests, NEW m \in Messages, Takes(t, r, m)
      PROVE  MsgInv'
  <2>1. \A u \in Workers : request[u].msg # m
    BY <1>0, <1>6 DEF Takes
  <2>2. request'[t] = r /\ Same(t)
    BY <1>1, <1>6 DEF Takes
  <2>3. fate'[m] = "held" /\ \A k \in Messages \ {m} : fate'[k] = fate[k]
    BY <1>2, <1>6 DEF Takes
  <2> QED BY <1>0, <1>2, <1>6, <2>1, <2>2, <2>3 DEF Takes
<1>7. ASSUME NEW t \in Workers, NEW r \in Requests, NEW f \in {"lost", "sent"}, Writes(t, r, f)
      PROVE  MsgInv'
  <2>1. request'[t] = r /\ Same(t) /\ r.msg = NoMessage /\ r.stage # "write"
    BY <1>1, <1>7 DEF Writes
  <2>2. CASE request[t].msg = NoMessage
    BY <1>0, <1>7, <2>1, <2>2 DEF Writes, Leave
  <2>3. CASE request[t].msg # NoMessage
    <3>1. /\ request[t].msg \in Messages /\ fate'[request[t].msg] = f
          /\ \A k \in Messages \ {request[t].msg} : fate'[k] = fate[k]
      BY <1>2, <1>7, <2>3 DEF Writes, Leave, Fate
    <3> QED BY <1>0, <1>2, <1>7, <2>1, <2>3, <3>1 DEF Writes
  <2> QED BY <2>2, <2>3
<1>8. ASSUME NEW m \in Messages, publish(m) \/ ack(m)
      PROVE  MsgInv'
  BY <1>0, <1>2, <1>8 DEF publish, ack, Fate
<1>9. ASSUME events_crash
      PROVE  MsgInv'
  BY <1>2, <1>9 DEF events_crash, NoRequest
<1>10. ASSUME UNCHANGED eventsVars
      PROVE  MsgInv'
  BY <1>10 DEF eventsVars, brokerVars
<1> HIDE DEF MsgInv
<1>11. ASSUME NEW t \in Workers,
              EventsStep(t) \/ EventsBegin(t) \/ EventsOutside(t)
       PROVE  MsgInv'
  <2>1. Kinds(t)
    BY <1>11, StepKinds
  <2> QED BY <2>1, <1>3, <1>4, <1>5, <1>6, <1>7 DEF Kinds
<1> QED BY <1>8, <1>9, <1>10, <1>11 DEF EventsTransition

-----------------------------------------------------------------------------
(***************************************************************************)
(* The subscriptions.                                                      *)
(***************************************************************************)

\* Subscriptions are the broker's.
SubsInv ==
  /\ SubscriptionsClosed
  /\ open_subs \subseteq Subscriptions

\* A subscription has one request from its start to its close.
LEMMA SubsNext == RequestsInv /\ MsgInv /\ SubsInv /\ EventsTransition => SubsInv'
<1> SUFFICES ASSUME RequestsInv, MsgInv, SubsInv, EventsTransition
             PROVE  SubsInv'
  OBVIOUS
<1> DEFINE Same(t) == \A u \in Workers \ {t} : request'[u] = request[u]
<1>1. ASSUME NEW t \in Workers, NEW r \in Requests, Only(t, r)
      PROVE  request'[t] = r /\ Same(t)
  BY <1>1 DEF Only, RequestsInv
<1> USE DEF SubsInv, SubscriptionsClosed, Subscribed, Stage, subsVars
<1>3. ASSUME NEW t \in Workers, NEW r \in Requests, GoesOn(t, r)
      PROVE  SubsInv'
  BY <1>1, <1>3 DEF GoesOn, brokerVars
<1>4. ASSUME NEW t \in Workers, NEW r \in Requests, Closes(t, r)
      PROVE  SubsInv'
  BY <1>1, <1>4 DEF Closes, Close
<1>5. ASSUME NEW t \in Workers, NEW r \in Requests, Orphans(t, r)
      PROVE  SubsInv'
  BY <1>1, <1>5 DEF Orphans, NoRequest
<1>6. ASSUME NEW t \in Workers, NEW r \in Requests, Begins(t, r)
      PROVE  SubsInv'
  BY <1>1, <1>6 DEF Begins
<1>7. ASSUME NEW t \in Workers, NEW r \in Requests, NEW m \in Messages, Takes(t, r, m)
      PROVE  SubsInv'
  BY <1>1, <1>7 DEF Takes
<1>8. ASSUME NEW t \in Workers, NEW r \in Requests, NEW f \in {"lost", "sent"}, Writes(t, r, f)
      PROVE  SubsInv'
  BY <1>1, <1>8 DEF Writes
<1>9. ASSUME NEW m \in Messages, publish(m) \/ ack(m)
      PROVE  SubsInv'
  BY <1>9 DEF publish, ack
<1>10. ASSUME events_crash
      PROVE  SubsInv'
  BY <1>10 DEF events_crash, NoRequest
<1>11. ASSUME UNCHANGED eventsVars
      PROVE  SubsInv'
  BY <1>11 DEF eventsVars, brokerVars
<1> HIDE DEF SubsInv
<1>12. ASSUME NEW t \in Workers,
              EventsStep(t) \/ EventsBegin(t) \/ EventsOutside(t)
       PROVE  SubsInv'
  <2>1. Kinds(t)
    BY <1>12, StepKinds
  <2> QED BY <2>1, <1>3, <1>4, <1>5, <1>6, <1>7, <1>8 DEF Kinds
<1> QED BY <1>9, <1>10, <1>11, <1>12 DEF EventsTransition

-----------------------------------------------------------------------------
(***************************************************************************)
(* A thread serves one request at a time, and none when the process is     *)
(* down.                                                                   *)
(***************************************************************************)

\* At most one request for each thread.
ServeInv ==
  /\ \A t \in Workers : at[t] = "idle" \/ Stage(t) = "idle"
  /\ ~Up => \A t \in Workers : Stage(t) = "idle"

\* A step of a reload or a drain is one of its thread only.
LEMMA KernelStepsOne ==
  ASSUME NEW t \in Workers, KernelStep(t) \/ KernelBegin(t)
  PROVE  \E l : KernelGoto(t, l)
<1>1. CASE KernelStep(t)
  BY <1>1 DEF KernelStep, reload_read, reload_elsewhere, reload_open, reload_write,
              reload_write_fails, reload_replace, reload_install, reload_finish,
              drain_read, drain_publish
<1>2. CASE KernelBegin(t)
  BY <1>2 DEF KernelBegin, reload, reload_other, drain
<1> QED BY <1>1, <1>2

\* A thread goes on with the request that it has.
LEMMA ServingSteps ==
  ASSUME NEW t \in Workers
  PROVE  /\ KernelStep(t) => at[t] # "idle"
         /\ EventsStep(t) \/ EventsOutside(t) => Stage(t) # "idle"
<1>1. ASSUME KernelStep(t)
      PROVE  at[t] # "idle"
  BY <1>1 DEF KernelStep, reload_read, reload_elsewhere, reload_open, reload_write,
              reload_write_fails, reload_replace, reload_install, reload_finish,
              drain_read, drain_publish
<1>2. ASSUME EventsStep(t) \/ EventsOutside(t)
      PROVE  Stage(t) # "idle"
  BY <1>2 DEF EventsStep, EventsOutside, client_turns, poll_raises, write_fails, InTime,
              poll_message, poll_none,
              poll_close, answer, headers_sent, headers_fail, stream_message, stream_none,
              stream_end, stream_write, stream_close
<1> QED BY <1>1, <1>2

\* A thread takes a request when it has none.
LEMMA ServeStep ==
  TypeInv /\ DownInv /\ RequestsInv /\ ServeInv /\ [Next]_vars => ServeInv'
<1> SUFFICES ASSUME TypeInv, DownInv, RequestsInv, ServeInv, [Next]_vars
             PROVE  ServeInv'
  OBVIOUS
<1>1. \A t \in Workers : \A l : KernelGoto(t, l) => \A u \in Workers \ {t} : at'[u] = at[u]
  BY DEF KernelGoto, TypeInv, KernelTypeOK
<1>2. \A t \in Workers : \A r : Only(t, r) => \A u \in Workers \ {t} : request'[u] = request[u]
  BY DEF Only, RequestsInv
<1> USE DEF ServeInv, Up, Stage
<1>3. ASSUME UNCHANGED <<at, request>>, stack' = <<>> => stack = <<>>
      PROVE  ServeInv'
  BY <1>3
<1>4. ASSUME NEW t \in Workers, KernelStep(t) \/ KernelBegin(t), Stage(t) = "idle",
             UNCHANGED <<eventsVars, stack>>
      PROVE  ServeInv'
  <2>1. \A u \in Workers \ {t} : at'[u] = at[u]
    BY <1>1, <1>4, KernelStepsOne
  <2> QED BY <1>4, <2>1 DEF eventsVars
<1>5. ASSUME NEW t \in Workers, at[t] = "idle", stack # <<>>,
             EventsStep(t) \/ EventsBegin(t) \/ EventsOutside(t),
             UNCHANGED <<kernelVars, stack>>
      PROVE  ServeInv'
  <2>1. \A u \in Workers \ {t} : request'[u] = request[u]
    BY <1>2, <1>5, RequestStep
  <2> QED BY <1>5, <2>1 DEF kernelVars
<1>6. ASSUME NEW t \in Workers, accept(t)
      PROVE  ServeInv'
  <2>1. at[t] = "idle" /\ Stage(t) = "idle" /\ stack # <<>>
    BY <1>6 DEF accept, Free, Runs
  <2>2. CASE KernelBegin(t) /\ UNCHANGED <<eventsVars, stack>>
    BY <1>4, <2>1, <2>2
  <2>3. CASE EventsBegin(t) /\ UNCHANGED <<kernelVars, stack>>
    BY <1>5, <2>1, <2>3
  <2>4. CASE (\E m \in Messages : publish(m) \/ ack(m)) /\ UNCHANGED <<kernelVars, stack>>
    BY <1>3, <2>4 DEF publish, ack, kernelVars
  <2> QED BY <1>6, <2>2, <2>3, <2>4 DEF accept
<1>7. ASSUME NEW t \in Workers, work(t)
      PROVE  ServeInv'
  <2>1. CASE KernelStep(t) /\ UNCHANGED <<eventsVars, stack>>
    BY <1>4, <2>1, ServingSteps
  <2>2. CASE EventsStep(t) /\ UNCHANGED <<kernelVars, stack>>
    BY <1>5, <2>2, ServingSteps
  <2> QED BY <1>7, <2>1, <2>2 DEF work
<1>8. ASSUME NEW t \in Workers, EventsOutside(t),
             UNCHANGED <<kernelVars, stack>>
      PROVE  ServeInv'
  BY <1>5, <1>8, ServingSteps
<1>9. ASSUME NEW content \in Whole, edit(content), UNCHANGED <<eventsVars, stack>>
      PROVE  ServeInv'
  BY <1>3, <1>9 DEF edit, eventsVars
<1>10. ASSUME serve_forever \/ signal \/ _grace
       PROVE  ServeInv'
  <2>1. UNCHANGED <<at, request>> /\ stack # <<>>
    BY <1>10 DEF serve_forever, signal, _grace, Runs, kernelVars, eventsVars
  <2>2. stack \in Seq(Frames) /\ Front(stack) \in Seq(Frames)
    BY <2>1 DEF DownInv, Front
  <2>3. PICK front \in Seq(Frames), f \in Frames : stack' = Append(front, f)
    BY <1>10, <2>2 DEF serve_forever, signal, _grace, Frames
  <2>4. Append(front, f) # <<>>
    OBVIOUS
  <2> QED BY <1>3, <2>1, <2>3, <2>4
<1>11. ASSUME crash
       PROVE  ServeInv'
  BY <1>11 DEF crash, Ends, kernel_crash, events_crash, NoRequest
<1>12. ASSUME restart
       PROVE  ServeInv'
  BY <1>3, <1>12 DEF restart, kernel_start, eventsVars
<1>13. ASSUME UNCHANGED vars
       PROVE  ServeInv'
  BY <1>3, <1>13 DEF vars, kernelVars, eventsVars
<1> QED
  BY <1>6, <1>7, <1>8, <1>9, <1>10, <1>11, <1>12, <1>13 DEF Next, Main, Environment

-----------------------------------------------------------------------------
(***************************************************************************)
(* The theorems.                                                           *)
(***************************************************************************)

ServiceInv == RequestsInv /\ MsgInv /\ SubsInv /\ ServeInv

\* No thread has a request at first, and no message is held.
LEMMA ServiceStart == Init => ServiceInv
<1> SUFFICES ASSUME KernelInit, EventsInit, stack = <<"main">>
             PROVE  ServiceInv
  BY DEF Init
<1>1. \A t \in Workers : /\ request[t] = NoRequest /\ at[t] = "idle"
                         /\ request[t].stage = "idle" /\ request[t].msg = NoMessage
  BY DEF EventsInit, KernelInit, NoRequest
<1>2. RequestsInv
  BY NewRequests DEF RequestsInv, EventsInit, Fates
<1>3. MsgInv
  BY <1>1 DEF MsgInv, EventsInit, Stage
<1>4. SubsInv
  BY <1>1 DEF SubsInv, SubscriptionsClosed, Subscribed, EventsInit, Stage
<1>5. ServeInv
  BY <1>1 DEF ServeInv, Stage, Up
<1> QED BY <1>2, <1>3, <1>4, <1>5 DEF ServiceInv

\* All of this holds in every state.
LEMMA ServiceInvariant == Spec => []ServiceInv
<1>1. KernelInv /\ ServiceInv /\ [Next]_vars => ServiceInv'
  BY EventsTransitions, RequestsNext, MsgNext, SubsNext, ServeStep DEF KernelInv, ServiceInv
<1> QED BY <1>1, ServiceStart, KernelInvariant, PTL DEF Spec

\* The service's variables keep their types; a thread serves one request at a time; a
\* process that is down serves none.
THEOREM ServiceTypeCorrect == Spec => []TypeOK
<1>1. KernelInv /\ ServiceInv => TypeOK
  <2> SUFFICES ASSUME KernelInv, ServiceInv
               PROVE  TypeOK
    OBVIOUS
  <2>1. KernelTypeOK /\ stack \in Seq(Frames) /\ (~Up => \A t \in Workers : at[t] = "idle")
    BY DEF KernelInv, TypeInv, DownInv, AtRest, AllIdle
  <2>2. EventsTypeOK
    <3>1. RequestsInv /\ SubsInv
      BY DEF ServiceInv
    <3>2. orphaned \cup unclosed \subseteq open_subs
      BY <3>1 DEF SubsInv, SubscriptionsClosed
    <3>3. open_subs \subseteq Subscriptions
      BY <3>1 DEF SubsInv
    <3> QED BY <3>1, <3>2, <3>3 DEF RequestsInv, EventsTypeOK, Fates
  <2>3. \A f \in Range(stack) : f \in {"main", "serve_forever", "_grace", "shutdown"}
    BY <2>1 DEF Range, Frames
  <2>4. /\ \A t \in Workers : at[t] = "idle" \/ Stage(t) = "idle"
        /\ ~Up => \A t \in Workers : Free(t)
    BY <2>1 DEF ServiceInv, ServeInv, Free
  <2> QED BY <2>1, <2>2, <2>3, <2>4 DEF TypeOK
<1> QED BY <1>1, KernelInvariant, ServiceInvariant, PTL

\* Each open subscription belongs to one request that will still try to close it, or its
\* close() has raised, or it is that of a stream whose client was gone before the headers.
THEOREM SubscriptionsAreClosed == Spec => []SubscriptionsClosed
<1>1. ServiceInv => SubscriptionsClosed
  BY DEF ServiceInv, SubsInv
<1> QED BY <1>1, ServiceInvariant, PTL

\* A message that was handed out is in the hands of one request that will try to write it.
THEOREM MessagesAreAccounted == Spec => []MessagesAccounted
<1>1. ServiceInv => MessagesAccounted
  <2> SUFFICES ASSUME ServiceInv, NEW m \in Messages, fate[m] = "held"
               PROVE  \E t \in Workers :
                        /\ \A u \in Workers : request[u].msg = m <=> u = t
                        /\ Stage(t) \in {"poll_close", "answer", "write"}
    BY DEF MessagesAccounted
  <2>1. PICK t \in Workers : request[t].msg = m
    BY DEF ServiceInv, MsgInv
  <2>2. m # NoMessage
    BY EventsAssumption
  <2>3. \A u \in Workers : request[u].msg = m <=> u = t
    BY <2>1, <2>2 DEF ServiceInv, MsgInv
  <2>4. Stage(t) \in {"poll_close", "answer", "write"}
    BY <2>1, <2>2 DEF ServiceInv, MsgInv, Holding
  <2> QED BY <2>3, <2>4
<1> QED BY <1>1, ServiceInvariant, PTL

-----------------------------------------------------------------------------
(***************************************************************************)
(* The main thread after a signal, for any number of signals: what the     *)
(* handler waits for is below it on the same stack.                        *)
(***************************************************************************)

HandlerFrames == {"_grace", "shutdown"}

\* Above a frame of the handler there are only frames of the handler.
StackInv ==
  /\ stack \in Seq(Frames)
  /\ \A i, j \in DOMAIN stack : i < j /\ stack[i] \in HandlerFrames => stack[j] \in HandlerFrames

\* The last frame of a stack is a frame of the handler if any is.
LEMMA TopOfStack ==
  ASSUME StackInv, Up, Last(stack) \notin HandlerFrames
  PROVE  \A f \in Range(stack) : f \notin HandlerFrames
<1>1. Len(stack) \in Nat \ {0} /\ DOMAIN stack = 1..Len(stack)
  BY DEF StackInv, Up
<1>2. stack[Len(stack)] \notin HandlerFrames
  BY DEF Last
<1>3. ASSUME NEW i \in DOMAIN stack
      PROVE  stack[i] \notin HandlerFrames
  BY <1>1, <1>2, <1>3 DEF StackInv
<1> QED BY <1>3 DEF Range

\* A frame that follows the others, or replaces the last of them, keeps the shape.
LEMMA PushFrame ==
  ASSUME StackInv, NEW f \in Frames,
         f \notin HandlerFrames => \A i \in DOMAIN stack : stack[i] \notin HandlerFrames
  PROVE  (stack' = Append(stack, f) => StackInv')
<1> SUFFICES ASSUME stack' = Append(stack, f) PROVE StackInv'
  OBVIOUS
<1>1. /\ stack' \in Seq(Frames) /\ Len(stack') = Len(stack) + 1
      /\ \A i \in 1..Len(stack) : stack'[i] = stack[i]
      /\ stack'[Len(stack) + 1] = f
  BY DEF StackInv
<1>2. DOMAIN stack' = 1..(Len(stack) + 1) /\ DOMAIN stack = 1..Len(stack) /\ Len(stack) \in Nat
  BY <1>1 DEF StackInv
<1>3. ASSUME NEW i \in DOMAIN stack', NEW j \in DOMAIN stack', i < j,
             stack'[i] \in HandlerFrames
      PROVE  stack'[j] \in HandlerFrames
  <2>1. i \in 1..Len(stack) /\ stack[i] \in HandlerFrames
    BY <1>1, <1>2, <1>3
  <2>2. CASE j = Len(stack) + 1
    BY <1>1, <1>2, <2>1, <2>2
  <2>3. CASE j \in 1..Len(stack)
    BY <1>1, <1>2, <1>3, <2>1, <2>3 DEF StackInv
  <2> QED BY <1>2, <2>2, <2>3
<1> QED BY <1>1, <1>3 DEF StackInv

\* The handler goes on from its first frame to server.shutdown().
LEMMA TurnFrame ==
  ASSUME StackInv, _grace
  PROVE  StackInv'
<1>1. Len(stack) \in Nat \ {0} /\ DOMAIN stack = 1..Len(stack) /\ stack[Len(stack)] = "_grace"
  BY DEF StackInv, _grace, Runs, Up, Last
<1>2. /\ Front(stack) \in Seq(Frames) /\ Len(Front(stack)) = Len(stack) - 1
      /\ \A i \in 1..(Len(stack) - 1) : Front(stack)[i] = stack[i]
  BY <1>1 DEF Front, StackInv
<1>3. stack' = Append(Front(stack), "shutdown") /\ "shutdown" \in Frames
  BY DEF _grace, Frames
<1>4. /\ stack' \in Seq(Frames) /\ Len(stack') = Len(stack)
      /\ \A i \in 1..(Len(stack) - 1) : stack'[i] = stack[i]
      /\ stack'[Len(stack)] = "shutdown"
  <2> DEFINE n == Len(stack) - 1
  <2>1. n \in Nat /\ Len(stack) = n + 1 /\ Len(Front(stack)) = n
    BY <1>1, <1>2
  <2>2. /\ stack' \in Seq(Frames) /\ Len(stack') = n + 1 /\ stack'[n + 1] = "shutdown"
        /\ \A i \in 1..n : stack'[i] = Front(stack)[i]
    <3> HIDE DEF n
    <3> QED BY <1>2, <1>3, <2>1
  <2>3. \A i \in 1..n : stack'[i] = stack[i]
    BY <1>2, <2>2
  <2> QED BY <2>1, <2>2, <2>3
<1>5. \A i \in 1..Len(stack) : stack'[i] \in HandlerFrames <=> stack[i] \in HandlerFrames
  BY <1>1, <1>4 DEF HandlerFrames
<1> QED BY <1>1, <1>4, <1>5 DEF StackInv

\* Every step keeps the shape of the stack.
LEMMA StackStep == StackInv /\ [Next]_vars => StackInv'
<1> SUFFICES ASSUME StackInv, [Next]_vars PROVE StackInv'
  OBVIOUS
<1>1. CASE serve_forever
  <2>1. Up /\ Last(stack) \notin HandlerFrames
    BY <1>1 DEF serve_forever, Runs, HandlerFrames
  <2>2. \A i \in DOMAIN stack : stack[i] \notin HandlerFrames
    BY <2>1, TopOfStack DEF Range
  <2> QED BY <1>1, <2>2, PushFrame DEF serve_forever, Frames
<1>2. CASE _grace
  BY <1>2, TurnFrame
<1>3. CASE signal
  <2>1. stack' = Append(stack, "_grace") /\ "_grace" \in Frames /\ "_grace" \in HandlerFrames
    BY <1>3 DEF signal, Frames, HandlerFrames
  <2> QED BY <2>1, PushFrame
<1>4. CASE crash
  <2>1. stack' = <<>>
    BY <1>4 DEF crash, Ends
  <2> QED BY <2>1 DEF StackInv
<1>5. CASE restart
  <2>1. stack' = <<"main">>
    BY <1>5 DEF restart
  <2> QED BY <2>1 DEF StackInv, Frames
<1>6. CASE UNCHANGED stack
  BY <1>6 DEF StackInv
<1> QED BY <1>1, <1>2, <1>3, <1>4, <1>5, <1>6
        DEF Next, Main, Environment, accept, work, vars

\* Init has the one frame of main.
LEMMA StackStart == Init => StackInv
BY DEF Init, StackInv, Frames

\* A process that has got a signal accepts no more requests: its main thread is in the
\* handler until it is killed.
SignalEndsService ==
  [][\A t \in Workers : accept(t) => \A f \in Range(stack) : f \notin HandlerFrames]_vars

\* No request is accepted above or below a signal handler.
THEOREM NoRequestAfterSignal == Spec => SignalEndsService
<1>1. StackInv /\ [Next]_vars
        => [\A t \in Workers : accept(t) => \A f \in Range(stack) : f \notin HandlerFrames]_vars
  BY TopOfStack DEF accept, Runs, HandlerFrames
<1> QED BY StackStart, StackStep, <1>1, PTL DEF Spec, SignalEndsService

\* serve_forever never ends: when it is the frame that runs, nothing has asked for a
\* shutdown, and while something has, the handler is what runs.
LEMMA ShutdownStep ==
  ASSUME StackInv, ~is_shut_down, [ShutdownNext]_<<vars, is_shut_down>>
  PROVE  [Next]_vars /\ ~is_shut_down'
<1>1. ~serve_forever_ends
  BY TopOfStack DEF serve_forever_ends, shutdown_request, Runs, HandlerFrames
<1>2. ~exit
  BY DEF exit
<1>3. CASE Next /\ is_shut_down' = (is_shut_down /\ Up')
  BY <1>3
<1>4. CASE UNCHANGED <<vars, is_shut_down>>
  BY <1>4
<1> QED BY <1>1, <1>2, <1>3, <1>4 DEF ShutdownNext

\* The graceful end never comes: server.shutdown() never returns, so that a process
\* with the end of main() added behaves as one without it, and the handler never
\* comes to sys.exit(0).
THEOREM ShutdownNeverReturns == ShutdownSpec => Spec /\ []~is_shut_down
<1>1. ShutdownInit => Init /\ StackInv /\ ~is_shut_down
  BY StackStart DEF ShutdownInit
<1>2. StackInv /\ ~is_shut_down /\ [ShutdownNext]_<<vars, is_shut_down>>
        => [Next]_vars /\ StackInv' /\ ~is_shut_down'
  BY ShutdownStep, StackStep
<1> QED BY <1>1, <1>2, PTL DEF ShutdownSpec, Spec
=============================================================================
