----------------------- MODULE NativeScheduler_proofs -----------------------
(***************************************************************************)
(* Theorems about NativeScheduler, for every set of priorities and every   *)
(* bound on the pids: the invariants that its run checks are invariants,   *)
(* and stop() waits for the work.                                          *)
(***************************************************************************)
EXTENDS NativeScheduler, SequenceTheorems, TLAPS

\* No process is queued twice.
PidsDistinct ==
  \A i, j \in DOMAIN readyQueue_ : readyQueue_[i].pid = readyQueue_[j].pid => i = j

\* The inductive invariant.  StatesExact needs PidsDistinct: the process that
\* runs is out of the queue only if it was there once.
NativeInv == TypeOK /\ PriorityOrder /\ PidsDistinct /\ StatesExact /\ NoMissedNotify

-----------------------------------------------------------------------------
\* What readyQueue_.insert(it, proc) does: the entries before the place stay, the
\* others move up by one.
LEMMA InsertFacts ==
  ASSUME NEW S, NEW s \in Seq(S), NEW e \in S, NEW place \in 1..(Len(s) + 1)
  PROVE  /\ InsertAt(s, place, e) \in Seq(S)
         /\ Len(InsertAt(s, place, e)) = Len(s) + 1
         /\ \A i \in 1..(place - 1) : InsertAt(s, place, e)[i] = s[i]
         /\ InsertAt(s, place, e)[place] = e
         /\ \A i \in place..Len(s) : InsertAt(s, place, e)[i + 1] = s[i]
<1> DEFINE front == SubSeq(s, 1, place - 1)
           back  == SubSeq(s, place, Len(s))
           head  == front \o <<e>>
<1>1. /\ Len(s) \in Nat /\ place \in Nat
      /\ \A i \in 1..Len(s) : s[i] \in S
  OBVIOUS
<1>2. /\ front \in Seq(S) /\ Len(front) = place - 1
      /\ \A i \in 1..(place - 1) : front[i] = s[i]
  <2>1. \A i \in 1..(place - 1) : s[i] \in S
    BY <1>1
  <2> QED BY <1>1, <2>1, SubSeqProperties
<1>3. /\ back \in Seq(S) /\ Len(back) = Len(s) - place + 1
      /\ \A i \in 1..(Len(s) - place + 1) : back[i] = s[place + i - 1]
  <2>1. \A i \in place..Len(s) : s[i] \in S
    BY <1>1
  <2> QED BY <1>1, <2>1, SubSeqProperties
<1> HIDE DEF front, back
<1>4. /\ <<e>> \in Seq(S) /\ Len(<<e>>) = 1 /\ <<e>>[1] = e
  OBVIOUS
<1>5. /\ head \in Seq(S) /\ Len(head) = place
      /\ \A i \in 1..(place - 1) : head[i] = s[i]
      /\ head[place] = e
  <2>1. /\ head \in Seq(S) /\ Len(head) = Len(front) + 1
        /\ \A i \in 1..(Len(front) + 1) :
             head[i] = IF i <= Len(front) THEN front[i] ELSE <<e>>[i - Len(front)]
    BY <1>2, <1>4, ConcatProperties
  <2> QED BY <1>1, <1>2, <1>4, <2>1
<1> HIDE DEF head
<1>6. /\ head \o back \in Seq(S) /\ Len(head \o back) = Len(s) + 1
      /\ \A i \in 1..place : (head \o back)[i] = head[i]
      /\ \A i \in (place + 1)..(Len(s) + 1) : (head \o back)[i] = back[i - place]
  <2>1. /\ head \o back \in Seq(S) /\ Len(head \o back) = Len(head) + Len(back)
        /\ \A i \in 1..(Len(head) + Len(back)) :
             (head \o back)[i] = IF i <= Len(head) THEN head[i] ELSE back[i - Len(head)]
    BY <1>3, <1>5, ConcatProperties
  <2>2. Len(head) + Len(back) = Len(s) + 1
    BY <1>1, <1>3, <1>5
  <2> QED BY <1>1, <1>5, <2>1, <2>2
<1>7. \A i \in 1..(place - 1) : (head \o back)[i] = s[i]
  BY <1>1, <1>5, <1>6
<1>8. (head \o back)[place] = e
  BY <1>1, <1>5, <1>6
<1>9. ASSUME NEW i \in place..Len(s)
      PROVE  (head \o back)[i + 1] = s[i]
  <2>1. (head \o back)[i + 1] = back[(i + 1) - place]
    BY <1>1, <1>6
  <2>2. back[(i + 1) - place] = s[i]
    BY <1>1, <1>3
  <2> QED BY <2>1, <2>2
<1> QED BY <1>6, <1>7, <1>8, <1>9 DEF InsertAt, head, front, back

\* The elements of a sequence, and a sequence whose elements are in a larger set.
LEMMA ElementFacts ==
  ASSUME NEW S, NEW s \in Seq(S)
  PROVE  /\ Len(s) \in Nat /\ DOMAIN s = 1..Len(s)
         /\ \A i \in 1..Len(s) : s[i] \in S
         /\ \A T : S \subseteq T => s \in Seq(T)
OBVIOUS

\* A process in the queue has an earlier pid and a number for its priority.
LEMMA EntryFacts ==
  ASSUME NEW n \in Nat \ {0}, NEW e \in Entry(n)
  PROVE  e.pid \in 1..(n - 1) /\ e.priority \in Int
BY NativeAssumption DEF Entry

-----------------------------------------------------------------------------
LEMMA NativeInit == Init => NativeInv
<1> SUFFICES ASSUME Init PROVE NativeInv
  OBVIOUS
<1>1. TypeOK
  <2>1. readyQueue_ \in Seq(Entry(nextPid_))
    BY EmptySeq DEF Init
  <2>2. processStates_ \in [1..(nextPid_ - 1) -> ProcessState]
    BY DEF Init
  <2>3. nextPid_ - 1 = 0 /\ nextPid_ \in Nat \ {0} /\ proc = 0 /\ proc \in 0..(nextPid_ - 1)
    BY DEF Init
  <2> QED BY <2>1, <2>2, <2>3 DEF Init, TypeOK
<1>2. PriorityOrder /\ PidsDistinct
  BY DEF Init, PriorityOrder, PidsDistinct
<1>3. StatesExact /\ NoMissedNotify
  BY DEF Init, StatesExact, InState, NoMissedNotify
<1> QED BY <1>1, <1>2, <1>3 DEF NativeInv

\* addProcess puts the process where the order of the queue wants it.
LEMMA AddNative ==
  ASSUME NativeInv, controller # "aborted",
         NEW priority \in Priorities, addProcess(priority)
  PROVE  NativeInv'
<1> USE DEF NativeInv
<1>1. PICK n \in Nat \ {0}, q \in {readyQueue_}, place \in 1..(Len(readyQueue_) + 1) :
        /\ n = nextPid_ /\ q = readyQueue_
        /\ IsPlace(place, priority)
        /\ readyQueue_' = InsertAt(q, place, [pid |-> n, priority |-> priority])
  BY DEF addProcess, TypeOK
<1> DEFINE e == [pid |-> n, priority |-> priority]
           t == InsertAt(q, place, e)
<1>2. /\ q \in Seq(Entry(n + 1)) /\ e \in Entry(n + 1)
      /\ e.pid = n /\ e.priority = priority
      /\ Len(q) \in Nat /\ DOMAIN q = 1..Len(q)
      /\ \A i \in 1..Len(q) : q[i].pid \in 1..(n - 1) /\ q[i].priority \in Int
      /\ priority \in Int
      /\ place \in 1..(Len(q) + 1)
  <2>1. q \in Seq(Entry(n))
    BY <1>1 DEF TypeOK
  <2>2. Entry(n) \subseteq Entry(n + 1) /\ e \in Entry(n + 1)
    BY DEF Entry
  <2>3. q \in Seq(Entry(n + 1)) /\ Len(q) \in Nat /\ DOMAIN q = 1..Len(q)
    BY <2>1, <2>2, ElementFacts
  <2>4. ASSUME NEW i \in 1..Len(q)
        PROVE  q[i].pid \in 1..(n - 1) /\ q[i].priority \in Int
    <3>1. q[i] \in Entry(n)
      BY <2>1, ElementFacts
    <3> QED BY <3>1, EntryFacts
  <2>5. e.pid = n /\ e.priority = priority /\ priority \in Int
    BY NativeAssumption
  <2> QED BY <2>2, <2>3, <2>4, <2>5
<1> HIDE DEF e
<1>3. /\ t \in Seq(Entry(n + 1)) /\ Len(t) = Len(q) + 1 /\ DOMAIN t = 1..(Len(q) + 1)
      /\ \A i \in 1..(place - 1) : t[i] = q[i]
      /\ t[place] = e
      /\ \A i \in place..Len(q) : t[i + 1] = q[i]
  <2>1. /\ t \in Seq(Entry(n + 1)) /\ Len(t) = Len(q) + 1
        /\ \A i \in 1..(place - 1) : t[i] = q[i]
        /\ t[place] = e
        /\ \A i \in place..Len(q) : t[i + 1] = q[i]
    <3> HIDE DEF t
    <3>1. q \in Seq(Entry(n + 1)) /\ e \in Entry(n + 1) /\ place \in 1..(Len(q) + 1)
      BY <1>2
    <3> QED BY <3>1, InsertFacts DEF t
  <2>2. DOMAIN t = 1..Len(t)
    BY <2>1, ElementFacts
  <2> QED BY <2>1, <2>2
<1>4. /\ readyQueue_' = t /\ nextPid_' = n + 1
      /\ DOMAIN processStates_ = 1..(n - 1)
      /\ processStates_' = [pid \in 1..n |-> IF pid = n THEN "READY" ELSE processStates_[pid]]
      /\ scheduler' = IF scheduler = "asleep" THEN "awake" ELSE scheduler
      /\ UNCHANGED <<running_, proc, controller>>
  <2>1. DOMAIN processStates_ = 1..(n - 1) /\ (1..(n - 1)) \cup {n} = 1..n
    BY <1>1 DEF TypeOK
  <2>2. processStates_' = [pid \in 1..n |-> IF pid = n THEN "READY" ELSE processStates_[pid]]
    BY <1>1, <2>1 DEF addProcess, SetReady
  <2>3. /\ nextPid_' = n + 1 /\ UNCHANGED <<running_, proc, controller>>
        /\ scheduler' = IF scheduler = "asleep" THEN "awake" ELSE scheduler
    BY <1>1 DEF addProcess, Notify
  <2> QED BY <1>1, <2>1, <2>2, <2>3 DEF e
<1>5. /\ \A i \in 1..(place - 1) : q[i].priority >= priority
      /\ place <= Len(q) => priority > q[place].priority
  <2>1. \A i \in 1..(place - 1) : ~(priority > q[i].priority)
    BY <1>1 DEF IsPlace, RunsBefore
  <2>2. place <= Len(q) => priority > q[place].priority
    BY <1>1 DEF IsPlace, RunsBefore
  <2>3. \A i \in 1..(place - 1) : i \in 1..Len(q)
    BY <1>2
  <2> QED BY <1>2, <2>1, <2>2, <2>3
<1>6. /\ \A i, j \in 1..Len(q) : i < j =>
           \/ q[i].priority > q[j].priority
           \/ q[i].priority = q[j].priority /\ q[i].pid < q[j].pid
      /\ \A i, j \in 1..Len(q) : q[i].pid = q[j].pid => i = j
  BY <1>1, <1>2 DEF PriorityOrder, PidsDistinct
<1> HIDE DEF t
<1>7. \A j \in 1..Len(q) : j >= place => priority > q[j].priority
  <2> SUFFICES ASSUME NEW j \in 1..Len(q), j >= place PROVE priority > q[j].priority
    OBVIOUS
  <2>1. place \in 1..Len(q) /\ place <= Len(q)
    BY <1>2
  <2>2. CASE j = place
    BY <1>5, <2>1, <2>2
  <2>3. CASE j > place
    <3>1. q[place].priority >= q[j].priority
      BY <1>2, <1>6, <2>1, <2>3
    <3> QED BY <1>2, <1>5, <2>1, <3>1
  <2> QED BY <1>2, <2>1, <2>2, <2>3
\* Every entry of the new queue is the new process, or an old one whose index
\* did not change or grew by one.
<1>8. ASSUME NEW i \in 1..(Len(q) + 1)
      PROVE  \/ i = place
             \/ i < place /\ i \in 1..Len(q) /\ t[i] = q[i]
             \/ \E k \in 1..Len(q) : i = k + 1 /\ k >= place /\ t[i] = q[k]
  <2>1. CASE i < place
    BY <1>2, <1>3, <2>1
  <2>2. CASE i > place
    <3>1. i - 1 \in 1..Len(q) /\ i - 1 >= place /\ i = (i - 1) + 1
      BY <1>2, <2>2
    <3>2. t[(i - 1) + 1] = q[i - 1]
      BY <1>2, <1>3, <3>1
    <3> QED BY <3>1, <3>2
  <2> QED BY <1>2, <2>1, <2>2
<1>9. PriorityOrder'
  <2> SUFFICES ASSUME NEW i \in 1..(Len(q) + 1), NEW j \in 1..(Len(q) + 1), i < j
               PROVE  \/ t[i].priority > t[j].priority
                      \/ t[i].priority = t[j].priority /\ t[i].pid < t[j].pid
    BY <1>3, <1>4 DEF PriorityOrder
  <2>1. CASE j < place
    <3>1. i \in 1..Len(q) /\ j \in 1..Len(q) /\ t[i] = q[i] /\ t[j] = q[j]
      BY <1>2, <1>3, <2>1
    <3> QED BY <1>6, <3>1
  <2>2. CASE j = place
    <3>1. t[i] = q[i] /\ t[j] = e /\ i \in 1..Len(q) /\ i \in 1..(place - 1)
      BY <1>2, <1>3, <2>2
    <3>2. q[i].priority >= priority /\ q[i].pid < n
      BY <1>2, <1>5, <3>1
    <3> QED BY <1>2, <3>1, <3>2
  <2>3. CASE j > place
    <3>1. PICK l \in 1..Len(q) : j = l + 1 /\ l >= place /\ t[j] = q[l]
      BY <1>2, <1>8, <2>3
    <3>2. CASE i = place
      <4>1. t[i] = e /\ priority > q[l].priority
        BY <1>3, <1>7, <3>1, <3>2
      <4> QED BY <1>2, <3>1, <4>1
    <3>3. CASE i # place
      <4>1. PICK k \in 1..Len(q) : t[i] = q[k] /\ k < l
        BY <1>2, <1>8, <3>1, <3>3
      <4> QED BY <1>6, <3>1, <4>1
    <3> QED BY <3>2, <3>3
  <2> QED BY <1>2, <2>1, <2>2, <2>3
<1>10. PidsDistinct'
  <2> SUFFICES ASSUME NEW i \in 1..(Len(q) + 1), NEW j \in 1..(Len(q) + 1),
                      t[i].pid = t[j].pid
               PROVE  i = j
    BY <1>3, <1>4 DEF PidsDistinct
  <2>1. ASSUME NEW m \in 1..(Len(q) + 1), m # place
        PROVE  \E k \in 1..Len(q) : /\ t[m] = q[k] /\ t[m].pid # n
                                    /\ (m = k /\ k < place) \/ (m = k + 1 /\ k >= place)
    <3>1. PICK k \in 1..Len(q) : /\ t[m] = q[k]
                                 /\ (m = k /\ k < place) \/ (m = k + 1 /\ k >= place)
      BY <1>2, <1>8, <2>1
    <3>2. t[m].pid # n
      BY <1>2, <3>1
    <3> QED BY <3>1, <3>2
  <2>2. t[place].pid = n
    BY <1>2, <1>3
  <2>3. CASE i = place \/ j = place
    BY <2>1, <2>2, <2>3
  <2>4. CASE i # place /\ j # place
    <3>1. PICK k \in 1..Len(q) : /\ t[i] = q[k]
                                 /\ (i = k /\ k < place) \/ (i = k + 1 /\ k >= place)
      BY <2>1, <2>4
    <3>2. PICK l \in 1..Len(q) : /\ t[j] = q[l]
                                 /\ (j = l /\ l < place) \/ (j = l + 1 /\ l >= place)
      BY <2>1, <2>4
    <3>3. k = l
      BY <1>6, <3>1, <3>2
    <3> QED BY <1>2, <3>1, <3>2, <3>3
  <2> QED BY <2>3, <2>4
<1>11. TypeOK'
  <2>1. processStates_' \in [1..n -> ProcessState] /\ (n + 1) - 1 = n
    BY <1>2, <1>4 DEF TypeOK, ProcessState
  <2>2. proc' \in 0..n /\ (scheduler' = "task" => proc' # 0)
    BY <1>1, <1>4 DEF TypeOK
  <2> QED BY <1>3, <1>4, <2>1, <2>2 DEF TypeOK
<1>12. StatesExact'
  <2>1. /\ InState("READY") = {q[i].pid : i \in 1..Len(q)}
        /\ InState("RUNNING") = IF scheduler = "task" THEN {proc} ELSE {}
    BY <1>1, <1>2 DEF StatesExact
  <2>2. InState("READY")' = InState("READY") \cup {n} /\ InState("RUNNING")' = InState("RUNNING")
    BY <1>2, <1>4 DEF InState
  <2> DEFINE old == {q[i].pid : i \in 1..Len(q)}
             new == {t[i].pid : i \in 1..(Len(q) + 1)}
  <2>3. new = old \cup {n}
    <3>1. ASSUME NEW i \in 1..(Len(q) + 1)
          PROVE  t[i].pid \in old \cup {n}
      BY <1>2, <1>3, <1>8
    <3>2. ASSUME NEW k \in 1..Len(q)
          PROVE  \E i \in 1..(Len(q) + 1) : t[i].pid = q[k].pid
      <4>1. CASE k < place
        BY <1>2, <1>3, <4>1
      <4>2. CASE k >= place
        <5>1. k + 1 \in 1..(Len(q) + 1) /\ t[k + 1] = q[k]
          BY <1>2, <1>3, <4>2
        <5> QED BY <5>1
      <4> QED BY <1>2, <4>1, <4>2
    <3>3. place \in 1..(Len(q) + 1) /\ t[place].pid = n
      BY <1>2, <1>3
    <3>4. new \subseteq old \cup {n}
      BY <3>1
    <3>5. old \subseteq new /\ n \in new
      BY <3>2, <3>3
    <3> QED BY <3>4, <3>5
  <2>4. {readyQueue_'[i].pid : i \in DOMAIN readyQueue_'} = new
    BY <1>3, <1>4
  <2>5. UNCHANGED proc /\ (scheduler' = "task" <=> scheduler = "task")
    BY <1>4
  <2> HIDE DEF old, new
  <2>6. InState("READY")' = {readyQueue_'[i].pid : i \in DOMAIN readyQueue_'}
    BY <2>1, <2>2, <2>3, <2>4 DEF old
  <2> QED BY <2>1, <2>2, <2>5, <2>6 DEF StatesExact
<1>13. NoMissedNotify'
  BY <1>4 DEF NoMissedNotify
<1> QED BY <1>9, <1>10, <1>11, <1>12, <1>13

\* The scheduler thread takes the head of the queue.
LEMMA TakeNative ==
  ASSUME NativeInv, take_process
  PROVE  NativeInv'
<1> USE DEF NativeInv
<1>1. PICK n \in Nat \ {0}, q \in {readyQueue_}, pid \in {Head(readyQueue_).pid} :
        n = nextPid_ /\ q = readyQueue_ /\ pid = Head(q).pid
  BY DEF TypeOK
<1>2. /\ q \in Seq(Entry(n)) /\ q # <<>>
      /\ Len(q) \in Nat \ {0} /\ DOMAIN q = 1..Len(q)
      /\ Head(q) = q[1] /\ pid = q[1].pid /\ pid \in 1..(n - 1)
  <2>1. q \in Seq(Entry(n)) /\ q # <<>>
    BY <1>1 DEF TypeOK, take_process
  <2>2. Len(q) \in Nat \ {0} /\ DOMAIN q = 1..Len(q) /\ Head(q) = q[1]
    BY <2>1
  <2>3. q[1] \in Entry(n)
    BY <2>1, <2>2, ElementFacts
  <2>4. q[1].pid \in 1..(n - 1)
    BY <2>3, EntryFacts
  <2> QED BY <1>1, <2>1, <2>2, <2>4
<1> DEFINE t == Tail(q)
<1>3. /\ t \in Seq(Entry(n))
      /\ DOMAIN t = 1..(Len(q) - 1)
      /\ \A i \in 1..(Len(q) - 1) : t[i] = q[i + 1] /\ i + 1 \in 1..Len(q)
  BY <1>2, HeadTailProperties
<1> HIDE DEF t
<1>4. /\ readyQueue_' = t /\ proc' = pid /\ scheduler' = "task" /\ scheduler = "awake"
      /\ processStates_' = [processStates_ EXCEPT ![pid] = "RUNNING"]
      /\ UNCHANGED <<nextPid_, running_, controller>>
  BY <1>1 DEF take_process, t
<1>5. /\ \A i, j \in 1..Len(q) : i < j =>
           \/ q[i].priority > q[j].priority
           \/ q[i].priority = q[j].priority /\ q[i].pid < q[j].pid
      /\ \A i, j \in 1..Len(q) : q[i].pid = q[j].pid => i = j
  BY <1>1, <1>2 DEF PriorityOrder, PidsDistinct
<1>6. TypeOK'
  BY <1>1, <1>2, <1>3, <1>4 DEF TypeOK, ProcessState
<1>7. PriorityOrder'
  <2> SUFFICES ASSUME NEW i \in 1..(Len(q) - 1), NEW j \in 1..(Len(q) - 1), i < j
               PROVE  \/ t[i].priority > t[j].priority
                      \/ t[i].priority = t[j].priority /\ t[i].pid < t[j].pid
    BY <1>3, <1>4 DEF PriorityOrder
  <2>1. i + 1 < j + 1
    BY <1>2
  <2> QED BY <1>3, <1>5, <2>1
<1>8. PidsDistinct'
  <2> SUFFICES ASSUME NEW i \in 1..(Len(q) - 1), NEW j \in 1..(Len(q) - 1),
                      t[i].pid = t[j].pid
               PROVE  i = j
    BY <1>3, <1>4 DEF PidsDistinct
  <2>1. i + 1 = j + 1
    BY <1>3, <1>5
  <2> QED BY <1>2, <2>1
<1>9. {t[i].pid : i \in 1..(Len(q) - 1)} = {q[i].pid : i \in 1..Len(q)} \ {pid}
  <2>1. ASSUME NEW i \in 1..(Len(q) - 1)
        PROVE  t[i].pid \in {q[k].pid : k \in 1..Len(q)} \ {pid}
    <3>1. t[i] = q[i + 1] /\ i + 1 \in 1..Len(q) /\ i + 1 # 1 /\ 1 \in 1..Len(q)
      BY <1>2, <1>3
    <3>2. q[i + 1].pid # q[1].pid
      BY <1>5, <3>1
    <3> QED BY <1>2, <3>1, <3>2
  <2>2. ASSUME NEW i \in 1..Len(q), q[i].pid # pid
        PROVE  \E k \in 1..(Len(q) - 1) : t[k].pid = q[i].pid
    <3>1. i - 1 \in 1..(Len(q) - 1) /\ (i - 1) + 1 = i
      BY <1>2, <2>2
    <3>2. t[i - 1] = q[i]
      BY <1>3, <3>1
    <3> QED BY <3>1, <3>2
  <2> QED BY <2>1, <2>2
<1>10. StatesExact'
  <2>1. /\ InState("READY") = {q[i].pid : i \in 1..Len(q)} /\ InState("RUNNING") = {}
    BY <1>1, <1>2, <1>4 DEF StatesExact
  <2>2. processStates_ \in [1..(n - 1) -> ProcessState]
    BY <1>1 DEF TypeOK
  <2>3. /\ InState("READY")' = InState("READY") \ {pid}
        /\ InState("RUNNING")' = InState("RUNNING") \cup {pid}
    BY <1>2, <1>4, <2>2 DEF InState
  <2>4. {readyQueue_'[i].pid : i \in DOMAIN readyQueue_'} = {t[i].pid : i \in 1..(Len(q) - 1)}
    BY <1>3, <1>4
  <2>5. InState("READY")' = {readyQueue_'[i].pid : i \in DOMAIN readyQueue_'}
    BY <1>9, <2>1, <2>3, <2>4
  <2>6. InState("RUNNING")' = IF scheduler' = "task" THEN {proc'} ELSE {}
    BY <1>4, <2>1, <2>3
  <2> QED BY <2>5, <2>6 DEF StatesExact
<1>11. NoMissedNotify'
  BY <1>4 DEF NoMissedNotify
<1> QED BY <1>6, <1>7, <1>8, <1>10, <1>11

\* A step that leaves the queue, the states and the running process alone.
LEMMA ControlNative ==
  ASSUME NativeInv, UNCHANGED <<queueVars, proc>>, TypeOK', NoMissedNotify',
         scheduler' = "task" <=> scheduler = "task"
  PROVE  NativeInv'
<1> USE DEF NativeInv, queueVars
<1>1. PriorityOrder' /\ PidsDistinct'
  BY DEF PriorityOrder, PidsDistinct
<1>2. StatesExact'
  BY DEF StatesExact, InState
<1> QED BY <1>1, <1>2

LEMMA NativeStep ==
  ASSUME NativeInv, [Next]_vars
  PROVE  NativeInv'
<1> USE DEF NativeInv
<1> DEFINE Control == /\ UNCHANGED <<queueVars, proc>> /\ TypeOK' /\ NoMissedNotify'
                      /\ (scheduler' = "task" <=> scheduler = "task")
<1>1. ASSUME controller # "aborted", NEW priority \in Priorities, addProcess(priority)
      PROVE  NativeInv'
  BY <1>1, AddNative
<1>2. CASE start \/ start_again
  <2>1. Control
    BY <1>2 DEF start, start_again, TypeOK, NoMissedNotify, queueVars
  <2> QED BY <2>1, ControlNative
<1>3. CASE stop \/ stop_notify \/ stop_join
  <2>1. Control
    BY <1>3 DEF stop, stop_notify, stop_join, Notify, TypeOK, NoMissedNotify, queueVars
  <2> QED BY <2>1, ControlNative
<1>4. CASE fall_asleep \/ wake_spuriously \/ exit_loop
  <2>1. Control
    BY <1>4 DEF fall_asleep, wake_spuriously, exit_loop, TypeOK, NoMissedNotify, queueVars
  <2> QED BY <2>1, ControlNative
<1>5. CASE take_process
  BY <1>5, TakeNative
<1>6. CASE finish_process
  <2>1. PICK n \in Nat \ {0} : n = nextPid_
    BY DEF TypeOK
  <2>2. /\ processStates_ \in [1..(n - 1) -> ProcessState] /\ proc \in 1..(n - 1)
        /\ processStates_' = [processStates_ EXCEPT ![proc] = "TERMINATED"]
        /\ scheduler = "task" /\ scheduler' = "awake"
        /\ UNCHANGED <<readyQueue_, nextPid_, running_, proc, controller>>
    BY <1>6, <2>1 DEF finish_process, SetTerminated, TypeOK
  <2>3. TypeOK'
    BY <2>1, <2>2 DEF TypeOK, ProcessState
  <2>4. PriorityOrder' /\ PidsDistinct' /\ NoMissedNotify'
    BY <2>2 DEF PriorityOrder, PidsDistinct, NoMissedNotify
  <2>5. InState("RUNNING") = {proc} /\ proc \notin InState("READY")
    BY <2>2 DEF StatesExact, InState
  <2>6. InState("READY")' = InState("READY") /\ InState("RUNNING")' = {}
    BY <2>2, <2>5 DEF InState
  <2>7. StatesExact'
    BY <2>2, <2>6 DEF StatesExact, InState
  <2> QED BY <2>3, <2>4, <2>7
<1>7. CASE task_throws
  <2>1. Control
    BY <1>7 DEF task_throws, TypeOK, NoMissedNotify, queueVars
  <2> QED BY <2>1, ControlNative
<1>8. CASE UNCHANGED vars
  <2>1. Control
    BY <1>8 DEF vars, TypeOK, NoMissedNotify, queueVars
  <2> QED BY <2>1, ControlNative
<1> QED BY <1>1, <1>2, <1>3, <1>4, <1>5, <1>6, <1>7, <1>8 DEF Next

-----------------------------------------------------------------------------
\* The inductive invariant holds in every behaviour of the native scheduler.
THEOREM NativeInvariant == Spec => []NativeInv
BY NativeInit, NativeStep, PTL DEF Spec

\* Type correctness of the native scheduler.
THEOREM NativeTypeCorrect == Spec => []TypeOK
<1>1. NativeInv => TypeOK
  BY DEF NativeInv
<1> QED BY <1>1, NativeInvariant, PTL

\* Larger values run sooner, and equals in the order they were added, for any
\* number of processes and any priorities.
THEOREM PrioritiesKept == Spec => []PriorityOrder
<1>1. NativeInv => PriorityOrder
  BY DEF NativeInv
<1> QED BY <1>1, NativeInvariant, PTL

\* What getProcessState reports agrees with the queue and the scheduler thread.
THEOREM StatesCorrect == Spec => []StatesExact
<1>1. NativeInv => StatesExact
  BY DEF NativeInv
<1> QED BY <1>1, NativeInvariant, PTL

\* The scheduler thread never sleeps beside work, nor when it is to stop, unless
\* stop() is about to notify it.
THEOREM NotificationsKept == Spec => []NoMissedNotify
<1>1. NativeInv => NoMissedNotify
  BY DEF NativeInv
<1> QED BY <1>1, NativeInvariant, PTL

\* When the scheduler thread leaves its loop, every process that was added has
\* run to its end.
THEOREM StopWaitsForWork == Spec => StopDrains
<1>1. ASSUME NativeInv, [Next]_vars
      PROVE  [scheduler' = "exited" /\ scheduler # "exited" =>
                InState("TERMINATED") = DOMAIN processStates_]_vars
  <2> SUFFICES ASSUME Next, scheduler' = "exited", scheduler # "exited"
               PROVE  InState("TERMINATED") = DOMAIN processStates_
    BY <1>1
  <2>1. exit_loop
    BY DEF Next, addProcess, start, start_again, stop, stop_notify, stop_join,
           fall_asleep, wake_spuriously, take_process, finish_process, task_throws, Notify
  <2>2. readyQueue_ = <<>> /\ scheduler = "awake"
    BY <2>1 DEF exit_loop, MayExit
  <2>3. InState("READY") = {} /\ InState("RUNNING") = {}
    BY <1>1, <2>2 DEF NativeInv, StatesExact
  <2>4. processStates_ \in [DOMAIN processStates_ -> ProcessState]
    BY <1>1 DEF NativeInv, TypeOK
  <2> QED BY <2>3, <2>4 DEF InState, ProcessState
<1> QED BY <1>1, NativeInvariant, PTL DEF Spec, StopDrains
=============================================================================
