------------------------ MODULE ProcessTable_proofs ------------------------
(***************************************************************************)
(* Lemmas about the ready queue: what appending, popping and removing a    *)
(* pid do to a queue without duplicates, and that none of them changes the *)
(* order of the pids that stay.                                            *)
(***************************************************************************)
EXTENDS ProcessTable, SequenceTheorems, TLAPS

\* In a queue without duplicates only one of two pids is ahead of the other.
LEMMA AheadAsymmetric ==
  ASSUME NEW s \in Seq(Nat), IsInjective(s), NEW a, NEW b,
         Ahead(s, a, b), Ahead(s, b, a)
  PROVE  FALSE
BY DEF Ahead, IsInjective

\* Append(queue, pid), for a pid that is not in the queue.
LEMMA AppendFacts ==
  ASSUME NEW s \in Seq(Nat), IsInjective(s), NEW e \in Nat, e \notin Range(s)
  PROVE  /\ Append(s, e) \in Seq(Nat)
         /\ IsInjective(Append(s, e))
         /\ Range(Append(s, e)) = Range(s) \cup {e}
         /\ \A a, b : Ahead(Append(s, e), a, b) /\ b # e => Ahead(s, a, b)
<1> DEFINE t == Append(s, e)
<1>1. /\ t \in Seq(Nat)
      /\ DOMAIN s = 1..Len(s) /\ Len(s) \in Nat
      /\ DOMAIN t = 1..(Len(s) + 1)
      /\ \A i \in 1..Len(s) : t[i] = s[i]
      /\ t[Len(s) + 1] = e
  OBVIOUS
<1>2. IsInjective(t)
  BY <1>1 DEF IsInjective, Range
<1>3. Range(t) = Range(s) \cup {e}
  BY <1>1 DEF Range
<1>4. ASSUME NEW a, NEW b, Ahead(t, a, b), b # e
      PROVE  Ahead(s, a, b)
  <2>1. PICK m \in DOMAIN t, n \in DOMAIN t : m < n /\ t[m] = a /\ t[n] = b
    BY <1>4 DEF Ahead
  <2>2. m \in DOMAIN s /\ n \in DOMAIN s
    BY <1>1, <1>4, <2>1
  <2> QED BY <1>1, <2>1, <2>2 DEF Ahead
<1> QED BY <1>1, <1>2, <1>3, <1>4

\* pop(0) of a queue that is not empty.
LEMMA TailFacts ==
  ASSUME NEW s \in Seq(Nat), IsInjective(s), s # <<>>
  PROVE  /\ Tail(s) \in Seq(Nat)
         /\ IsInjective(Tail(s))
         /\ Head(s) \in Range(s)
         /\ Range(Tail(s)) = Range(s) \ {Head(s)}
         /\ \A a, b : Ahead(Tail(s), a, b) => Ahead(s, a, b)
<1> DEFINE t == Tail(s)
<1>0. PICK n \in Nat : Len(s) = n + 1
  <2>1. Len(s) \in Nat \ {0}
    OBVIOUS
  <2>2. Len(s) - 1 \in Nat /\ Len(s) = (Len(s) - 1) + 1
    BY <2>1
  <2> QED BY <2>2
<1>1. /\ t \in Seq(Nat)
      /\ DOMAIN s = 1..(n + 1) /\ DOMAIN t = 1..n
      /\ \A i \in 1..n : t[i] = s[i + 1]
      /\ Head(s) = s[1]
  BY <1>0
<1> HIDE DEF t
<1>2. ASSUME NEW i \in DOMAIN t
      PROVE  i \in Int /\ i + 1 \in DOMAIN s /\ i + 1 # 1 /\ t[i] = s[i + 1]
  BY <1>1
<1>3. ASSUME NEW i \in DOMAIN s, i # 1
      PROVE  i - 1 \in DOMAIN t /\ (i - 1) + 1 = i
  BY <1>1, <1>3
<1>4. 1 \in DOMAIN s
  BY <1>1
<1>5. IsInjective(t)
  <2> SUFFICES ASSUME NEW i \in DOMAIN t, NEW j \in DOMAIN t, t[i] = t[j] PROVE i = j
    BY DEF IsInjective
  <2>1. i + 1 = j + 1
    BY <1>2 DEF IsInjective
  <2> QED BY <1>2, <2>1
<1>6. Range(t) = Range(s) \ {Head(s)}
  <2>1. ASSUME NEW x \in Range(t) PROVE x \in Range(s) \ {Head(s)}
    <3>1. PICK i \in DOMAIN t : t[i] = x
      BY DEF Range
    <3>2. s[i + 1] # s[1]
      BY <1>2, <1>4 DEF IsInjective
    <3> QED BY <1>1, <1>2, <3>1, <3>2 DEF Range
  <2>2. ASSUME NEW x \in Range(s) \ {Head(s)} PROVE x \in Range(t)
    <3>1. PICK i \in DOMAIN s : s[i] = x
      BY DEF Range
    <3>2. i # 1
      BY <1>1, <2>2, <3>1
    <3>3. t[i - 1] = s[(i - 1) + 1] /\ i - 1 \in DOMAIN t /\ (i - 1) + 1 = i
      BY <1>2, <1>3, <3>2
    <3> QED BY <3>1, <3>3 DEF Range
  <2> QED BY <2>1, <2>2
<1>7. ASSUME NEW a, NEW b, Ahead(t, a, b)
      PROVE  Ahead(s, a, b)
  <2>1. PICK k \in DOMAIN t, m \in DOMAIN t : k < m /\ t[k] = a /\ t[m] = b
    BY <1>7 DEF Ahead
  <2>2. k + 1 < m + 1
    BY <1>2, <2>1
  <2> QED BY <1>2, <2>1, <2>2 DEF Ahead
<1>8. Head(s) \in Range(s)
  BY <1>1, <1>4 DEF Range
<1> QED BY <1>1, <1>5, <1>6, <1>7, <1>8 DEF t

\* Deleting the element at index k of a sequence.
LEMMA RemoveAtFacts ==
  ASSUME NEW s \in Seq(Nat), NEW k \in 1..Len(s)
  PROVE  /\ RemoveAt(s, k) \in Seq(Nat)
         /\ Len(RemoveAt(s, k)) = Len(s) - 1
         /\ \A i \in 1..(k - 1) : RemoveAt(s, k)[i] = s[i]
         /\ \A i \in k..(Len(s) - 1) : RemoveAt(s, k)[i] = s[i + 1]
<1> DEFINE u == SubSeq(s, 1, k - 1)
           v == SubSeq(s, k + 1, Len(s))
<1>1. /\ u \in Seq(Nat) /\ Len(u) = k - 1
      /\ \A i \in 1..(k - 1) : u[i] = s[i]
  <2>1. \A i \in 1..(k - 1) : s[i] \in Nat
    OBVIOUS
  <2>2. /\ u \in Seq(Nat)
        /\ Len(u) = IF 1 <= k - 1 THEN k - 1 - 1 + 1 ELSE 0
        /\ \A i \in 1..(k - 1 - 1 + 1) : u[i] = s[1 + i - 1]
    BY <2>1, SubSeqProperties
  <2> QED BY <2>2
<1>2. /\ v \in Seq(Nat) /\ Len(v) = Len(s) - k
      /\ \A i \in 1..(Len(s) - k) : v[i] = s[k + i]
  <2>1. \A i \in (k + 1)..Len(s) : s[i] \in Nat
    OBVIOUS
  <2>2. /\ v \in Seq(Nat)
        /\ Len(v) = IF k + 1 <= Len(s) THEN Len(s) - (k + 1) + 1 ELSE 0
        /\ \A i \in 1..(Len(s) - (k + 1) + 1) : v[i] = s[k + 1 + i - 1]
    BY <2>1, SubSeqProperties
  <2> QED BY <2>2
<1> HIDE DEF u, v
<1>3. /\ u \o v \in Seq(Nat)
      /\ Len(u \o v) = Len(u) + Len(v)
      /\ \A i \in 1..(Len(u) + Len(v)) :
           (u \o v)[i] = IF i <= Len(u) THEN u[i] ELSE v[i - Len(u)]
  BY <1>1, <1>2, ConcatProperties
<1>4. ASSUME NEW i \in 1..(k - 1)
      PROVE  (u \o v)[i] = s[i]
  BY <1>1, <1>2, <1>3
<1>5. ASSUME NEW i \in k..(Len(s) - 1)
      PROVE  (u \o v)[i] = s[i + 1]
  <2>1. i - (k - 1) \in 1..(Len(s) - k) /\ k + (i - (k - 1)) = i + 1
    OBVIOUS
  <2>2. v[i - (k - 1)] = s[i + 1]
    BY <1>2, <2>1
  <2>3. i \in 1..(Len(u) + Len(v)) /\ ~(i <= Len(u)) /\ Len(u) = k - 1
    BY <1>1, <1>2
  <2>4. (u \o v)[i] = v[i - (k - 1)]
    BY <1>3, <2>3
  <2> QED BY <2>2, <2>4
<1>6. RemoveAt(s, k) = u \o v
  BY DEF RemoveAt, u, v
<1>7. Len(u) + Len(v) = Len(s) - 1
  BY <1>1, <1>2
<1> QED BY <1>3, <1>4, <1>5, <1>6, <1>7

\* Indices of a sequence that skips index k: p and q are where i and j came from.
LEMMA SkipIndex ==
  ASSUME NEW i \in Int, NEW j \in Int, NEW k \in Int, NEW p \in Int, NEW q \in Int,
         (i < k /\ p = i) \/ (i >= k /\ p = i + 1),
         (j < k /\ q = j) \/ (j >= k /\ q = j + 1)
  PROVE  (p = q => i = j) /\ (i < j => p < q)
<1>1. p = q => i = j
  OBVIOUS
<1>2. i < j => p < q
  OBVIOUS
<1> QED BY <1>1, <1>2

\* An index of the shorter sequence lies before the gap, or at or after it.
LEMMA IndexBefore ==
  ASSUME NEW n \in Nat, NEW k \in 1..n, NEW i \in 1..(n - 1), i < k
  PROVE  i \in 1..(k - 1) /\ i \in 1..n /\ i # k
OBVIOUS

LEMMA IndexAfter ==
  ASSUME NEW n \in Nat, NEW k \in 1..n, NEW i \in 1..(n - 1), ~(i < k)
  PROVE  i \in k..(n - 1) /\ i + 1 \in 1..n /\ i + 1 # k
OBVIOUS

\* An index of the longer sequence behind the gap moves up by one.
LEMMA IndexBehind ==
  ASSUME NEW n \in Nat, NEW k \in 1..n, NEW j \in 1..n, j > k
  PROVE  j - 1 \in 1..(n - 1) /\ ~(j - 1 < k) /\ j - 1 + 1 = j
OBVIOUS

\* A sequence that leaves out the element at index k of one without duplicates.
LEMMA LeaveOutFacts ==
  ASSUME NEW s \in Seq(Nat), IsInjective(s), NEW k \in 1..Len(s),
         NEW t \in Seq(Nat), Len(t) = Len(s) - 1,
         \A i \in 1..(k - 1) : t[i] = s[i],
         \A i \in k..(Len(s) - 1) : t[i] = s[i + 1]
  PROVE  /\ IsInjective(t)
         /\ Range(t) = Range(s) \ {s[k]}
         /\ \A a, b : Ahead(t, a, b) => Ahead(s, a, b)
<1> DEFINE Old(i) == IF i < k THEN i ELSE i + 1
<1>1. /\ DOMAIN s = 1..Len(s) /\ Len(s) \in Nat
      /\ DOMAIN t = 1..(Len(s) - 1)
  OBVIOUS
<1>2. ASSUME NEW i \in DOMAIN t
      PROVE  Old(i) \in DOMAIN s /\ Old(i) # k /\ t[i] = s[Old(i)]
  <2>1. i \in 1..(Len(s) - 1)
    BY <1>1
  <2>2. CASE i < k
    <3>1. Old(i) = i
      BY <2>2
    <3> HIDE DEF Old
    <3>2. i \in 1..(k - 1) /\ i \in 1..Len(s) /\ i # k
      BY <1>1, <2>1, <2>2, IndexBefore
    <3> QED BY <1>1, <3>1, <3>2
  <2>3. CASE ~(i < k)
    <3>1. Old(i) = i + 1
      BY <2>3
    <3> HIDE DEF Old
    <3>2. i \in k..(Len(s) - 1) /\ i + 1 \in 1..Len(s) /\ i + 1 # k
      BY <1>1, <2>1, <2>3, IndexAfter
    <3> QED BY <1>1, <3>1, <3>2
  <2> QED BY <2>2, <2>3
<1>3. ASSUME NEW i \in DOMAIN t, NEW j \in DOMAIN t
      PROVE  (Old(i) = Old(j) => i = j) /\ (i < j => Old(i) < Old(j))
  <2>1. i \in Int /\ j \in Int /\ k \in Int
    BY <1>1
  <2>2. (i < k /\ Old(i) = i) \/ (i >= k /\ Old(i) = i + 1)
    BY <2>1
  <2>3. (j < k /\ Old(j) = j) \/ (j >= k /\ Old(j) = j + 1)
    BY <2>1
  <2>4. Old(i) \in Int /\ Old(j) \in Int
    BY <2>1
  <2> HIDE DEF Old
  <2> QED BY <2>1, <2>2, <2>3, <2>4, SkipIndex
<1>4. ASSUME NEW j \in DOMAIN s, j # k
      PROVE  \E i \in DOMAIN t : Old(i) = j
  <2>1. CASE j < k
    BY <1>1, <2>1
  <2>2. CASE j > k
    <3>1. j - 1 \in DOMAIN t /\ ~(j - 1 < k) /\ j - 1 + 1 = j
      <4> HIDE DEF Old
      <4> QED BY <1>1, <2>2, IndexBehind
    <3> QED BY <3>1
  <2> QED BY <1>1, <1>4, <2>1, <2>2
<1> HIDE DEF Old
<1>5. IsInjective(t)
  BY <1>2, <1>3 DEF IsInjective
<1>6. Range(t) = Range(s) \ {s[k]}
  <2>1. k \in DOMAIN s
    BY <1>1
  <2>2. ASSUME NEW x \in Range(t) PROVE x \in Range(s) \ {s[k]}
    BY <1>2, <2>1 DEF Range, IsInjective
  <2>3. ASSUME NEW x \in Range(s) \ {s[k]} PROVE x \in Range(t)
    BY <1>2, <1>4 DEF Range
  <2> QED BY <2>2, <2>3
<1>7. ASSUME NEW a, NEW b, Ahead(t, a, b)
      PROVE  Ahead(s, a, b)
  <2>1. PICK m \in DOMAIN t, n \in DOMAIN t : m < n /\ t[m] = a /\ t[n] = b
    BY <1>7 DEF Ahead
  <2> QED BY <1>2, <1>3, <2>1 DEF Ahead
<1> QED BY <1>5, <1>6, <1>7

\* list.remove(pid), which the code calls only when the pid is in the queue.
LEMMA RemoveFirstFacts ==
  ASSUME NEW s \in Seq(Nat), IsInjective(s), NEW e
  PROVE  /\ RemoveFirst(s, e) \in Seq(Nat)
         /\ IsInjective(RemoveFirst(s, e))
         /\ Range(RemoveFirst(s, e)) = Range(s) \ {e}
         /\ \A a, b : Ahead(RemoveFirst(s, e), a, b) => Ahead(s, a, b)
<1>1. DOMAIN s = 1..Len(s) /\ Len(s) \in Nat
  OBVIOUS
<1>2. CASE e \notin Range(s)
  <2>1. RemoveFirst(s, e) = s
    BY <1>1, <1>2 DEF RemoveFirst, Range
  <2> QED BY <1>2, <2>1
<1>3. CASE e \in Range(s)
  <2>1. PICK k \in 1..Len(s) : s[k] = e
    BY <1>1, <1>3 DEF Range
  <2>2. {i \in 1..Len(s) : s[i] = e} = {k}
    BY <1>1, <2>1 DEF IsInjective
  <2>3. SelectInSeq(s, LAMBDA v : v = e) = k
    BY <2>1, <2>2 DEF SelectInSeq, Min
  <2>4. RemoveFirst(s, e) = RemoveAt(s, k)
    BY <1>1, <2>1, <2>3 DEF RemoveFirst
  <2> DEFINE t == RemoveAt(s, k)
  <2>5. /\ t \in Seq(Nat) /\ Len(t) = Len(s) - 1
        /\ \A i \in 1..(k - 1) : t[i] = s[i]
        /\ \A i \in k..(Len(s) - 1) : t[i] = s[i + 1]
    BY <2>1, RemoveAtFacts
  <2> HIDE DEF t
  <2>6. /\ IsInjective(t)
        /\ Range(t) = Range(s) \ {s[k]}
        /\ \A a, b : Ahead(t, a, b) => Ahead(s, a, b)
    BY <2>5, LeaveOutFacts
  <2> QED BY <2>1, <2>4, <2>5, <2>6 DEF t
<1> QED BY <1>2, <1>3

-----------------------------------------------------------------------------
\* What the sequence s holds is in t no further back than in s.
KeepsPlaces(s, t) == \A i \in DOMAIN s, j \in DOMAIN t : t[j] = s[i] => j <= i

\* Nobody falls back when a pid is appended ...
LEMMA AppendPlaces ==
  ASSUME NEW s \in Seq(Nat), IsInjective(s), NEW e \in Nat, e \notin Range(s)
  PROVE  KeepsPlaces(s, Append(s, e))
<1> DEFINE t == Append(s, e)
<1>1. /\ DOMAIN s = 1..Len(s) /\ Len(s) \in Nat
      /\ DOMAIN t = 1..(Len(s) + 1)
      /\ \A i \in 1..Len(s) : t[i] = s[i]
      /\ t[Len(s) + 1] = e
  OBVIOUS
<1> HIDE DEF t
<1>2. ASSUME NEW i \in DOMAIN s, NEW j \in DOMAIN t, t[j] = s[i]
      PROVE  j <= i
  <2>1. s[i] # e
    BY DEF Range
  <2>2. j \in DOMAIN s /\ t[j] = s[j]
    BY <1>1, <1>2, <2>1
  <2>3. i = j
    BY <1>2, <2>2 DEF IsInjective
  <2> QED BY <1>1, <2>3
<1> QED BY <1>2 DEF KeepsPlaces, t

\* ... or removed.
LEMMA RemovePlaces ==
  ASSUME NEW s \in Seq(Nat), IsInjective(s), NEW e
  PROVE  KeepsPlaces(s, RemoveFirst(s, e))
<1>1. DOMAIN s = 1..Len(s) /\ Len(s) \in Nat
  OBVIOUS
<1>2. CASE e \notin Range(s)
  <2>1. RemoveFirst(s, e) = s
    BY <1>1, <1>2 DEF RemoveFirst, Range
  <2> QED BY <1>1, <2>1 DEF KeepsPlaces, IsInjective
<1>3. CASE e \in Range(s)
  <2>1. PICK k \in 1..Len(s) : s[k] = e
    BY <1>1, <1>3 DEF Range
  <2>2. {i \in 1..Len(s) : s[i] = e} = {k}
    BY <1>1, <2>1 DEF IsInjective
  <2>3. SelectInSeq(s, LAMBDA v : v = e) = k
    BY <2>1, <2>2 DEF SelectInSeq, Min
  <2>4. RemoveFirst(s, e) = RemoveAt(s, k)
    BY <1>1, <2>1, <2>3 DEF RemoveFirst
  <2> DEFINE t == RemoveAt(s, k)
  <2>5. /\ DOMAIN t = 1..(Len(s) - 1)
        /\ \A i \in 1..(k - 1) : t[i] = s[i]
        /\ \A i \in k..(Len(s) - 1) : t[i] = s[i + 1]
    BY <1>1, <2>1, RemoveAtFacts
  <2> HIDE DEF t
  <2>6. ASSUME NEW i \in DOMAIN s, NEW j \in DOMAIN t, t[j] = s[i]
        PROVE  j <= i
    <3>1. CASE j < k
      <4>1. j \in DOMAIN s /\ t[j] = s[j]
        BY <1>1, <2>1, <2>5, <3>1
      <4>2. i = j
        BY <2>6, <4>1 DEF IsInjective
      <4> QED BY <1>1, <4>2
    <3>2. CASE ~(j < k)
      <4>1. j + 1 \in DOMAIN s /\ t[j] = s[j + 1] /\ j \in Nat
        BY <1>1, <2>1, <2>5, <3>2
      <4>2. i = j + 1
        BY <2>6, <4>1 DEF IsInjective
      <4> QED BY <4>1, <4>2
    <3> QED BY <3>1, <3>2
  <2> QED BY <2>4, <2>6 DEF KeepsPlaces, t
<1> QED BY <1>2, <1>3

\* When the head goes to the back, everybody else moves up.
LEMMA TurnPlaces ==
  ASSUME NEW s \in Seq(Nat), IsInjective(s), s # <<>>,
         NEW i \in DOMAIN s, i # 1,
         NEW j \in DOMAIN Append(Tail(s), Head(s)), Append(Tail(s), Head(s))[j] = s[i]
  PROVE  j < i
<1> DEFINE t == Append(Tail(s), Head(s))
<1>1. PICK n \in Nat : Len(s) = n + 1 /\ DOMAIN s = 1..(n + 1)
  <2>1. Len(s) \in Nat \ {0} /\ DOMAIN s = 1..Len(s)
    OBVIOUS
  <2>2. Len(s) - 1 \in Nat /\ Len(s) = (Len(s) - 1) + 1
    BY <2>1
  <2> QED BY <2>1, <2>2
<1>2. /\ Tail(s) \in Seq(Nat) /\ Len(Tail(s)) = n /\ Head(s) = s[1]
      /\ \A k \in 1..n : Tail(s)[k] = s[k + 1]
  BY <1>1
<1>3. /\ DOMAIN t = 1..(n + 1) /\ t[n + 1] = s[1]
      /\ \A k \in 1..n : t[k] = Tail(s)[k]
  BY <1>2
<1>4. j \in 1..(n + 1) /\ t[j] = s[i]
  BY <1>3
<1> HIDE DEF t
<1>5. CASE j = n + 1
  BY <1>1, <1>3, <1>4, <1>5 DEF IsInjective
<1>6. CASE j \in 1..n
  <2>1. s[j + 1] = s[i] /\ j + 1 \in DOMAIN s
    BY <1>1, <1>2, <1>3, <1>4, <1>6
  <2>2. j + 1 = i
    BY <2>1 DEF IsInjective
  <2> QED BY <1>6, <2>2
<1> QED BY <1>4, <1>5, <1>6

-----------------------------------------------------------------------------
(***************************************************************************)
(* Every update of the process table preserves ProcessInv, and lets no     *)
(* process in the ready queue overtake another.                            *)
(***************************************************************************)
ProcessInv == ProcessTypeOK /\ ReadyQueueExact /\ BlockedExact

\* An update that turns the queue s into t without reordering it keeps the order.
LEMMA OrderFacts ==
  ASSUME ready_queue \in Seq(Nat), IsInjective(ready_queue),
         \A a, b \in Range(ready_queue) :
           Ahead(ready_queue', a, b) => Ahead(ready_queue, a, b)
  PROVE  KeepsOrder
BY AheadAsymmetric DEF KeepsOrder

\* The initial process table.
LEMMA InitFacts ==
  ASSUME ProcessInit
  PROVE  ProcessInv
<1> USE DEF ProcessInit, KERNEL, INIT, FIRST_PID
<1>1. ProcessTypeOK
  BY DEF ProcessTypeOK, ProcessState
<1>2. ReadyQueueExact
  <2>1. Range(ready_queue) = {1}
    BY DEF Range
  <2>2. {pid \in DOMAIN processes : processes[pid] = "READY"} = {1}
    OBVIOUS
  <2> QED BY <2>1, <2>2 DEF ReadyQueueExact, IsInjective
<1>3. BlockedExact
  BY DEF BlockedExact
<1> QED BY <1>1, <1>2, <1>3 DEF ProcessInv

\* One pass of the scheduler.
LEMMA ScheduleFacts ==
  ASSUME ProcessInv, run_scheduler
  PROVE  ProcessInv' /\ KeepsOrder
<1> DEFINE pid == Head(ready_queue)
           rest == Tail(ready_queue)
<1>1. /\ rest \in Seq(Nat)
      /\ IsInjective(rest)
      /\ pid \in Range(ready_queue)
      /\ Range(rest) = Range(ready_queue) \ {pid}
      /\ \A a, b : Ahead(rest, a, b) => Ahead(ready_queue, a, b)
  BY TailFacts DEF ProcessInv, ProcessTypeOK, ReadyQueueExact, run_scheduler
<1>2. pid \in DOMAIN processes /\ processes[pid] = "READY" /\ pid \in Nat
  BY <1>1 DEF ProcessInv, ProcessTypeOK, ReadyQueueExact
<1>3. /\ processes' = processes
      /\ ready_queue' = Append(rest, pid)
      /\ UNCHANGED <<blocked_processes, next_pid>>
  BY <1>2 DEF run_scheduler, Exists, ProcessInv, ProcessTypeOK
<1> HIDE DEF pid, rest
<1>4. /\ ready_queue' \in Seq(Nat)
      /\ IsInjective(ready_queue')
      /\ Range(ready_queue') = Range(ready_queue)
      /\ \A a, b : Ahead(ready_queue', a, b) /\ b # pid => Ahead(rest, a, b)
  <2>1. pid \notin Range(rest)
    BY <1>1
  <2>2. /\ Append(rest, pid) \in Seq(Nat)
        /\ IsInjective(Append(rest, pid))
        /\ Range(Append(rest, pid)) = Range(rest) \cup {pid}
        /\ \A a, b : Ahead(Append(rest, pid), a, b) /\ b # pid => Ahead(rest, a, b)
    BY <1>1, <1>2, <2>1, AppendFacts
  <2>3. Range(rest) \cup {pid} = Range(ready_queue)
    BY <1>1
  <2> QED BY <1>3, <2>2, <2>3
<1>5. ProcessInv'
  BY <1>3, <1>4 DEF ProcessInv, ProcessTypeOK, ReadyQueueExact, BlockedExact
<1>6. KeepsOrder
  <2> SUFFICES ASSUME NEW p \in Range(ready_queue), NEW q \in Range(ready_queue),
                      Ahead(ready_queue, p, q), Ahead(ready_queue', q, p), p # pid
               PROVE  FALSE
    BY DEF KeepsOrder, pid
  <2>1. Ahead(ready_queue, q, p)
    BY <1>1, <1>4
  <2> QED BY <2>1, AheadAsymmetric DEF ProcessInv, ProcessTypeOK, ReadyQueueExact
<1> QED BY <1>5, <1>6

\* process_create.
LEMMA AddFacts ==
  ASSUME ProcessInv, AddProcess
  PROVE  ProcessInv' /\ KeepsOrder
<1>1. next_pid \in Nat /\ next_pid \notin DOMAIN processes
  BY DEF ProcessInv, ProcessTypeOK
<1>2. next_pid \notin Range(ready_queue)
  BY <1>1 DEF ProcessInv, ReadyQueueExact
<1>3. /\ ready_queue' \in Seq(Nat)
      /\ IsInjective(ready_queue')
      /\ Range(ready_queue') = Range(ready_queue) \cup {next_pid}
      /\ \A a, b : Ahead(ready_queue', a, b) /\ b # next_pid => Ahead(ready_queue, a, b)
  BY <1>1, <1>2, AppendFacts DEF AddProcess, ProcessInv, ProcessTypeOK, ReadyQueueExact
<1>4. /\ DOMAIN processes' = DOMAIN processes \cup {next_pid}
      /\ processes'[next_pid] = "READY"
      /\ \A pid \in DOMAIN processes : processes'[pid] = processes[pid]
      /\ processes' \in [DOMAIN processes' -> ProcessState]
  BY <1>1 DEF AddProcess, Put, ProcessInv, ProcessTypeOK, ProcessState
<1>5. ProcessTypeOK'
  <2>1. /\ next_pid' = next_pid + 1 /\ next_pid' \in Nat /\ next_pid' >= FIRST_PID
        /\ blocked_processes' = blocked_processes
    BY <1>1 DEF AddProcess, ProcessInv, ProcessTypeOK, FIRST_PID
  <2>2. DOMAIN processes' \subseteq 0..(next_pid' - 1)
    BY <1>1, <1>4, <2>1 DEF ProcessInv, ProcessTypeOK
  <2>3. {KERNEL, INIT} \subseteq DOMAIN processes'
    BY <1>4 DEF ProcessInv, ProcessTypeOK
  <2> QED BY <1>3, <1>4, <2>1, <2>2, <2>3 DEF ProcessInv, ProcessTypeOK
<1>6. ReadyQueueExact'
  BY <1>3, <1>4 DEF ProcessInv, ReadyQueueExact
<1>7. BlockedExact'
  BY <1>1, <1>4 DEF AddProcess, ProcessInv, BlockedExact
<1>8. KeepsOrder
  BY <1>2, <1>3, OrderFacts DEF ProcessInv, ProcessTypeOK, ReadyQueueExact
<1> QED BY <1>5, <1>6, <1>7, <1>8 DEF ProcessInv

\* process_create with a priority or a policy that is none.
LEMMA RejectFacts ==
  ASSUME ProcessInv, RejectProcess
  PROVE  ProcessInv' /\ KeepsOrder
<1>1. UNCHANGED <<processes, ready_queue, blocked_processes>> /\ next_pid' = next_pid + 1
  BY DEF RejectProcess
<1>2. ProcessInv'
  BY <1>1 DEF ProcessInv, ProcessTypeOK, ReadyQueueExact, BlockedExact, FIRST_PID
<1>3. KeepsOrder
  BY <1>1, OrderFacts DEF ProcessInv, ProcessTypeOK, ReadyQueueExact
<1> QED BY <1>2, <1>3

\* What list.remove does to the ready queue.
LEMMA UnqueueFacts ==
  ASSUME ProcessInv, NEW pid, Unqueue(pid)
  PROVE  /\ ready_queue' \in Seq(Nat)
         /\ IsInjective(ready_queue')
         /\ Range(ready_queue') = Range(ready_queue) \ {pid}
         /\ KeepsOrder
<1>1. /\ ready_queue' \in Seq(Nat)
      /\ IsInjective(ready_queue')
      /\ Range(ready_queue') = Range(ready_queue) \ {pid}
      /\ \A a, b : Ahead(ready_queue', a, b) => Ahead(ready_queue, a, b)
  BY RemoveFirstFacts DEF Unqueue, ProcessInv, ProcessTypeOK, ReadyQueueExact
<1> QED BY <1>1, OrderFacts DEF ProcessInv, ProcessTypeOK, ReadyQueueExact

\* process_exit.
LEMMA TerminateFacts ==
  ASSUME ProcessInv, NEW pid, Exists(pid), TerminateProcess(pid)
  PROVE  ProcessInv' /\ KeepsOrder
<1>1. /\ ready_queue' \in Seq(Nat)
      /\ IsInjective(ready_queue')
      /\ Range(ready_queue') = Range(ready_queue) \ {pid}
      /\ KeepsOrder
  BY UnqueueFacts DEF TerminateProcess
<1>2. /\ processes' \in [DOMAIN processes -> ProcessState]
      /\ processes'[pid] = "TERMINATED"
      /\ \A other \in DOMAIN processes \ {pid} : processes'[other] = processes[other]
      /\ next_pid' = next_pid
  BY DEF TerminateProcess, Exists, ProcessInv, ProcessTypeOK, ProcessState
<1>3. /\ DOMAIN blocked_processes' = DOMAIN blocked_processes \ {pid}
      /\ blocked_processes' \in [DOMAIN blocked_processes' -> Reason]
  BY DEF TerminateProcess, Unblock, Del, Restrict, ProcessInv, ProcessTypeOK
<1>4. ProcessTypeOK'
  BY <1>1, <1>2, <1>3 DEF ProcessInv, ProcessTypeOK
<1>5. ReadyQueueExact'
  BY <1>1, <1>2 DEF ProcessInv, ReadyQueueExact
<1>6. BlockedExact'
  BY <1>2, <1>3 DEF ProcessInv, BlockedExact
<1> QED BY <1>1, <1>4, <1>5, <1>6 DEF ProcessInv

\* process_wait and ipc_receive.
LEMMA BlockFacts ==
  ASSUME ProcessInv, NEW pid, Exists(pid), NEW reason \in Reason,
         BlockProcess(pid, reason)
  PROVE  ProcessInv' /\ KeepsOrder
<1>1. /\ ready_queue' \in Seq(Nat)
      /\ IsInjective(ready_queue')
      /\ Range(ready_queue') = Range(ready_queue) \ {pid}
      /\ KeepsOrder
  BY UnqueueFacts DEF BlockProcess
<1>2. /\ processes' \in [DOMAIN processes -> ProcessState]
      /\ processes'[pid] = "BLOCKED"
      /\ \A other \in DOMAIN processes \ {pid} : processes'[other] = processes[other]
      /\ next_pid' = next_pid
  BY DEF BlockProcess, Exists, ProcessInv, ProcessTypeOK, ProcessState
<1>3. /\ DOMAIN blocked_processes' = DOMAIN blocked_processes \cup {pid}
      /\ blocked_processes' \in [DOMAIN blocked_processes' -> Reason]
  BY DEF BlockProcess, Put, ProcessInv, ProcessTypeOK
<1>4. ProcessTypeOK'
  BY <1>1, <1>2, <1>3 DEF ProcessInv, ProcessTypeOK
<1>5. ReadyQueueExact'
  BY <1>1, <1>2 DEF ProcessInv, ReadyQueueExact
<1>6. BlockedExact'
  BY <1>2, <1>3 DEF ProcessInv, BlockedExact, Exists
<1> QED BY <1>1, <1>4, <1>5, <1>6 DEF ProcessInv

\* ipc_send.
LEMMA WakeFacts ==
  ASSUME ProcessInv, NEW pid, WakeProcess(pid)
  PROVE  ProcessInv' /\ KeepsOrder
<1>1. CASE ~AwaitsMail(pid)
  <2>1. UNCHANGED <<processes, ready_queue, blocked_processes, next_pid>>
    BY <1>1 DEF WakeProcess
  <2>2. ProcessInv'
    BY <2>1 DEF ProcessInv, ProcessTypeOK, ReadyQueueExact, BlockedExact
  <2>3. KeepsOrder
    BY <2>1, OrderFacts DEF ProcessInv, ProcessTypeOK, ReadyQueueExact
  <2> QED BY <2>2, <2>3
<1>2. CASE AwaitsMail(pid)
  <2>1. /\ pid \in DOMAIN processes
        /\ processes[pid] = "BLOCKED"
        /\ pid \in Nat
        /\ pid \notin Range(ready_queue)
    BY <1>2 DEF AwaitsMail, ProcessInv, ProcessTypeOK, ReadyQueueExact, BlockedExact
  <2>2. /\ ready_queue' \in Seq(Nat)
        /\ IsInjective(ready_queue')
        /\ Range(ready_queue') = Range(ready_queue) \cup {pid}
        /\ \A a, b : Ahead(ready_queue', a, b) /\ b # pid => Ahead(ready_queue, a, b)
    BY <1>2, <2>1, AppendFacts
       DEF WakeProcess, ProcessInv, ProcessTypeOK, ReadyQueueExact
  <2>3. /\ processes' \in [DOMAIN processes -> ProcessState]
        /\ processes'[pid] = "READY"
        /\ \A other \in DOMAIN processes \ {pid} : processes'[other] = processes[other]
        /\ next_pid' = next_pid
    BY <1>2, <2>1 DEF WakeProcess, ProcessInv, ProcessTypeOK, ProcessState
  <2>4. /\ DOMAIN blocked_processes' = DOMAIN blocked_processes \ {pid}
        /\ blocked_processes' \in [DOMAIN blocked_processes' -> Reason]
    BY <1>2 DEF WakeProcess, Unblock, Del, Restrict, ProcessInv, ProcessTypeOK
  <2>5. ProcessTypeOK'
    BY <2>2, <2>3, <2>4 DEF ProcessInv, ProcessTypeOK
  <2>6. ReadyQueueExact'
    BY <2>1, <2>2, <2>3 DEF ProcessInv, ReadyQueueExact
  <2>7. BlockedExact'
    BY <2>3, <2>4 DEF ProcessInv, BlockedExact
  <2>8. KeepsOrder
    BY <2>1, <2>2, OrderFacts DEF ProcessInv, ProcessTypeOK, ReadyQueueExact
  <2> QED BY <2>5, <2>6, <2>7, <2>8 DEF ProcessInv
<1> QED BY <1>1, <1>2

\* A step that leaves the process table alone.
LEMMA ProcessUnchangedFacts ==
  ASSUME ProcessInv, UNCHANGED procVars
  PROVE  ProcessInv' /\ KeepsOrder
<1>1. UNCHANGED <<processes, ready_queue, blocked_processes, next_pid>>
  BY DEF procVars
<1>2. ProcessInv'
  BY <1>1 DEF ProcessInv, ProcessTypeOK, ReadyQueueExact, BlockedExact
<1>3. KeepsOrder
  BY <1>1, OrderFacts DEF ProcessInv, ProcessTypeOK, ReadyQueueExact
<1> QED BY <1>2, <1>3
=============================================================================
