------------------------- MODULE NativeParts_proofs -------------------------
(***************************************************************************)
(* Proofs about the parts of the native kernel beside its scheduler.       *)
(* MemoryRegion, for any number of regions, any capacities and any width   *)
(* of std::size_t: the segments stay apart as long as m_used + size has    *)
(* not overflowed, and no buffer has two owners.  SyscallDispatcher, for   *)
(* any number of threads: no message reaches a process that has exited.    *)
(***************************************************************************)
EXTENDS NativeMemory, NativeDispatcher, TLAPS

Segment == [address : Size, size : Size]

\* The arithmetic of size_t stays in its range, and is exact where nothing overflows.
LEMMA SizeArithmetic ==
  ASSUME NEW a \in Int
  PROVE  /\ a % 2^Width \in Size
         /\ a \in Size => a % 2^Width = a
<1>1. PICK n \in Nat \ {0} : n = 2^Width
  BY NativeMemoryAssumption
<1>2. a % n \in 0..(n - 1)
  BY <1>1
<1>3. a \in 0..(n - 1) => a % n = a
  BY <1>1
<1> QED BY <1>1, <1>2, <1>3 DEF Size

\* The values of a size_t are natural numbers.
LEMMA SizeIsNat == Size \subseteq Nat /\ 0 \in Size
BY NativeMemoryAssumption DEF Size

\* So are the address and the size of a segment.
LEMMA SegmentIsNat ==
  ASSUME NEW segments \in Seq(Segment), NEW i \in 1..Len(segments)
  PROVE  segments[i].address \in Nat /\ segments[i].size \in Nat
<1>1. segments[i] \in Segment
  OBVIOUS
<1> QED BY <1>1, SizeIsNat DEF Segment

\* What RemoveAt of the community modules leaves of a sequence.
LEMMA RemoveAtSequence ==
  ASSUME NEW T, NEW s \in Seq(T), NEW i \in 1..Len(s)
  PROVE  /\ RemoveAt(s, i) \in Seq(T)
         /\ Len(RemoveAt(s, i)) = Len(s) - 1
         /\ \A j \in 1..(Len(s) - 1) :
              RemoveAt(s, i)[j] = IF j < i THEN s[j] ELSE s[j + 1]
<1> DEFINE front == SubSeq(s, 1, i - 1)
           back  == SubSeq(s, i + 1, Len(s))
<1>1. front \in Seq(T) /\ Len(front) = i - 1 /\ \A j \in 1..(i - 1) : front[j] = s[j]
  OBVIOUS
<1>2. back \in Seq(T) /\ Len(back) = Len(s) - i /\ \A j \in 1..(Len(s) - i) : back[j] = s[i + j]
  OBVIOUS
<1>3. RemoveAt(s, i) = front \o back
  BY DEF RemoveAt
<1> HIDE DEF front, back
<1>4. front \o back \in Seq(T) /\ Len(front \o back) = Len(s) - 1
  BY <1>1, <1>2
<1>5. ASSUME NEW j \in 1..(Len(s) - 1), j < i
      PROVE  (front \o back)[j] = s[j]
  BY <1>1, <1>2, <1>5
<1>6. ASSUME NEW j \in 1..(Len(s) - 1), ~(j < i)
      PROVE  (front \o back)[j] = s[j + 1]
  <2>1. j - (i - 1) \in 1..(Len(s) - i) /\ i + (j - (i - 1)) = j + 1
    BY <1>6
  <2>2. (front \o back)[j] = back[j - (i - 1)]
    BY <1>1, <1>2, <1>6
  <2> QED BY <1>2, <2>1, <2>2
<1> QED BY <1>3, <1>4, <1>5, <1>6

-----------------------------------------------------------------------------
(***************************************************************************)
(* Type correctness.                                                       *)
(***************************************************************************)

\* The initial state is well typed.
LEMMA MemoryTypeStart == NativeMemoryInit => NativeMemoryTypeOK
BY SizeIsNat DEF NativeMemoryInit, NativeMemoryTypeOK

\* Every operation keeps the types.
LEMMA MemoryTypeStep == NativeMemoryTypeOK /\ [NativeMemoryNext]_memoryVars => NativeMemoryTypeOK'
<1> SUFFICES ASSUME NativeMemoryTypeOK, [NativeMemoryNext]_memoryVars
             PROVE  NativeMemoryTypeOK'
  OBVIOUS
<1> DEFINE Sequences == Seq(Segment)
<1> USE DEF NativeMemoryTypeOK
<1>0. /\ m_base \in [Regions -> Buffers \cup {NoBuffer}]
      /\ m_capacity \in [Regions -> Size] /\ m_used \in [Regions -> Size]
      /\ m_segments \in [Regions -> Sequences] /\ wrapped \subseteq Regions
      /\ <<>> \in Sequences /\ 0 \in Size
  <2>1. <<>> \in Sequences /\ 0 \in Size
    BY SizeIsNat
  <2>2. Sequences = Seq([address : Size, size : Size])
    BY DEF Segment
  <2> HIDE DEF Sequences
  <2> QED BY <2>1, <2>2
<1> SUFFICES /\ m_base' \in [Regions -> Buffers \cup {NoBuffer}]
             /\ m_capacity' \in [Regions -> Size] /\ m_used' \in [Regions -> Size]
             /\ m_segments' \in [Regions -> Sequences] /\ wrapped' \subseteq Regions
  BY DEF Segment
<1> DEFINE TypesNext == /\ m_base' \in [Regions -> Buffers \cup {NoBuffer}]
                        /\ m_capacity' \in [Regions -> Size] /\ m_used' \in [Regions -> Size]
                        /\ m_segments' \in [Regions -> Sequences] /\ wrapped' \subseteq Regions
<1>6. ASSUME NEW r \in Regions
      PROVE  m_segments[r] \in Seq(Segment)
  BY <1>0
<1> HIDE DEF NativeMemoryTypeOK, Sequences
<1>1. CASE UNCHANGED memoryVars
  BY <1>0, <1>1 DEF memoryVars
<1>2. ASSUME NEW r \in Regions, NEW capacity \in Capacities, construct(r, capacity)
      PROVE  TypesNext
  <2>1. capacity \in Size
    BY NativeMemoryAssumption DEF Size
  <2>2. m_base' \in [Regions -> Buffers \cup {NoBuffer}]
    <3>1. CASE capacity = 0
      BY <1>0, <1>2, <3>1 DEF construct
    <3>2. CASE capacity # 0
      BY <1>0, <1>2, <3>2 DEF construct
    <3> QED BY <3>1, <3>2
  <2> QED BY <1>0, <1>2, <2>1, <2>2 DEF construct
<1>3. ASSUME NEW r \in Regions, NEW other \in Regions, move(r, other)
      PROVE  TypesNext
  <2>1. wrapped' \subseteq Regions
    BY <1>0, <1>3 DEF move
  <2> QED BY <1>0, <1>3, <2>1 DEF move, ClearBase
<1>4. ASSUME NEW r \in Regions, NEW size \in Size, allocate(r, size)
      PROVE  TypesNext
  <2>1. m_used[r] \in Size
    BY <1>0
  <2>6. m_used[r] + size \in Int
    <3>1. m_used[r] \in Nat /\ size \in Nat
      BY <2>1, SizeIsNat
    <3> QED BY <3>1
  <2>2. Plus(m_used[r], size) \in Size
    BY <2>6, SizeArithmetic DEF Plus
  <2>3. [address |-> m_used[r], size |-> size] \in Segment
    BY <2>1 DEF Segment
  <2>4. Append(m_segments[r], [address |-> m_used[r], size |-> size]) \in Sequences
    BY <1>6, <2>3 DEF Sequences
  <2>5. wrapped' \subseteq Regions
    BY <1>0, <1>4 DEF allocate
  <2> QED BY <1>0, <1>4, <2>2, <2>4, <2>5 DEF allocate
<1>5. ASSUME NEW r \in Regions, NEW i \in DOMAIN m_segments[r], free(r, i)
      PROVE  TypesNext
  <2>1. i \in 1..Len(m_segments[r])
    BY <1>6
  <2>2. RemoveAt(m_segments[r], i) \in Sequences
    BY <1>6, <2>1, RemoveAtSequence DEF Sequences
  <2>3. m_used[r] - m_segments[r][i].size \in Int
    <3>1. m_used[r] \in Nat
      BY <1>0, SizeIsNat
    <3>2. m_segments[r][i].size \in Nat
      BY <1>6, <2>1, SegmentIsNat
    <3> QED BY <3>1, <3>2
  <2>4. Minus(m_used[r], m_segments[r][i].size) \in Size
    BY <2>3, SizeArithmetic DEF Minus
  <2>5. m_used' \in [Regions -> Size]
    BY <1>0, <1>5, <2>4 DEF free
  <2> QED BY <1>0, <1>5, <2>2, <2>5 DEF free
<1> QED BY <1>1, <1>2, <1>3, <1>4, <1>5 DEF NativeMemoryNext

\* The fields of every region keep their types, and size_t its range.
THEOREM MemoryTypeCorrect == NativeMemorySpec => []NativeMemoryTypeOK
BY MemoryTypeStart, MemoryTypeStep, PTL DEF NativeMemorySpec

-----------------------------------------------------------------------------
(***************************************************************************)
(* The segments of one region.                                             *)
(***************************************************************************)

Sound(used, capacity, segments) ==
  /\ used <= capacity
  /\ \A i \in 1..Len(segments) :
       /\ segments[i].address + segments[i].size <= used
       /\ \A j \in 1..Len(segments) : i < j =>
            segments[i].address + segments[i].size <= segments[j].address

\* SegmentsDisjoint says that each region is sound.
LEMMA SoundRegions ==
  ASSUME NativeMemoryTypeOK
  PROVE  SegmentsDisjoint <=>
           \A r \in Regions \ wrapped : Sound(m_used[r], m_capacity[r], m_segments[r])
<1>1. \A r \in Regions : DOMAIN m_segments[r] = 1..Len(m_segments[r])
  BY DEF NativeMemoryTypeOK
<1> QED BY <1>1 DEF SegmentsDisjoint, Sound

\* A segment put behind the used part.
LEMMA SoundAppend ==
  ASSUME NEW used \in Nat, NEW capacity \in Nat, NEW size \in Nat,
         NEW segments \in Seq(Segment), Sound(used, capacity, segments),
         used + size <= capacity
  PROVE  Sound(used + size, capacity,
               Append(segments, [address |-> used, size |-> size]))
<1> DEFINE new == [address |-> used, size |-> size]
           longer == Append(segments, new)
<1>1. Len(longer) = Len(segments) + 1 /\ Len(segments) \in Nat
  OBVIOUS
<1>2. \A i \in 1..Len(segments) : longer[i] = segments[i]
  OBVIOUS
<1>3. longer[Len(segments) + 1] = new
  OBVIOUS
<1>4. \A i \in 1..Len(segments) : segments[i].address \in Nat /\ segments[i].size \in Nat
  BY SegmentIsNat
<1> HIDE DEF longer
<1>5. ASSUME NEW i \in 1..Len(segments)
      PROVE  /\ longer[i].address + longer[i].size <= used + size
             /\ \A j \in 1..Len(longer) : i < j =>
                  longer[i].address + longer[i].size <= longer[j].address
  <2>1. longer[i].address + longer[i].size <= used
    BY <1>2, <1>5 DEF Sound
  <2>2. longer[i].address \in Nat /\ longer[i].size \in Nat
    BY <1>2, <1>4
  <2>3. ASSUME NEW j \in 1..Len(segments), i < j
        PROVE  longer[i].address + longer[i].size <= longer[j].address
    BY <1>2, <2>3 DEF Sound
  <2>4. longer[i].address + longer[i].size <= used + size
    BY <2>1, <2>2
  <2>5. longer[i].address + longer[i].size <= longer[Len(segments) + 1].address
    BY <1>3, <2>1
  <2>6. \A j \in 1..Len(longer) : j \in 1..Len(segments) \/ j = Len(segments) + 1
    BY <1>1
  <2> QED BY <2>3, <2>4, <2>5, <2>6
<1>6. ASSUME NEW i \in 1..Len(longer), i \notin 1..Len(segments)
      PROVE  /\ longer[i].address + longer[i].size <= used + size
             /\ \A j \in 1..Len(longer) : ~(i < j)
  <2>1. i = Len(segments) + 1
    BY <1>1, <1>6
  <2> QED BY <1>1, <1>3, <2>1
<1>7. \A i \in 1..Len(longer) :
        /\ longer[i].address + longer[i].size <= used + size
        /\ \A j \in 1..Len(longer) : i < j =>
             longer[i].address + longer[i].size <= longer[j].address
  BY <1>5, <1>6
<1>8. Sound(used + size, capacity, longer)
  BY <1>7 DEF Sound
<1> QED BY <1>8 DEF longer

\* A segment taken out, whose space comes back when it was the last.
LEMMA SoundRemove ==
  ASSUME NEW used \in Nat, NEW capacity \in Nat, NEW segments \in Seq(Segment),
         Sound(used, capacity, segments), NEW i \in 1..Len(segments),
         NEW left \in Nat,
         left = used \/ (i = Len(segments) /\ left = used - segments[i].size)
  PROVE  Sound(left, capacity, RemoveAt(segments, i))
<1> DEFINE shorter == RemoveAt(segments, i)
           Old(j) == IF j < i THEN j ELSE j + 1
<1>1. /\ Len(shorter) = Len(segments) - 1
      /\ \A j \in 1..(Len(segments) - 1) :
           shorter[j] = IF j < i THEN segments[j] ELSE segments[j + 1]
  BY RemoveAtSequence
<1> HIDE DEF shorter, Old
<1>2. \A j \in 1..Len(segments) : segments[j].address \in Nat /\ segments[j].size \in Nat
  BY SegmentIsNat
<1>3. \A j \in 1..Len(shorter) :
        Old(j) \in 1..Len(segments) /\ Old(j) # i /\ shorter[j] = segments[Old(j)]
  BY <1>1 DEF Old
<1>4. \A j, k \in 1..Len(shorter) : j < k => Old(j) < Old(k)
  BY <1>1 DEF Old
<1>5. left <= capacity
  BY <1>2 DEF Sound
<1>6. ASSUME NEW j \in 1..Len(shorter)
      PROVE  shorter[j].address + shorter[j].size <= left
  <2>1. CASE left = used
    BY <1>3, <2>1 DEF Sound
  <2>2. CASE i = Len(segments) /\ left = used - segments[i].size
    <3>1. Old(j) < i /\ Old(j) \in 1..Len(segments) /\ shorter[j] = segments[Old(j)]
      BY <1>3, <2>2
    <3>4. segments[Old(j)].address \in Nat /\ segments[Old(j)].size \in Nat
      BY <1>2, <3>1
    <3>5. segments[i].address \in Nat /\ segments[i].size \in Nat
      BY <1>2
    <3>2. segments[Old(j)].address + segments[Old(j)].size <= segments[i].address
      BY <3>1 DEF Sound
    <3>3. segments[i].address + segments[i].size <= used
      BY DEF Sound
    <3>6. segments[Old(j)].address + segments[Old(j)].size <= left
      <4>1. PICK a, b \in Nat : a = segments[Old(j)].address /\ b = segments[Old(j)].size
        BY <3>4
      <4>2. PICK c, d \in Nat : c = segments[i].address /\ d = segments[i].size
        BY <3>5
      <4>3. a + b <= c
        BY <3>2, <4>1, <4>2
      <4>4. c + d <= used
        BY <3>3, <4>2
      <4>5. left = used - d
        BY <2>2, <4>2
      <4>6. a + b <= left
        BY <4>3, <4>4, <4>5
      <4> QED BY <4>1, <4>6
    <3> QED BY <3>1, <3>6
  <2> QED BY <2>1, <2>2
<1>7. ASSUME NEW j \in 1..Len(shorter), NEW k \in 1..Len(shorter), j < k
      PROVE  shorter[j].address + shorter[j].size <= shorter[k].address
  <2>1. Old(j) < Old(k)
    BY <1>4, <1>7
  <2> QED BY <1>3, <2>1 DEF Sound
<1>8. Sound(left, capacity, shorter)
  BY <1>5, <1>6, <1>7 DEF Sound
<1> QED BY <1>8 DEF shorter

\* Every operation keeps the segments apart in the regions that have not overflowed.
LEMMA DisjointStep ==
  NativeMemoryTypeOK /\ NativeMemoryTypeOK' /\ SegmentsDisjoint /\ [NativeMemoryNext]_memoryVars
    => SegmentsDisjoint'
<1> DEFINE Fine(r) == Sound(m_used[r], m_capacity[r], m_segments[r])
<1> SUFFICES ASSUME NativeMemoryTypeOK, NativeMemoryTypeOK', SegmentsDisjoint,
                    [NativeMemoryNext]_memoryVars
             PROVE  SegmentsDisjoint'
  OBVIOUS
<1>1. \A r \in Regions \ wrapped : Fine(r)
  BY SoundRegions
<1> SUFFICES ASSUME NEW r \in Regions, r \notin wrapped'
             PROVE  Sound(m_used'[r], m_capacity'[r], m_segments'[r])
  <2>1. \A s \in Regions : DOMAIN m_segments'[s] = 1..Len(m_segments'[s])
    BY DEF NativeMemoryTypeOK
  <2> QED BY <2>1 DEF SegmentsDisjoint, Sound
<1>2. /\ m_used[r] \in Nat /\ m_capacity[r] \in Nat
      /\ m_segments[r] \in Seq(Segment)
  BY SizeIsNat DEF NativeMemoryTypeOK, Segment
<1>3. Sound(0, 0, <<>>) /\ \A capacity \in Nat : Sound(0, capacity, <<>>)
  BY DEF Sound
<1>4. CASE UNCHANGED memoryVars
  BY <1>1, <1>4 DEF memoryVars
<1>5. ASSUME NEW s \in Regions, NEW capacity \in Capacities, construct(s, capacity)
      PROVE  Sound(m_used'[r], m_capacity'[r], m_segments'[r])
  <2>1. CASE s = r
    <3>1. m_used'[r] = 0 /\ m_capacity'[r] = capacity /\ m_segments'[r] = <<>>
      BY <1>5, <2>1 DEF construct, NativeMemoryTypeOK
    <3>2. capacity \in Nat
      BY NativeMemoryAssumption
    <3> QED BY <1>3, <3>1, <3>2
  <2>2. CASE s # r
    BY <1>1, <1>5, <2>2 DEF construct, NativeMemoryTypeOK
  <2> QED BY <2>1, <2>2
<1>6. ASSUME NEW s \in Regions, NEW other \in Regions, move(s, other)
      PROVE  Sound(m_used'[r], m_capacity'[r], m_segments'[r])
  <2>1. CASE r = other
    <3>1. m_used'[r] = 0 /\ m_capacity'[r] = 0 /\ m_segments'[r] = <<>>
      BY <1>6, <2>1 DEF move, NativeMemoryTypeOK
    <3> QED BY <1>3, <3>1
  <2>2. CASE r = s
    <3>1. other \notin wrapped
      BY <1>6, <2>2 DEF move
    <3>2. /\ m_used'[r] = m_used[other] /\ m_capacity'[r] = m_capacity[other]
          /\ m_segments'[r] = m_segments[other]
      BY <1>6, <2>2 DEF move, NativeMemoryTypeOK
    <3> QED BY <1>1, <3>1, <3>2
  <2>3. CASE r # s /\ r # other
    <3>1. r \notin wrapped
      BY <1>6, <2>3 DEF move
    <3>2. /\ m_used'[r] = m_used[r] /\ m_capacity'[r] = m_capacity[r]
          /\ m_segments'[r] = m_segments[r]
      BY <1>6, <2>3 DEF move, NativeMemoryTypeOK
    <3> QED BY <1>1, <3>1, <3>2
  <2> QED BY <2>1, <2>2, <2>3
<1>7. ASSUME NEW s \in Regions, NEW size \in Size, allocate(s, size)
      PROVE  Sound(m_used'[r], m_capacity'[r], m_segments'[r])
  <2>1. r \notin wrapped
    BY <1>7 DEF allocate
  <2>2. CASE s = r
    <3>1. m_used[r] \in Size /\ size \in Nat /\ 2^Width \in Nat
      BY SizeIsNat, NativeMemoryAssumption DEF NativeMemoryTypeOK
    <3>2. ~(m_used[r] + size >= 2^Width)
      BY <1>7, <2>2 DEF allocate
    <3>3. Plus(m_used[r], size) = m_used[r] + size
      <4>1. m_used[r] + size \in Size
        BY <1>2, <3>1, <3>2 DEF Size
      <4> QED BY <4>1, <1>2, <3>1, SizeArithmetic DEF Plus
    <3>4. /\ m_used'[r] = m_used[r] + size /\ m_capacity'[r] = m_capacity[r]
          /\ m_segments'[r] = Append(m_segments[r], [address |-> m_used[r], size |-> size])
          /\ m_used[r] + size <= m_capacity[r]
      BY <1>7, <2>2, <3>3 DEF allocate, NativeMemoryTypeOK
    <3> QED BY <1>1, <1>2, <2>1, <3>1, <3>4, SoundAppend
  <2>3. CASE s # r
    BY <1>1, <1>7, <2>1, <2>3 DEF allocate, NativeMemoryTypeOK
  <2> QED BY <2>2, <2>3
<1>8. ASSUME NEW s \in Regions, NEW i \in DOMAIN m_segments[s], free(s, i)
      PROVE  Sound(m_used'[r], m_capacity'[r], m_segments'[r])
  <2>1. r \notin wrapped
    BY <1>8 DEF free
  <2>2. CASE s = r
    <3>1. i \in 1..Len(m_segments[r])
      BY <1>2, <1>8, <2>2
    <3>2. /\ m_segments[r][i].size \in Nat /\ m_segments[r][i].address \in Nat
          /\ m_segments[r][i].address + m_segments[r][i].size <= m_used[r]
      <4>1. m_segments[r][i].size \in Nat /\ m_segments[r][i].address \in Nat
        BY <1>2, <3>1, SegmentIsNat
      <4>2. Fine(r)
        BY <1>1, <2>1
      <4> QED BY <3>1, <4>1, <4>2 DEF Sound
    <3>3. Minus(m_used[r], m_segments[r][i].size) = m_used[r] - m_segments[r][i].size
      <4>1. m_used[r] \in Size /\ 2^Width \in Nat
        BY NativeMemoryAssumption DEF NativeMemoryTypeOK
      <4>2. m_used[r] - m_segments[r][i].size \in Size
        <5>1. PICK u, z, n \in Nat :
                /\ u = m_used[r] /\ z = m_segments[r][i].size /\ n = 2^Width
                /\ z <= u /\ u <= n - 1
          <6>1. m_segments[r][i].size <= m_used[r]
            BY <1>2, <3>2
          <6>2. m_used[r] <= 2^Width - 1
            BY <4>1 DEF Size
          <6> QED BY <1>2, <3>2, <4>1, <6>1, <6>2
        <5>2. u - z \in 0..(n - 1)
          BY <5>1
        <5> QED BY <5>1, <5>2 DEF Size
      <4> QED BY <4>2, <1>2, <3>2, SizeArithmetic DEF Minus
    <3>4. m_capacity'[r] = m_capacity[r] /\ m_segments'[r] = RemoveAt(m_segments[r], i)
      BY <1>8, <2>2 DEF free, NativeMemoryTypeOK
    <3>5. \/ m_used'[r] = m_used[r]
          \/ i = Len(m_segments[r]) /\ m_used'[r] = m_used[r] - m_segments[r][i].size
      BY <1>8, <2>2, <3>3 DEF free, IsReclaimed, NativeMemoryTypeOK
    <3>6. m_used'[r] \in Nat
      BY SizeIsNat DEF NativeMemoryTypeOK
    <3> QED BY <1>1, <1>2, <2>1, <3>1, <3>4, <3>5, <3>6, SoundRemove
  <2>3. CASE s # r
    BY <1>1, <1>8, <2>1, <2>3 DEF free, NativeMemoryTypeOK
  <2> QED BY <2>2, <2>3
<1> QED BY <1>4, <1>5, <1>6, <1>7, <1>8 DEF NativeMemoryNext

\* Live segments never overlap and stay inside the used part of their buffer, for any
\* capacities and any width of size_t, unless m_used + size has overflowed.
THEOREM SegmentsAreDisjoint == NativeMemorySpec => []SegmentsDisjoint
<1>1. NativeMemoryInit => SegmentsDisjoint
  BY DEF NativeMemoryInit, SegmentsDisjoint
<1> QED BY <1>1, DisjointStep, MemoryTypeCorrect, PTL DEF NativeMemorySpec

-----------------------------------------------------------------------------
(***************************************************************************)
(* Ownership.                                                              *)
(***************************************************************************)

\* new[] returns a buffer that nobody has, and a move takes it from its owner.
LEMMA OwnerStep ==
  NativeMemoryTypeOK /\ OneOwner /\ [NativeMemoryNext]_memoryVars => OneOwner'
<1> SUFFICES ASSUME NativeMemoryTypeOK, OneOwner, [NativeMemoryNext]_memoryVars
             PROVE  OneOwner'
  OBVIOUS
<1> USE DEF OneOwner, NativeMemoryTypeOK
<1>1. CASE UNCHANGED memoryVars
  BY <1>1 DEF memoryVars
<1>2. ASSUME NEW r \in Regions, NEW capacity \in Capacities, construct(r, capacity)
      PROVE  OneOwner'
  <2>1. CASE capacity = 0
    BY <1>2, <2>1 DEF construct
  <2>2. CASE capacity # 0
    <3>1. PICK b \in Buffers : /\ \A s \in Regions : b # m_base[s]
                              /\ m_base' = [m_base EXCEPT ![r] = b]
      BY <1>2, <2>2 DEF construct
    <3> QED BY <3>1
  <2> QED BY <2>1, <2>2
<1>3. ASSUME NEW r \in Regions, NEW other \in Regions, move(r, other)
      PROVE  OneOwner'
  BY <1>3 DEF move, ClearBase
<1>4. ASSUME NEW r \in Regions, NEW size \in Size, allocate(r, size)
      PROVE  OneOwner'
  BY <1>4 DEF allocate
<1>5. ASSUME NEW r \in Regions, NEW i \in DOMAIN m_segments[r], free(r, i)
      PROVE  OneOwner'
  BY <1>5 DEF free
<1> QED BY <1>1, <1>2, <1>3, <1>4, <1>5 DEF NativeMemoryNext

\* No buffer ever has two owners, so that it is deleted once.
THEOREM BufferHasOneOwner == NativeMemorySpec => []OneOwner
<1>1. NativeMemoryInit => OneOwner
  BY DEF NativeMemoryInit, OneOwner
<1> QED BY <1>1, OwnerStep, MemoryTypeCorrect, PTL DEF NativeMemorySpec
-----------------------------------------------------------------------------
(***************************************************************************)
(* SyscallDispatcher.  dispatcher_mutex_ is held throughout an ipc_send,   *)
(* so that no process exits between its look-up and its append.            *)
(***************************************************************************)

\* At most one thread is in an ipc_send, and while it is there its target lives.
DispatcherInv ==
  /\ next_pid_ \in Nat /\ processes_ \subseteq Pids
  /\ message_queues_ \in [Pids -> Int]
  /\ target_pid \in [Callers -> processes_ \cup {0}]
  /\ \A t, u \in Callers : target_pid[t] # 0 /\ target_pid[u] # 0 => t = u

\* Nobody sends at first.
LEMMA DispatcherStart == DispatcherInit => DispatcherInv
BY DEF DispatcherInit, DispatcherInv, Pids

\* A process exits only when nobody sends: dispatcher_mutex_ is held throughout ipc_send.
LEMMA DispatcherStep == DispatcherInv /\ [DispatcherNext]_dispatcherVars => DispatcherInv'
<1> SUFFICES ASSUME DispatcherInv, [DispatcherNext]_dispatcherVars
             PROVE  DispatcherInv'
  OBVIOUS
<1> USE DEF DispatcherInv, Dispatches
<1>0. 0 \notin Pids
  BY DEF Pids
<1>1. ASSUME NEW t \in Callers, process_create(t)
      PROVE  DispatcherInv'
  BY <1>1 DEF process_create
<1>2. ASSUME NEW t \in Callers, NEW pid \in Pids, process_exit(t, pid)
      PROVE  DispatcherInv'
  BY <1>2 DEF process_exit
<1>3. ASSUME NEW t \in Callers, NEW pid \in Pids, ipc_send(t, pid)
      PROVE  DispatcherInv'
  BY <1>3 DEF ipc_send
<1>4. ASSUME NEW t \in Callers, ipc_send_push(t)
      PROVE  DispatcherInv'
  BY <1>4 DEF ipc_send_push
<1>5. ASSUME NEW t \in Callers, NEW pid \in Pids, ipc_receive(t, pid)
      PROVE  DispatcherInv'
  BY <1>5 DEF ipc_receive
<1>6. ASSUME UNCHANGED dispatcherVars
      PROVE  DispatcherInv'
  BY <1>6 DEF dispatcherVars
<1> HIDE DEF DispatcherInv
<1> QED BY <1>1, <1>2, <1>3, <1>4, <1>5, <1>6 DEF DispatcherNext

\* Only the target of an ipc_send gets a message.
LEMMA DeliveryStep ==
  ASSUME DispatcherInv, [DispatcherNext]_dispatcherVars,
         NEW pid \in Pids, message_queues_'[pid] > message_queues_[pid]
  PROVE  pid \in processes_
<1>1. message_queues_[pid] \in Int /\ message_queues_ \in [Pids -> Int]
  BY DEF DispatcherInv
<1>2. ASSUME UNCHANGED message_queues_
      PROVE  FALSE
  BY <1>1, <1>2
<1>3. ASSUME NEW t \in Callers, NEW other \in Pids, ipc_receive(t, other)
      PROVE  FALSE
  BY <1>1, <1>3 DEF ipc_receive
<1>4. ASSUME NEW t \in Callers, ipc_send_push(t)
      PROVE  pid \in processes_
  <2>1. target_pid[t] \in processes_
    BY <1>4 DEF ipc_send_push, DispatcherInv
  <2>2. pid = target_pid[t]
    BY <1>1, <1>4 DEF ipc_send_push
  <2> QED BY <2>1, <2>2
<1> QED
  BY <1>2, <1>3, <1>4
     DEF DispatcherNext, process_create, process_exit, ipc_send, dispatcherVars

\* No message reaches a process that has exited.
THEOREM ExitedGetNothing == DispatcherSpec => ExitedGetNoMail
<1>1. DispatcherInv /\ [DispatcherNext]_dispatcherVars =>
        [\A pid \in Pids :
           message_queues_'[pid] > message_queues_[pid] => pid \in processes_]_dispatcherVars
  BY DeliveryStep
<1> QED BY DispatcherStart, DispatcherStep, <1>1, PTL DEF DispatcherSpec, ExitedGetNoMail
=============================================================================
