---------------------------- MODULE NativeMemory ----------------------------
(***************************************************************************)
(* trinity::MemoryRegion (src/memory/MemoryRegion.hpp): a buffer that      *)
(* hands out segments from its start to its end and takes back only the    *)
(* last one, and that is moved and never copied.  The region that          *)
(* system/CoreSystem.cpp owns is one of them.  Addresses are offsets from  *)
(* the start of the buffer; std::size_t has Width bits.                    *)
(***************************************************************************)
EXTENDS Integers, SequencesExt

CONSTANTS
  Regions,     \* the MemoryRegion objects
  Buffers,     \* what new[] can return
  NoBuffer,    \* nullptr
  Capacities,  \* the capacities that regions are made with
  Width        \* the bits of a std::size_t

ASSUME NativeMemoryAssumption ==
  /\ Width \in Nat
  /\ 2^Width \in Nat \ {0}
  /\ Capacities \subseteq 0..(2^Width - 1)
  /\ NoBuffer \notin Buffers

VARIABLES
  m_base, m_capacity, m_used,  \* region -> the field of that name
  m_segments,                  \* region -> its segments: [address, size]
  wrapped                      \* history: the regions in which m_used + size overflowed

memoryVars == <<m_base, m_capacity, m_used, m_segments, wrapped>>

Size == 0..(2^Width - 1)
Plus(a, b)  == (a + b) % 2^Width
Minus(a, b) == (a - b) % 2^Width

NativeMemoryInit ==
  /\ m_base = [r \in Regions |-> NoBuffer]
  /\ m_capacity = [r \in Regions |-> 0]
  /\ m_used = [r \in Regions |-> 0]
  /\ m_segments = [r \in Regions |-> <<>>]
  /\ wrapped = {}

\* A new MemoryRegion, in place of the object that was there.
construct(r, capacity) ==
  /\ IF capacity = 0
     THEN m_base' = [m_base EXCEPT ![r] = NoBuffer]
     ELSE \E b \in Buffers \ {m_base[s] : s \in Regions} : m_base' = [m_base EXCEPT ![r] = b]
  /\ m_capacity' = [m_capacity EXCEPT ![r] = capacity]
  /\ m_used' = [m_used EXCEPT ![r] = 0]
  /\ m_segments' = [m_segments EXCEPT ![r] = <<>>]
  /\ wrapped' = wrapped \ {r}

\* The move constructor and the move assignment to r: the region it takes from is
\* left empty.
ClearBase_none(r, other) == m_base' = [m_base EXCEPT ![r] = m_base[other]]
ClearBase(r, other) == m_base' = [m_base EXCEPT ![r] = m_base[other], ![other] = NoBuffer]

move(r, other) ==
  /\ r # other
  /\ ClearBase(r, other)
  /\ m_capacity' = [m_capacity EXCEPT ![r] = m_capacity[other], ![other] = 0]
  /\ m_used' = [m_used EXCEPT ![r] = m_used[other], ![other] = 0]
  /\ m_segments' = [m_segments EXCEPT ![r] = m_segments[other], ![other] = <<>>]
  /\ wrapped' = IF other \in wrapped THEN (wrapped \ {other}) \cup {r} ELSE wrapped \ {r}

allocate(r, size) ==
  /\ m_base[r] # NoBuffer /\ size # 0
  /\ Plus(m_used[r], size) <= m_capacity[r]
  /\ m_segments' = [m_segments EXCEPT ![r] = Append(@, [address |-> m_used[r], size |-> size])]
  /\ m_used' = [m_used EXCEPT ![r] = Plus(@, size)]
  /\ wrapped' = IF m_used[r] + size >= 2^Width THEN wrapped \cup {r} ELSE wrapped
  /\ UNCHANGED <<m_base, m_capacity>>

\* free of the address of the i-th segment: find_if stops at the first of its address.
IsReclaimed_always(r, i) == TRUE
IsReclaimed(r, i) == i = Len(m_segments[r])

free(r, i) ==
  /\ \A j \in 1..(i - 1) : m_segments[r][j].address # m_segments[r][i].address
  /\ m_used' = IF IsReclaimed(r, i)
               THEN [m_used EXCEPT ![r] = Minus(@, m_segments[r][i].size)]
               ELSE m_used
  /\ m_segments' = [m_segments EXCEPT ![r] = RemoveAt(@, i)]
  /\ UNCHANGED <<m_base, m_capacity, wrapped>>

NativeMemoryNext ==
  \E r \in Regions :
    \/ \E capacity \in Capacities : construct(r, capacity)
    \/ \E other \in Regions : move(r, other)
    \/ \E size \in Size : allocate(r, size)
    \/ \E i \in DOMAIN m_segments[r] : free(r, i)

NativeMemorySpec == NativeMemoryInit /\ [][NativeMemoryNext]_memoryVars
-----------------------------------------------------------------------------
NativeMemoryTypeOK ==
  /\ m_base \in [Regions -> Buffers \cup {NoBuffer}]
  /\ m_capacity \in [Regions -> Size]
  /\ m_used \in [Regions -> Size]
  /\ m_segments \in [Regions -> Seq([address : Size, size : Size])]
  /\ wrapped \subseteq Regions

\* Live segments never overlap and lie inside the used part of their buffer, however
\* allocations, frees in any order and moves follow each other -- unless the sum
\* m_used + size has overflowed, which the test against the capacity does not see.
SegmentsDisjoint ==
  \A r \in Regions \ wrapped :
    /\ m_used[r] <= m_capacity[r]
    /\ \A i \in DOMAIN m_segments[r] :
         /\ m_segments[r][i].address + m_segments[r][i].size <= m_used[r]
         /\ \A j \in DOMAIN m_segments[r] : i < j =>
              m_segments[r][i].address + m_segments[r][i].size <= m_segments[r][j].address

\* Each buffer has one owner, which deletes it: a move leaves none behind.
OneOwner ==
  \A r, s \in Regions : m_base[r] = m_base[s] /\ m_base[r] # NoBuffer => r = s
=============================================================================
