------------------------ MODULE MemoryManager_proofs ------------------------
(***************************************************************************)
(* Every update of the region table preserves MemoryInv; and, as long as   *)
(* no region belongs to a process that is yet to be created, the index of  *)
(* a process lists exactly its regions and a new region overlaps no other. *)
(***************************************************************************)
EXTENDS MemoryManager, ProcessTable_proofs, FiniteSetTheorems, WellFoundedInduction

\* The names that region ids are made of.
Names == {"kernel_main", "system_shared", "code", "data", "stack"}

\* The index lists only regions of its process ...
IndexOwned ==
  \A pid \in DOMAIN process_memory : process_memory[pid] \subseteq OwnedBy(pid)

\* ... and an id that is not a uuid was made for a pid already handed out.
IdsFresh ==
  DOMAIN memory_regions \subseteq UUIDs \cup ((0..(next_pid - 1)) \X Names)

MemoryInv == MemoryTypeOK /\ IndexOwned /\ IdsFresh

\* No region belongs to a process that is yet to be created: the owners are the
\* processes and the pids that called without one.
OwnersKnown(strays) ==
  \A id \in DOMAIN memory_regions :
    memory_regions[id].owner_pid \in DOMAIN processes \cup strays

\* The initial regions.
LEMMA MemoryInitFacts ==
  ASSUME ProcessInit, MemoryInit
  PROVE  MemoryInv /\ RegionIndexExact /\ OwnersKnown({})
<1> USE DEF MemoryInit, KernelRegions, Region, MB, KERNEL, INIT, MemoryType
<1>1. /\ DOMAIN memory_regions = {<<0, "kernel_main">>, <<0, "system_shared">>}
      /\ \A id \in DOMAIN memory_regions :
           /\ memory_regions[id] \in
                [start: Int, size: Nat \ {0}, owner_pid: Nat, memory_type: MemoryType]
           /\ memory_regions[id].owner_pid = 0
      /\ DOMAIN process_memory = {0}
      /\ process_memory[0] = DOMAIN memory_regions
  OBVIOUS
<1>2. OwnedBy(0) = DOMAIN memory_regions
  BY <1>1 DEF OwnedBy
<1>3. MemoryTypeOK
  BY <1>1 DEF MemoryTypeOK, ProcessInit
<1>4. IndexOwned /\ RegionIndexExact
  BY <1>1, <1>2 DEF IndexOwned, RegionIndexExact
<1>5. IdsFresh
  BY <1>1 DEF IdsFresh, Names, ProcessInit, FIRST_PID
<1>6. OwnersKnown({})
  BY <1>1 DEF OwnersKnown, ProcessInit
<1> QED BY <1>3, <1>4, <1>5, <1>6 DEF MemoryInv

\* A step that leaves the regions alone and the processes in the table.
LEMMA MemoryUnchangedFacts ==
  ASSUME MemoryInv, ProcessTypeOK, UNCHANGED memVars, DOMAIN processes' = DOMAIN processes,
         next_pid' \in Nat, next_pid' >= next_pid
  PROVE  /\ MemoryInv'
         /\ RegionIndexExact => RegionIndexExact'
         /\ \A strays : OwnersKnown(strays) => OwnersKnown(strays)'
<1> USE DEF memVars
<1>1. MemoryTypeOK'
  BY DEF MemoryInv, MemoryTypeOK
<1>2. IndexOwned' /\ (RegionIndexExact => RegionIndexExact')
  BY DEF MemoryInv, IndexOwned, RegionIndexExact, OwnedBy
<1>3. IdsFresh'
  <2>1. 0..(next_pid - 1) \subseteq 0..(next_pid' - 1)
    BY DEF ProcessTypeOK
  <2> QED BY <2>1 DEF MemoryInv, IdsFresh
<1>4. \A strays : OwnersKnown(strays) => OwnersKnown(strays)'
  BY DEF OwnersKnown
<1> QED BY <1>1, <1>2, <1>3, <1>4 DEF MemoryInv

\* The regions of a new process.
LEMMA SegmentFacts ==
  ASSUME NEW pid \in Nat
  PROVE  /\ DOMAIN Segments(pid) = {pid} \X {"code", "data", "stack"}
         /\ \A id \in DOMAIN Segments(pid) :
              /\ Segments(pid)[id] \in
                   [start: Int, size: Nat \ {0}, owner_pid: Nat, memory_type: MemoryType]
              /\ Segments(pid)[id].owner_pid = pid
         /\ \A id, other \in DOMAIN Segments(pid) :
              id # other => Disjoint(Segments(pid)[id], Segments(pid)[other])
<1> DEFINE code == <<pid, "code">>
           data == <<pid, "data">>
           stack == <<pid, "stack">>
<1>1. /\ DOMAIN Segments(pid) = {code, data, stack}
      /\ Segments(pid)[code] = Region(131072, 256, pid, "NORMAL")
      /\ Segments(pid)[data] = Region(135168, 1024, pid, "NORMAL")
      /\ Segments(pid)[stack] = Region(139264, 512, pid, "NORMAL")
  BY DEF Segments, USER_BASE, MB
<1>2. {code, data, stack} = {pid} \X {"code", "data", "stack"}
  OBVIOUS
<1>3. ASSUME NEW id \in {code, data, stack}
      PROVE  /\ Segments(pid)[id] \in
                  [start: Int, size: Nat \ {0}, owner_pid: Nat, memory_type: MemoryType]
             /\ Segments(pid)[id].owner_pid = pid
  BY <1>1 DEF Region, MemoryType
<1>4. ASSUME NEW id \in {code, data, stack}, NEW other \in {code, data, stack}, id # other
      PROVE  Disjoint(Segments(pid)[id], Segments(pid)[other])
  BY <1>1, <1>4 DEF Region, Disjoint, End
<1> QED BY <1>1, <1>2, <1>3, <1>4

\* process_create.
LEMMA MemoryCreateFacts ==
  ASSUME ProcessTypeOK, MemoryInv, AddProcess, InitProcessMemory(next_pid)
  PROVE  /\ MemoryInv'
         /\ \A strays : next_pid \notin strays /\ OwnersKnown(strays) =>
              /\ OwnersKnown(strays)'
              /\ RegionIndexExact => RegionIndexExact'
<1> DEFINE new == Segments(next_pid)
<1>1. /\ next_pid \in Nat /\ next_pid \notin DOMAIN processes
      /\ next_pid' = next_pid + 1
      /\ DOMAIN processes' = DOMAIN processes \cup {next_pid}
  BY DEF ProcessTypeOK, AddProcess, Put
<1>2. /\ DOMAIN new = {next_pid} \X {"code", "data", "stack"}
      /\ \A id \in DOMAIN new :
           /\ new[id] \in
                [start: Int, size: Nat \ {0}, owner_pid: Nat, memory_type: MemoryType]
           /\ new[id].owner_pid = next_pid
  BY <1>1, SegmentFacts
<1>3. DOMAIN new \cap DOMAIN memory_regions = {}
  <2>1. DOMAIN new \subseteq Nat \X Names
    BY <1>1, <1>2 DEF Names
  <2>2. DOMAIN new \cap UUIDs = {}
    BY <2>1, UUIDsAssumption DEF Names
  <2>3. DOMAIN new \cap ((0..(next_pid - 1)) \X Names) = {}
    BY <1>1, <1>2
  <2> QED BY <2>2, <2>3 DEF MemoryInv, IdsFresh
<1> HIDE DEF new
<1>4. /\ DOMAIN memory_regions' = DOMAIN memory_regions \cup DOMAIN new
      /\ \A id \in DOMAIN memory_regions : memory_regions'[id] = memory_regions[id]
      /\ \A id \in DOMAIN new : memory_regions'[id] = new[id]
      /\ memory_regions' = [id \in DOMAIN memory_regions' |-> memory_regions'[id]]
  BY <1>3 DEF InitProcessMemory, new
<1>5. /\ DOMAIN process_memory' = DOMAIN process_memory \cup {next_pid}
      /\ process_memory'[next_pid] = DOMAIN new
      /\ \A pid \in DOMAIN process_memory \ {next_pid} :
           process_memory'[pid] = process_memory[pid]
      /\ process_memory' = [pid \in DOMAIN process_memory' |-> process_memory'[pid]]
      /\ memory_usage' = Put(memory_usage, next_pid, 7 * MB)
  BY DEF InitProcessMemory, Put, new
<1>6. MemoryTypeOK'
  <2>1. memory_regions' \in
          [DOMAIN memory_regions' ->
             [start: Int, size: Nat \ {0}, owner_pid: Nat, memory_type: MemoryType]]
    BY <1>2, <1>4 DEF MemoryInv, MemoryTypeOK
  <2>2. DOMAIN process_memory' \subseteq Nat
    BY <1>1, <1>5 DEF MemoryInv, MemoryTypeOK
  <2>3. process_memory' \in [DOMAIN process_memory' -> SUBSET DOMAIN memory_regions']
    BY <1>4, <1>5 DEF MemoryInv, MemoryTypeOK
  <2>4. memory_usage' \in [DOMAIN processes' -> Int]
    BY <1>1, <1>5 DEF MemoryInv, MemoryTypeOK, Put, MB
  <2> QED BY <2>1, <2>2, <2>3, <2>4 DEF MemoryTypeOK
<1>7. IndexOwned'
  BY <1>2, <1>4, <1>5 DEF MemoryInv, IndexOwned, OwnedBy
<1>8. IdsFresh'
  <2>1. DOMAIN new \subseteq (0..next_pid) \X Names
    BY <1>1, <1>2 DEF Names
  <2>2. (0..(next_pid - 1)) \X Names \subseteq (0..next_pid) \X Names
    BY <1>1
  <2>3. next_pid' - 1 = next_pid
    BY <1>1
  <2> QED BY <1>4, <2>1, <2>2, <2>3 DEF MemoryInv, IdsFresh
<1>9. ASSUME NEW strays, next_pid \notin strays, OwnersKnown(strays)
      PROVE  /\ OwnersKnown(strays)'
             /\ RegionIndexExact => RegionIndexExact'
  <2>1. OwnersKnown(strays)'
    BY <1>1, <1>2, <1>4, <1>9 DEF OwnersKnown
  <2>2. DOMAIN new = {id \in DOMAIN memory_regions' :
                        memory_regions'[id].owner_pid = next_pid}
    <3>1. next_pid \notin DOMAIN processes \cup strays
      BY <1>1, <1>9
    <3> QED BY <1>2, <1>4, <1>9, <3>1 DEF OwnersKnown
  <2>3. ASSUME NEW pid, pid # next_pid PROVE OwnedBy(pid)' = OwnedBy(pid)
    BY <1>2, <1>4, <2>3 DEF OwnedBy
  <2>4. ASSUME RegionIndexExact PROVE RegionIndexExact'
    <3>1. ASSUME NEW pid \in DOMAIN process_memory'
          PROVE  process_memory'[pid] = OwnedBy(pid)'
      <4>1. CASE pid = next_pid
        BY <1>5, <2>2, <4>1 DEF OwnedBy
      <4>2. CASE pid # next_pid
        BY <1>5, <2>3, <2>4, <4>2 DEF RegionIndexExact
      <4> QED BY <4>1, <4>2
    <3>2. ASSUME NEW id \in DOMAIN memory_regions'
          PROVE  memory_regions'[id].owner_pid \in DOMAIN process_memory'
      BY <1>2, <1>4, <1>5, <2>4 DEF RegionIndexExact
    <3> QED BY <3>1, <3>2 DEF RegionIndexExact
  <2> QED BY <2>1, <2>4
<1> QED BY <1>6, <1>7, <1>8, <1>9 DEF MemoryInv

\* process_exit.
LEMMA MemoryExitFacts ==
  ASSUME ProcessTypeOK, MemoryInv, NEW pid, Exists(pid),
         TerminateProcess(pid), FreeProcessMemory(pid)
  PROVE  /\ MemoryInv'
         /\ RegionIndexExact => (RegionIndexExact' /\ OwnedBy(pid)' = {})
         /\ \A strays : OwnersKnown(strays) => OwnersKnown(strays)'
<1>1. DOMAIN processes' = DOMAIN processes /\ next_pid' = next_pid
  BY DEF TerminateProcess
<1>2. CASE pid \notin DOMAIN process_memory
  <2>1. UNCHANGED memVars
    BY <1>2 DEF FreeProcessMemory
  <2>2. RegionIndexExact => OwnedBy(pid)' = {}
    BY <1>2, <2>1 DEF RegionIndexExact, OwnedBy, memVars
  <2>3. next_pid' \in Nat /\ next_pid' >= next_pid
    BY <1>1 DEF ProcessTypeOK
  <2> QED BY <1>1, <2>1, <2>2, <2>3, MemoryUnchangedFacts
<1>3. CASE pid \in DOMAIN process_memory
  <2>1. /\ DOMAIN memory_regions' = DOMAIN memory_regions \ process_memory[pid]
        /\ \A id \in DOMAIN memory_regions' : memory_regions'[id] = memory_regions[id]
        /\ memory_regions' = [id \in DOMAIN memory_regions' |-> memory_regions'[id]]
    BY <1>3 DEF FreeProcessMemory, DropRegions, Restrict
  <2>2. /\ DOMAIN process_memory' = DOMAIN process_memory \ {pid}
        /\ \A other \in DOMAIN process_memory' :
             process_memory'[other] = process_memory[other]
        /\ process_memory' = [other \in DOMAIN process_memory' |-> process_memory'[other]]
    BY <1>3 DEF FreeProcessMemory, Del, Restrict
  <2>3. memory_usage' = [memory_usage EXCEPT ![pid] = 0]
    BY <1>3 DEF FreeProcessMemory
  <2>4. ASSUME NEW other \in DOMAIN process_memory'
        PROVE  process_memory[other] \cap process_memory[pid] = {}
    BY <1>3, <2>2 DEF MemoryInv, IndexOwned, OwnedBy
  <2>5. MemoryTypeOK'
    <3>1. memory_regions' \in
            [DOMAIN memory_regions' ->
               [start: Int, size: Nat \ {0}, owner_pid: Nat, memory_type: MemoryType]]
      BY <2>1 DEF MemoryInv, MemoryTypeOK
    <3>2. process_memory' \in [DOMAIN process_memory' -> SUBSET DOMAIN memory_regions']
      BY <2>1, <2>2, <2>4 DEF MemoryInv, MemoryTypeOK
    <3>3. memory_usage' \in [DOMAIN processes' -> Int]
      <4>1. memory_usage \in [DOMAIN processes -> Int]
        BY DEF MemoryInv, MemoryTypeOK
      <4>2. 0 \in Int
        OBVIOUS
      <4>3. memory_usage' \in [DOMAIN processes -> Int]
        BY <2>3, <4>1, <4>2, Zenon
      <4> QED BY <1>1, <4>3, Zenon
    <3>4. DOMAIN process_memory' \subseteq Nat
      BY <2>2 DEF MemoryInv, MemoryTypeOK
    <3> QED BY <3>1, <3>2, <3>3, <3>4 DEF MemoryTypeOK
  <2>6. ASSUME NEW other \in DOMAIN process_memory'
        PROVE  /\ process_memory'[other] \subseteq OwnedBy(other)'
               /\ process_memory[other] = OwnedBy(other)
                    => process_memory'[other] = OwnedBy(other)'
    BY <2>1, <2>2, <2>4, <2>6 DEF MemoryInv, IndexOwned, OwnedBy
  <2>7. ASSUME RegionIndexExact PROVE RegionIndexExact' /\ OwnedBy(pid)' = {}
    <3>1. OwnedBy(pid)' = {}
      BY <1>3, <2>1, <2>7 DEF RegionIndexExact, OwnedBy
    <3>2. RegionIndexExact'
      BY <2>1, <2>2, <2>6, <2>7, <3>1 DEF RegionIndexExact, OwnedBy
    <3> QED BY <3>1, <3>2
  <2>8. IndexOwned' /\ IdsFresh'
    BY <1>1, <2>1, <2>6 DEF IndexOwned, MemoryInv, IdsFresh
  <2>9. \A strays : OwnersKnown(strays) => OwnersKnown(strays)'
    BY <1>1, <2>1 DEF OwnersKnown
  <2> QED BY <2>5, <2>7, <2>8, <2>9 DEF MemoryInv
<1> QED BY <1>2, <1>3

\* A region that enters the table, for a caller that the code may not know.
LEMMA AddRegionFacts ==
  ASSUME ProcessTypeOK, MemoryInv, UNCHANGED procVars,
         NEW id \in UUIDs, NEW region,
         region \in [start: Int, size: Nat \ {0}, owner_pid: Nat, memory_type: MemoryType],
         AddRegion(id, region), memory_usage' \in [DOMAIN processes -> Int]
  PROVE  /\ MemoryInv'
         /\ RegionIndexExact => RegionIndexExact'
         /\ \A strays : OwnersKnown(strays) /\ region.owner_pid \in DOMAIN processes \cup strays
              => OwnersKnown(strays)'
<1> DEFINE pid == region.owner_pid
<1>1. UNCHANGED <<processes, ready_queue, blocked_processes, next_pid>> /\ pid \in Nat
  BY DEF procVars
<1>2. /\ id \notin DOMAIN memory_regions
      /\ DOMAIN memory_regions' = DOMAIN memory_regions \cup {id}
      /\ memory_regions'[id] = region
      /\ \A other \in DOMAIN memory_regions : memory_regions'[other] = memory_regions[other]
      /\ memory_regions' = [other \in DOMAIN memory_regions' |-> memory_regions'[other]]
  BY DEF AddRegion, Put
<1>3. /\ DOMAIN process_memory' = DOMAIN process_memory \cup {pid}
      /\ process_memory'[pid] = RegionsOf(pid) \cup {id}
      /\ \A other \in DOMAIN process_memory \ {pid} :
           process_memory'[other] = process_memory[other]
      /\ process_memory' = [other \in DOMAIN process_memory' |-> process_memory'[other]]
  BY DEF AddRegion, Put
<1>4. RegionsOf(pid) \subseteq OwnedBy(pid)
  BY DEF RegionsOf, MemoryInv, IndexOwned
<1> HIDE DEF pid
<1>5. OwnedBy(pid)' = OwnedBy(pid) \cup {id}
  <2>1. region.owner_pid = pid
    BY DEF pid
  <2> QED BY <1>2, <2>1 DEF OwnedBy
<1>6. ASSUME NEW other, other # pid PROVE OwnedBy(other)' = OwnedBy(other)
  <2>1. region.owner_pid = pid
    BY DEF pid
  <2> QED BY <1>2, <1>6, <2>1 DEF OwnedBy
<1>7. MemoryTypeOK'
  <2>1. memory_regions' \in
          [DOMAIN memory_regions' ->
             [start: Int, size: Nat \ {0}, owner_pid: Nat, memory_type: MemoryType]]
    BY <1>2 DEF MemoryInv, MemoryTypeOK
  <2>2. DOMAIN process_memory' \subseteq Nat
    BY <1>1, <1>3 DEF MemoryInv, MemoryTypeOK
  <2>3. process_memory' \in [DOMAIN process_memory' -> SUBSET DOMAIN memory_regions']
    BY <1>2, <1>3, <1>4 DEF MemoryInv, MemoryTypeOK, OwnedBy
  <2> QED BY <1>1, <2>1, <2>2, <2>3 DEF MemoryTypeOK
<1>8. IndexOwned'
  BY <1>3, <1>4, <1>5, <1>6 DEF MemoryInv, IndexOwned
<1>9. IdsFresh'
  BY <1>1, <1>2 DEF MemoryInv, IdsFresh
<1>10. ASSUME RegionIndexExact PROVE RegionIndexExact'
  <2>1. RegionsOf(pid) = OwnedBy(pid)
    BY <1>10 DEF RegionsOf, RegionIndexExact, OwnedBy
  <2>2. region.owner_pid = pid
    BY DEF pid
  <2> QED BY <1>2, <1>3, <1>5, <1>6, <1>10, <2>1, <2>2 DEF RegionIndexExact
<1>11. ASSUME NEW strays, OwnersKnown(strays), region.owner_pid \in DOMAIN processes \cup strays
       PROVE  OwnersKnown(strays)'
  BY <1>1, <1>2, <1>11 DEF OwnersKnown
<1> QED BY <1>7, <1>8, <1>9, <1>10, <1>11 DEF MemoryInv

\* memory_allocate.
LEMMA MemoryAllocateFacts ==
  ASSUME ProcessTypeOK, MemoryInv, UNCHANGED procVars,
         NEW pid, NEW size \in Int, NEW uuid \in UUIDs, Allocate(pid, size, uuid)
  PROVE  /\ MemoryInv'
         /\ RegionIndexExact => RegionIndexExact'
         /\ \A strays : OwnersKnown(strays) => OwnersKnown(strays)'
<1>1. PICK start \in Ends(pid) : AddRegion(uuid, Region(start, size, pid, "NORMAL"))
  BY DEF Allocate
<1>2. pid \in DOMAIN processes /\ pid \in Nat /\ size \in Nat \ {0}
  BY DEF Allocate, Exists, ValidSize, ProcessTypeOK
<1>3. start \in Int
  <2>1. \A id \in RegionsOf(pid) : id \in DOMAIN memory_regions
    BY DEF RegionsOf, MemoryInv, IndexOwned, OwnedBy
  <2>2. \A id \in DOMAIN memory_regions : End(memory_regions[id]) \in Int
    BY DEF MemoryInv, MemoryTypeOK, End
  <2>3. USER_BASE \in Int
    BY DEF USER_BASE, MB
  <2> QED BY <1>1, <2>1, <2>2, <2>3 DEF Ends
<1> DEFINE region == Region(start, size, pid, "NORMAL")
<1>4. /\ region \in
           [start: Int, size: Nat \ {0}, owner_pid: Nat, memory_type: MemoryType]
      /\ region.owner_pid = pid
  BY <1>2, <1>3 DEF Region, MemoryType
<1>5. memory_usage' \in [DOMAIN processes -> Int]
  <2>1. memory_usage \in [DOMAIN processes -> Int]
    BY DEF MemoryInv, MemoryTypeOK
  <2>2. memory_usage' = [memory_usage EXCEPT ![pid] = memory_usage[pid] + size]
    BY DEF Allocate
  <2>3. memory_usage[pid] + size \in Int
    BY <1>2, <2>1
  <2> QED BY <2>1, <2>2, <2>3, Zenon
<1> HIDE DEF region
<1>6. AddRegion(uuid, region)
  BY <1>1 DEF region
<1> QED BY <1>2, <1>4, <1>5, <1>6, AddRegionFacts

\* memory_map, by a process or by a caller that is none.
LEMMA MemoryMapFacts ==
  ASSUME ProcessTypeOK, MemoryInv, UNCHANGED procVars,
         NEW pid \in Nat, NEW target, NEW address \in Int, NEW uuid \in UUIDs,
         Map(pid, target, address, uuid)
  PROVE  /\ MemoryInv'
         /\ RegionIndexExact => RegionIndexExact'
         /\ \A strays : OwnersKnown(strays) /\ pid \in DOMAIN processes \cup strays
              => OwnersKnown(strays)'
<1> DEFINE start == IF address > 0 THEN address ELSE MAP_BASE
           region == Region(start, memory_regions[target].size, pid, "SHARED")
<1>1. AddRegion(uuid, region) /\ memory_usage' = memory_usage
  BY DEF Map
<1>2. start \in Int
  BY DEF MAP_BASE, MB
<1>3. memory_regions[target].size \in Nat \ {0}
  BY DEF Map, MemoryInv, MemoryTypeOK
<1> HIDE DEF start
<1>4. /\ region \in
           [start: Int, size: Nat \ {0}, owner_pid: Nat, memory_type: MemoryType]
      /\ region.owner_pid = pid
  BY <1>2, <1>3 DEF Region, MemoryType
<1>5. memory_usage' \in [DOMAIN processes -> Int]
  BY <1>1 DEF MemoryInv, MemoryTypeOK
<1> HIDE DEF region
<1> QED BY <1>1, <1>4, <1>5, AddRegionFacts

\* memory_free.
LEMMA MemoryFreeFacts ==
  ASSUME ProcessTypeOK, MemoryInv, UNCHANGED procVars, NEW pid, NEW id, Free(pid, id)
  PROVE  /\ MemoryInv'
         /\ RegionIndexExact => RegionIndexExact'
         /\ \A strays : OwnersKnown(strays) => OwnersKnown(strays)'
<1>1. UNCHANGED <<processes, ready_queue, blocked_processes, next_pid>>
  BY DEF procVars
<1>2. id \in DOMAIN memory_regions /\ memory_regions[id].owner_pid = pid
  BY DEF Free
<1>3. /\ DOMAIN memory_regions' = DOMAIN memory_regions \ {id}
      /\ \A other \in DOMAIN memory_regions' : memory_regions'[other] = memory_regions[other]
      /\ memory_regions' = [other \in DOMAIN memory_regions' |-> memory_regions'[other]]
  BY DEF Free, Del, Restrict
<1>4. /\ DOMAIN process_memory' = DOMAIN process_memory
      /\ process_memory' = [other \in DOMAIN process_memory |-> process_memory'[other]]
      /\ \A other \in DOMAIN process_memory :
           process_memory'[other] = process_memory[other] \ {id}
  <2>1. \A other \in DOMAIN process_memory :
          id \in process_memory[other] => other = pid
    BY <1>2 DEF MemoryInv, IndexOwned, OwnedBy
  <2>2. process_memory = [other \in DOMAIN process_memory |-> process_memory[other]]
    BY DEF MemoryInv, MemoryTypeOK
  <2>3. CASE id \in RegionsOf(pid)
    <3>1. pid \in DOMAIN process_memory
      BY <2>3 DEF RegionsOf
    <3>2. process_memory' = [process_memory EXCEPT ![pid] = process_memory[pid] \ {id}]
      BY <2>3 DEF Free, Unindex
    <3> QED BY <2>1, <2>2, <3>1, <3>2
  <2>4. CASE id \notin RegionsOf(pid)
    <3>1. process_memory' = process_memory
      BY <2>4 DEF Free, Unindex
    <3>2. \A other \in DOMAIN process_memory : id \notin process_memory[other]
      BY <2>1, <2>4 DEF RegionsOf
    <3> QED BY <2>2, <3>1, <3>2
  <2> QED BY <2>3, <2>4
<1>5. \A other : OwnedBy(other)' = OwnedBy(other) \ {id}
  BY <1>3 DEF OwnedBy
<1>6. MemoryTypeOK'
  <2>1. memory_regions' \in
          [DOMAIN memory_regions' ->
             [start: Int, size: Nat \ {0}, owner_pid: Nat, memory_type: MemoryType]]
    BY <1>3 DEF MemoryInv, MemoryTypeOK
  <2>2. process_memory' \in [DOMAIN process_memory' -> SUBSET DOMAIN memory_regions']
    BY <1>3, <1>4 DEF MemoryInv, MemoryTypeOK
  <2>3. memory_usage' \in [DOMAIN processes -> Int]
    <3>1. memory_usage \in [DOMAIN processes -> Int]
      BY DEF MemoryInv, MemoryTypeOK
    <3>2. memory_regions[id].size \in Nat
      BY <1>2 DEF MemoryInv, MemoryTypeOK
    <3>3. CASE pid \notin DOMAIN processes
      BY <3>1, <3>3 DEF Free, Discount, Exists
    <3>4. CASE pid \in DOMAIN processes
      <4>1. memory_usage' =
              [memory_usage EXCEPT ![pid] = memory_usage[pid] - memory_regions[id].size]
        BY <3>4 DEF Free, Discount, Exists
      <4>2. memory_usage[pid] - memory_regions[id].size \in Int
        BY <3>1, <3>2, <3>4
      <4> QED BY <3>1, <4>1, <4>2, Zenon
    <3> QED BY <3>3, <3>4
  <2> QED BY <1>1, <1>4, <2>1, <2>2, <2>3 DEF MemoryInv, MemoryTypeOK
<1>7. IndexOwned'
  BY <1>4, <1>5 DEF MemoryInv, IndexOwned
<1>8. IdsFresh'
  BY <1>1, <1>3 DEF MemoryInv, IdsFresh
<1>9. RegionIndexExact => RegionIndexExact'
  BY <1>3, <1>4, <1>5 DEF RegionIndexExact
<1>10. \A strays : OwnersKnown(strays) => OwnersKnown(strays)'
  BY <1>1, <1>3 DEF OwnersKnown
<1> QED BY <1>6, <1>7, <1>8, <1>9, <1>10 DEF MemoryInv

-----------------------------------------------------------------------------
\* The regions of a new process overlap no region.
LEMMA CreateDisjointFacts ==
  ASSUME ProcessTypeOK, MemoryInv, InitProcessMemory(next_pid),
         NEW strays, next_pid \notin strays, OwnersKnown(strays)
  PROVE  NewRegionsDisjoint
<1> DEFINE new == Segments(next_pid)
<1>1. next_pid \in Nat /\ next_pid \notin DOMAIN processes \cup strays
  BY DEF ProcessTypeOK
<1>2. /\ \A id \in DOMAIN new : new[id].owner_pid = next_pid
      /\ \A id, other \in DOMAIN new : id # other => Disjoint(new[id], new[other])
  BY <1>1, SegmentFacts
<1>3. /\ DOMAIN memory_regions' = DOMAIN memory_regions \cup DOMAIN new
      /\ \A id \in DOMAIN new : memory_regions'[id] = new[id]
      /\ \A id \in DOMAIN memory_regions \ DOMAIN new :
           memory_regions'[id] = memory_regions[id]
  BY DEF InitProcessMemory
<1> HIDE DEF new
<1> SUFFICES ASSUME NEW id \in DOMAIN memory_regions' \ DOMAIN memory_regions,
                    NEW other \in DOMAIN memory_regions' \ {id},
                    memory_regions'[other].owner_pid = memory_regions'[id].owner_pid
             PROVE  Disjoint(memory_regions'[id], memory_regions'[other])
  BY DEF NewRegionsDisjoint
<1>4. id \in DOMAIN new /\ memory_regions'[id].owner_pid = next_pid
  BY <1>2, <1>3
<1>5. other \in DOMAIN new
  BY <1>1, <1>3, <1>4 DEF OwnersKnown
<1> QED BY <1>2, <1>3, <1>4, <1>5

\* An allocated region starts where the highest region of its process ends.
LEMMA AllocateDisjointFacts ==
  ASSUME MemoryInv, RegionIndexExact,
         NEW pid, NEW size, NEW uuid, Allocate(pid, size, uuid)
  PROVE  NewRegionsDisjoint
<1>1. PICK start \in Ends(pid) :
        IsStart(pid, start) /\ AddRegion(uuid, Region(start, size, pid, "NORMAL"))
  BY DEF Allocate
<1>2. /\ uuid \notin DOMAIN memory_regions
      /\ DOMAIN memory_regions' = DOMAIN memory_regions \cup {uuid}
      /\ memory_regions'[uuid].owner_pid = pid /\ memory_regions'[uuid].start = start
      /\ \A other \in DOMAIN memory_regions : memory_regions'[other] = memory_regions[other]
  BY <1>1 DEF AddRegion, Put, Region
<1> SUFFICES ASSUME NEW other \in DOMAIN memory_regions,
                    memory_regions[other].owner_pid = pid
             PROVE  Disjoint(memory_regions'[uuid], memory_regions[other])
  BY <1>2 DEF NewRegionsDisjoint
<1>3. other \in RegionsOf(pid)
  BY DEF RegionIndexExact, OwnedBy, RegionsOf
<1>4. End(memory_regions[other]) <= start
  BY <1>1, <1>3 DEF IsStart, Ends
<1> QED BY <1>2, <1>4 DEF Disjoint

\* A mapping is no new region of its own, and freeing adds none.
LEMMA MapDisjointFacts ==
  ASSUME NEW pid, NEW target, NEW address, NEW uuid, Map(pid, target, address, uuid)
  PROVE  NewRegionsDisjoint
<1>1. PICK start : AddRegion(uuid, Region(start, memory_regions[target].size, pid, "SHARED"))
  BY DEF Map
<1>2. /\ DOMAIN memory_regions' = DOMAIN memory_regions \cup {uuid}
      /\ memory_regions'[uuid].memory_type = "SHARED"
  BY <1>1 DEF AddRegion, Put, Region
<1> QED BY <1>2 DEF NewRegionsDisjoint

-----------------------------------------------------------------------------
(***************************************************************************)
(* The pages of a set of regions.  Pages adds up sizes in an order that    *)
(* CHOOSE fixes; the lemmas say that the order does not matter: a region   *)
(* that enters a finite set adds its size, one that leaves it takes its    *)
(* size away, and only the sizes count.                                    *)
(***************************************************************************)
\* The id that MapThenSumSet takes out of a set first.
FirstOf(s) == CHOOSE x \in s : TRUE

\* f is the sum of the sizes, for every subset of S.
IsSum(f, R, S) ==
  f = [s \in SUBSET S |-> IF s = {} THEN 0 ELSE R[FirstOf(s)].size + f[s \ {FirstOf(s)}]]

\* Pages is such a sum, as the operators of the library define it.
LEMMA PagesIs ==
  ASSUME NEW R, NEW S
  PROVE  Pages(R, S) = (CHOOSE f : IsSum(f, R, S))[S]
BY DEF Pages, MapThenSumSet, MapThenFoldSet, IsSum, FirstOf

\* Among some subsets of a finite set there is one that contains no other of them:
\* a fact about all subsets is shown by ruling out a minimal exception.
LEMMA MinimalSubset ==
  ASSUME NEW S, IsFiniteSet(S), NEW C \in SUBSET (SUBSET S), C # {}
  PROVE  \E T \in C : \A U \in SUBSET T : U # T => U \notin C
<1>1. IsWellFoundedOn(StrictSubsetOrdering(S), SUBSET S)
  BY FS_StrictSubsetOrderingWellFounded, FS_FiniteSubsetsOfFinite
<1>2. PICK T \in C : \A U \in C : ~(<<U, T>> \in StrictSubsetOrdering(S))
  BY <1>1, WFMin
<1>3. ASSUME NEW U \in SUBSET T, U # T, U \in C
      PROVE  FALSE
  BY <1>2, <1>3 DEF StrictSubsetOrdering
<1> QED BY <1>3

\* A set that is not empty has a first id.
LEMMA FirstIn == ASSUME NEW s, s # {} PROVE FirstOf(s) \in s
BY DEF FirstOf

\* The sum of a set is the size of its first region and the sum of the others.
Unfolds(f, R, T) ==
  f[T] = IF T = {} THEN 0 ELSE R[FirstOf(T)].size + f[T \ {FirstOf(T)}]

\* A sum unfolds at every subset.
LEMMA SumUnfold ==
  ASSUME NEW R, NEW S, NEW f, IsSum(f, R, S)
  PROVE  \A T \in SUBSET S : Unfolds(f, R, T)
<1>1. f = [s \in SUBSET S |-> IF s = {} THEN 0 ELSE R[FirstOf(s)].size + f[s \ {FirstOf(s)}]]
  BY DEF IsSum
<1> QED BY <1>1 DEF Unfolds

\* Two sums agree on a set when the sizes agree there, whatever they are sums over.
LEMMA SumUnique ==
  ASSUME NEW R, NEW Q, NEW S, NEW T, NEW f, NEW g, IsSum(f, R, S), IsSum(g, Q, T),
         NEW U, IsFiniteSet(U), U \subseteq S, U \subseteq T,
         \A id \in U : R[id].size = Q[id].size
  PROVE  f[U] = g[U]
<1>1. \A V \in SUBSET S : Unfolds(f, R, V)
  BY SumUnfold
<1>2. \A V \in SUBSET T : Unfolds(g, Q, V)
  BY SumUnfold
<1> DEFINE Bad == {V \in SUBSET U : f[V] # g[V]}
<1> SUFFICES ASSUME Bad # {} PROVE FALSE
  OBVIOUS
<1>3. PICK V \in Bad : \A W \in SUBSET V : W # V => W \notin Bad
  <2> HIDE DEF Bad
  <2>1. Bad \in SUBSET (SUBSET U)
    BY DEF Bad
  <2> QED BY <2>1, MinimalSubset
<1> DEFINE x == FirstOf(V)
<1>4. V \in SUBSET S /\ V \in SUBSET T /\ f[V] # g[V]
  OBVIOUS
<1>5. /\ V = {} => f[V] = 0 /\ g[V] = 0
      /\ V # {} => f[V] = R[x].size + f[V \ {x}] /\ g[V] = Q[x].size + g[V \ {x}]
  BY <1>1, <1>2, <1>4 DEF Unfolds
<1>6. V # {} /\ x \in V
  BY <1>4, <1>5, FirstIn
<1> HIDE DEF x
<1>7. f[V \ {x}] = g[V \ {x}]
  BY <1>3, <1>6
<1> QED BY <1>4, <1>5, <1>6, <1>7

\* The subsets of S have a sum, so that the CHOOSE of PagesIs picks one.
HasSum(R, S) == \E f : IsSum(f, R, S)

\* Pages is what every sum says.
LEMMA PagesUnique ==
  ASSUME NEW R, NEW S, NEW f, IsSum(f, R, S), NEW T \in SUBSET S, IsFiniteSet(T), HasSum(R, T)
  PROVE  Pages(R, T) = f[T]
<1> DEFINE g == CHOOSE h : IsSum(h, R, T)
<1>1. IsSum(g, R, T)
  BY DEF HasSum
<1>2. Pages(R, T) = g[T]
  BY PagesIs
<1> HIDE DEF g
<1> QED BY <1>1, <1>2, SumUnique

\* Pages unfolds, for a set that has a sum.
LEMMA PagesUnfold ==
  ASSUME NEW R, NEW S, IsFiniteSet(S), HasSum(R, S),
         S # {} => HasSum(R, S \ {FirstOf(S)})
  PROVE  /\ S = {} => Pages(R, S) = 0
         /\ S # {} => Pages(R, S) = R[FirstOf(S)].size + Pages(R, S \ {FirstOf(S)})
<1>1. PICK f : IsSum(f, R, S)
  BY DEF HasSum
<1>2. Pages(R, S) = f[S]
  BY <1>1, PagesUnique
<1>3. S # {} => Pages(R, S \ {FirstOf(S)}) = f[S \ {FirstOf(S)}]
  <2> DEFINE T == S \ {FirstOf(S)}
  <2>1. T \in SUBSET S /\ IsFiniteSet(T)
    BY FS_Subset
  <2> HIDE DEF T
  <2>2. S # {} => HasSum(R, T)
    BY DEF T
  <2>3. S # {} => Pages(R, T) = f[T]
    BY <1>1, <2>1, <2>2, PagesUnique
  <2> QED BY <2>3 DEF T
<1>4. Unfolds(f, R, S)
  BY <1>1, SumUnfold
<1> QED BY <1>2, <1>3, <1>4 DEF Unfolds

\* Every finite set has a sum: a smallest set without one could take its sum from
\* the pages of its proper subsets.
LEMMA SumExists ==
  ASSUME NEW R, NEW S, IsFiniteSet(S)
  PROVE  HasSum(R, S)
<1> DEFINE Bad == {V \in SUBSET S : ~HasSum(R, V)}
<1> SUFFICES ASSUME Bad # {} PROVE FALSE
  OBVIOUS
<1>1. PICK V \in Bad : \A W \in SUBSET V : W # V => W \notin Bad
  <2> HIDE DEF Bad
  <2>1. Bad \in SUBSET (SUBSET S)
    BY DEF Bad
  <2> QED BY <2>1, MinimalSubset
<1>2. V \in SUBSET S /\ ~HasSum(R, V)
  OBVIOUS
<1>3. \A W \in SUBSET V : W # V => HasSum(R, W) /\ IsFiniteSet(W)
  BY <1>1, <1>2, FS_Subset
<1> HIDE DEF Bad
<1> DEFINE g == [s \in SUBSET V |->
                   IF s = {} THEN 0 ELSE R[FirstOf(s)].size + Pages(R, s \ {FirstOf(s)})]
<1>4. ASSUME NEW t \in SUBSET V, t # V
      PROVE  g[t] = Pages(R, t)
  <2>1. g[t] = IF t = {} THEN 0 ELSE R[FirstOf(t)].size + Pages(R, t \ {FirstOf(t)})
    OBVIOUS
  <2>2. HasSum(R, t) /\ IsFiniteSet(t)
    BY <1>3, <1>4
  <2>3. t # {} => HasSum(R, t \ {FirstOf(t)})
    <3> HIDE DEF g
    <3> QED BY <1>3, FirstIn
  <2> HIDE DEF g
  <2> QED BY <2>1, <2>2, <2>3, PagesUnfold
<1>5. ASSUME NEW s \in SUBSET V, s # {}
      PROVE  g[s \ {FirstOf(s)}] = Pages(R, s \ {FirstOf(s)})
  <2> HIDE DEF g
  <2> QED BY <1>4, <1>5, FirstIn
<1>6. IsSum(g, R, V)
  <2>1. g = [s \in SUBSET V |->
               IF s = {} THEN 0 ELSE R[FirstOf(s)].size + g[s \ {FirstOf(s)}]]
    BY <1>5
  <2> HIDE DEF g
  <2> QED BY <2>1 DEF IsSum
<1> QED BY <1>2, <1>6 DEF HasSum

\* The pages of no regions, and of a region and the others.
LEMMA PagesFirst ==
  ASSUME NEW R, NEW S, IsFiniteSet(S)
  PROVE  /\ S = {} => Pages(R, S) = 0
         /\ S # {} => Pages(R, S) = R[FirstOf(S)].size + Pages(R, S \ {FirstOf(S)})
BY SumExists, PagesUnfold, FS_Subset

\* Regions have a natural number of pages.
LEMMA PagesNat ==
  ASSUME NEW R, NEW S, IsFiniteSet(S), \A id \in S : R[id].size \in Nat
  PROVE  Pages(R, S) \in Nat
<1> DEFINE Bad == {V \in SUBSET S : Pages(R, V) \notin Nat}
<1> SUFFICES ASSUME Bad # {} PROVE FALSE
  OBVIOUS
<1>1. PICK V \in Bad : \A W \in SUBSET V : W # V => W \notin Bad
  <2> HIDE DEF Bad
  <2>1. Bad \in SUBSET (SUBSET S)
    BY DEF Bad
  <2> QED BY <2>1, MinimalSubset
<1>2. V \in SUBSET S /\ Pages(R, V) \notin Nat /\ IsFiniteSet(V)
  BY FS_Subset
<1>3. \A W \in SUBSET V : W # V => Pages(R, W) \in Nat
  BY <1>1, <1>2
<1> HIDE DEF Bad
<1>4. V # {}
  <2>1. V = {} => Pages(R, V) = 0
    BY <1>2, PagesFirst
  <2> QED BY <1>2, <2>1
<1>5. PICK x \in V : Pages(R, V) = R[x].size + Pages(R, V \ {x})
  BY <1>2, <1>4, PagesFirst, FirstIn
<1>6. Pages(R, V \ {x}) \in Nat
  BY <1>3
<1> QED BY <1>2, <1>5, <1>6

\* The order in which the regions are counted does not matter.
LEMMA PagesRemove ==
  ASSUME NEW R, NEW S, IsFiniteSet(S), \A id \in S : R[id].size \in Nat, NEW x \in S
  PROVE  Pages(R, S) = R[x].size + Pages(R, S \ {x})
<1> DEFINE Bad == {V \in SUBSET S : \E z \in V : Pages(R, V) # R[z].size + Pages(R, V \ {z})}
<1> SUFFICES ASSUME Bad # {} PROVE FALSE
  OBVIOUS
<1>1. PICK V \in Bad : \A W \in SUBSET V : W # V => W \notin Bad
  <2> HIDE DEF Bad
  <2>1. Bad \in SUBSET (SUBSET S)
    BY DEF Bad
  <2> QED BY <2>1, MinimalSubset
<1>2. V \in SUBSET S /\ IsFiniteSet(V) /\ V # {}
  BY FS_Subset
<1>3. \A W \in SUBSET V : W # V =>
        \A z \in W : Pages(R, W) = R[z].size + Pages(R, W \ {z})
  BY <1>1, <1>2
<1>4. PICK z \in V : Pages(R, V) # R[z].size + Pages(R, V \ {z})
  BY <1>1
<1> HIDE DEF Bad
<1>5. PICK y \in V : Pages(R, V) = R[y].size + Pages(R, V \ {y})
  BY <1>2, PagesFirst, FirstIn
<1>6. y # z
  BY <1>4, <1>5
<1>7. PICK W : W = V \ {y, z}
  OBVIOUS
<1>8. Pages(R, V \ {y}) = R[z].size + Pages(R, W)
  <2>1. (V \ {y}) \ {z} = W /\ V \ {y} \in SUBSET V /\ V \ {y} # V /\ z \in V \ {y}
    BY <1>6, <1>7
  <2> QED BY <1>3, <2>1
<1>9. Pages(R, V \ {z}) = R[y].size + Pages(R, W)
  <2>1. (V \ {z}) \ {y} = W /\ V \ {z} \in SUBSET V /\ V \ {z} # V /\ y \in V \ {z}
    BY <1>6, <1>7
  <2> QED BY <1>3, <2>1
<1>10. Pages(R, W) \in Nat /\ R[y].size \in Nat /\ R[z].size \in Nat
  BY <1>2, <1>7, PagesNat, FS_Subset
<1> QED BY <1>4, <1>5, <1>8, <1>9, <1>10

\* One more region.
LEMMA PagesAdd ==
  ASSUME NEW R, NEW S, IsFiniteSet(S), NEW x, x \notin S,
         R[x].size \in Nat, \A id \in S : R[id].size \in Nat
  PROVE  /\ IsFiniteSet(S \cup {x})
         /\ Pages(R, S \cup {x}) = R[x].size + Pages(R, S)
<1>1. IsFiniteSet(S \cup {x}) /\ (S \cup {x}) \ {x} = S
  BY FS_AddElement
<1> QED BY <1>1, PagesRemove

\* Only the sizes count.
LEMMA PagesSame ==
  ASSUME NEW R, NEW Q, NEW S, IsFiniteSet(S), \A id \in S : R[id].size = Q[id].size
  PROVE  Pages(R, S) = Pages(Q, S)
<1>1. PICK f : IsSum(f, R, S)
  BY SumExists DEF HasSum
<1>2. PICK g : IsSum(g, Q, S)
  BY SumExists DEF HasSum
<1>3. Pages(R, S) = f[S] /\ Pages(Q, S) = g[S]
  BY <1>1, <1>2, PagesUnique DEF HasSum
<1> QED BY <1>1, <1>2, <1>3, SumUnique

-----------------------------------------------------------------------------
(***************************************************************************)
(* What the updates of the region table do to the pages of each process.   *)
(***************************************************************************)
\* The region table is a dict: it has finitely many regions.
RegionsFinite == IsFiniteSet(DOMAIN memory_regions)

\* The pages of a process, as PagesFirst and the lemmas after it count them.
LEMMA PagesOfIs ==
  ASSUME MemoryTypeOK, RegionsFinite
  PROVE  \A pid :
           /\ PagesOf(pid) = Pages(memory_regions, OwnedBy(pid)) /\ PagesOf(pid) \in Nat
           /\ IsFiniteSet(OwnedBy(pid))
           /\ \A id \in OwnedBy(pid) : memory_regions[id].size \in Nat \ {0}
<1> SUFFICES ASSUME NEW pid
             PROVE  /\ PagesOf(pid) = Pages(memory_regions, OwnedBy(pid)) /\ PagesOf(pid) \in Nat
                    /\ IsFiniteSet(OwnedBy(pid))
                    /\ \A id \in OwnedBy(pid) : memory_regions[id].size \in Nat \ {0}
  OBVIOUS
<1>1. PagesOf(pid) = Pages(memory_regions, OwnedBy(pid))
  BY DEF PagesOf
<1>2. IsFiniteSet(OwnedBy(pid))
  BY FS_Subset DEF RegionsFinite, OwnedBy
<1>3. \A id \in OwnedBy(pid) : memory_regions[id].size \in Nat \ {0}
  BY DEF MemoryTypeOK, OwnedBy
<1>4. PagesOf(pid) \in Nat
  BY <1>1, <1>2, <1>3, PagesNat
<1> QED BY <1>1, <1>2, <1>3, <1>4

\* The same, after a step.
LEMMA PagesOfNext == \A pid : PagesOf(pid)' = Pages(memory_regions', OwnedBy(pid)')
BY DEF PagesOf

\* A process whose regions a step leaves alone keeps its pages.
LEMMA PagesKept ==
  ASSUME MemoryTypeOK, RegionsFinite, NEW pid, OwnedBy(pid)' = OwnedBy(pid),
         \A id \in OwnedBy(pid) : memory_regions'[id] = memory_regions[id]
  PROVE  PagesOf(pid)' = PagesOf(pid)
<1>1. PagesOf(pid) = Pages(memory_regions, OwnedBy(pid)) /\ IsFiniteSet(OwnedBy(pid))
  BY PagesOfIs
<1>2. PagesOf(pid)' = Pages(memory_regions', OwnedBy(pid))
  BY PagesOfNext
<1>3. \A id \in OwnedBy(pid) : memory_regions[id].size = memory_regions'[id].size
  OBVIOUS
<1> QED BY <1>1, <1>2, <1>3, PagesSame

\* A process that gets a region gets its pages.
LEMMA PagesGained ==
  ASSUME MemoryTypeOK, RegionsFinite, NEW pid, NEW id, id \notin OwnedBy(pid),
         OwnedBy(pid)' = OwnedBy(pid) \cup {id}, memory_regions'[id].size \in Nat,
         \A other \in OwnedBy(pid) : memory_regions'[other] = memory_regions[other]
  PROVE  PagesOf(pid)' = PagesOf(pid) + memory_regions'[id].size
<1>1. /\ PagesOf(pid) = Pages(memory_regions, OwnedBy(pid)) /\ PagesOf(pid) \in Nat
      /\ IsFiniteSet(OwnedBy(pid))
      /\ \A other \in OwnedBy(pid) : memory_regions[other].size \in Nat
  BY PagesOfIs
<1>2. PagesOf(pid)' = Pages(memory_regions', OwnedBy(pid) \cup {id})
  BY PagesOfNext
<1>3. \A other \in OwnedBy(pid) :
        /\ memory_regions[other].size = memory_regions'[other].size
        /\ memory_regions'[other].size \in Nat
  BY <1>1
<1>4. Pages(memory_regions', OwnedBy(pid)) = PagesOf(pid)
  BY <1>1, <1>3, PagesSame
<1>5. Pages(memory_regions', OwnedBy(pid) \cup {id})
        = memory_regions'[id].size + Pages(memory_regions', OwnedBy(pid))
  BY <1>1, <1>3, PagesAdd
<1> QED BY <1>1, <1>2, <1>4, <1>5

\* A process that loses a region loses its pages.
LEMMA PagesLost ==
  ASSUME MemoryTypeOK, RegionsFinite, NEW pid, NEW id \in OwnedBy(pid),
         OwnedBy(pid)' = OwnedBy(pid) \ {id},
         \A other \in OwnedBy(pid)' : memory_regions'[other] = memory_regions[other]
  PROVE  PagesOf(pid)' = PagesOf(pid) - memory_regions[id].size
<1>1. /\ PagesOf(pid) = Pages(memory_regions, OwnedBy(pid)) /\ PagesOf(pid) \in Nat
      /\ IsFiniteSet(OwnedBy(pid)) /\ IsFiniteSet(OwnedBy(pid) \ {id})
      /\ \A other \in OwnedBy(pid) : memory_regions[other].size \in Nat
  BY PagesOfIs, FS_Subset
<1>2. PagesOf(pid)' = Pages(memory_regions', OwnedBy(pid) \ {id})
  BY PagesOfNext
<1>3. \A other \in OwnedBy(pid) \ {id} :
        memory_regions[other].size = memory_regions'[other].size
  OBVIOUS
<1>4. Pages(memory_regions', OwnedBy(pid) \ {id}) = Pages(memory_regions, OwnedBy(pid) \ {id})
  BY <1>1, <1>3, PagesSame
<1>5. Pages(memory_regions, OwnedBy(pid))
        = memory_regions[id].size + Pages(memory_regions, OwnedBy(pid) \ {id})
  BY <1>1, PagesRemove
<1>6. /\ Pages(memory_regions, OwnedBy(pid) \ {id}) \in Nat
      /\ memory_regions[id].size \in Nat
  BY <1>1, PagesNat
<1> QED BY <1>1, <1>2, <1>4, <1>5, <1>6

\* process_create gives 7 MB.
LEMMA PagesCreateFacts ==
  ASSUME ProcessTypeOK, MemoryInv, RegionsFinite, NEW new, new = next_pid,
         AddProcess, InitProcessMemory(next_pid)
  PROVE  /\ RegionsFinite'
         /\ PagesOf(new)' = PagesOf(new) + 7 * MB
         /\ \A pid : pid # new => PagesOf(pid)' = PagesOf(pid)
<1> DEFINE code == <<new, "code">>
           data == <<new, "data">>
           stack == <<new, "stack">>
           seg == Segments(new)
<1>1. new \in Nat
  BY DEF ProcessTypeOK
<1>2. /\ DOMAIN seg = {code, data, stack}
      /\ seg[code].size = 256 /\ seg[data].size = 1024 /\ seg[stack].size = 512
      /\ \A id \in DOMAIN seg : seg[id].owner_pid = new
  BY DEF Segments, Region, MB
<1>3. code # data /\ code # stack /\ data # stack
  OBVIOUS
<1>4. DOMAIN seg \cap DOMAIN memory_regions = {}
  <2>1. DOMAIN seg \subseteq Nat \X Names
    BY <1>1, <1>2 DEF Names
  <2>2. DOMAIN seg \cap UUIDs = {}
    BY <2>1, UUIDsAssumption DEF Names
  <2>3. DOMAIN seg \cap ((0..(next_pid - 1)) \X Names) = {}
    BY <1>1, <1>2
  <2> QED BY <2>2, <2>3 DEF MemoryInv, IdsFresh
<1>5. /\ DOMAIN memory_regions' = DOMAIN memory_regions \cup {code, data, stack}
      /\ \A id \in DOMAIN memory_regions : memory_regions'[id] = memory_regions[id]
      /\ \A id \in DOMAIN seg : memory_regions'[id] = seg[id]
  BY <1>2, <1>4 DEF InitProcessMemory
<1> HIDE DEF code, data, stack, seg
<1>6. RegionsFinite'
  <2>1. IsFiniteSet(DOMAIN memory_regions \cup {code})
    BY FS_AddElement DEF RegionsFinite
  <2>2. IsFiniteSet((DOMAIN memory_regions \cup {code}) \cup {data})
    BY <2>1, FS_AddElement
  <2>3. IsFiniteSet(((DOMAIN memory_regions \cup {code}) \cup {data}) \cup {stack})
    BY <2>2, FS_AddElement
  <2>4. DOMAIN memory_regions' = ((DOMAIN memory_regions \cup {code}) \cup {data}) \cup {stack}
    BY <1>5
  <2> QED BY <2>3, <2>4 DEF RegionsFinite
<1>7. OwnedBy(new)' = ((OwnedBy(new) \cup {code}) \cup {data}) \cup {stack}
  BY <1>2, <1>5 DEF OwnedBy
<1>8. \A pid : pid # new => OwnedBy(pid)' = OwnedBy(pid)
  BY <1>2, <1>4, <1>5 DEF OwnedBy
<1>9. MemoryTypeOK
  BY DEF MemoryInv
<1>10. \A pid : pid # new => PagesOf(pid)' = PagesOf(pid)
  BY <1>5, <1>8, <1>9, PagesKept DEF OwnedBy
<1>11. PagesOf(new)' = PagesOf(new) + 7 * MB
  <2> DEFINE S0 == OwnedBy(new)
             S1 == S0 \cup {code}
             S2 == S1 \cup {data}
             R == memory_regions'
  <2>1. /\ PagesOf(new) = Pages(memory_regions, S0) /\ PagesOf(new) \in Nat
        /\ IsFiniteSet(S0) /\ \A id \in S0 : memory_regions[id].size \in Nat
    BY <1>9, PagesOfIs
  <2>2. \A id \in S0 : R[id].size \in Nat /\ R[id].size = memory_regions[id].size
    BY <1>5, <2>1 DEF OwnedBy
  <2>3. R[code].size = 256 /\ R[data].size = 1024 /\ R[stack].size = 512
    BY <1>2, <1>5
  <2>4. code \notin S0 /\ data \notin S1 /\ stack \notin S2
    BY <1>2, <1>3, <1>4 DEF OwnedBy
  <2>5. PagesOf(new)' = Pages(R, S2 \cup {stack})
    BY <1>7, PagesOfNext
  <2> HIDE DEF S0, S1, S2, R
  <2>6. Pages(R, S0) = Pages(memory_regions, S0)
    BY <2>1, <2>2, PagesSame
  <2>7. \A id \in S2 : R[id].size \in Nat
    BY <2>2, <2>3 DEF S1, S2
  <2>8. \A id \in S1 : R[id].size \in Nat
    BY <2>7 DEF S2
  <2>9. IsFiniteSet(S1) /\ Pages(R, S1) = R[code].size + Pages(R, S0)
    <3>1. R[code].size \in Nat
      BY <2>3
    <3> QED BY <2>1, <2>2, <2>4, <3>1, PagesAdd DEF S1
  <2>10. IsFiniteSet(S2) /\ Pages(R, S2) = R[data].size + Pages(R, S1)
    <3>1. R[data].size \in Nat
      BY <2>3
    <3> QED BY <2>4, <2>8, <2>9, <3>1, PagesAdd DEF S2
  <2>11. Pages(R, S2 \cup {stack}) = R[stack].size + Pages(R, S2)
    <3>1. R[stack].size \in Nat
      BY <2>3
    <3> QED BY <2>4, <2>7, <2>10, <3>1, PagesAdd
  <2> QED BY <2>1, <2>3, <2>5, <2>6, <2>9, <2>10, <2>11 DEF MB
<1> QED BY <1>6, <1>10, <1>11

\* process_exit takes pages from no other process.
LEMMA PagesExitFacts ==
  ASSUME MemoryInv, RegionsFinite, NEW pid, FreeProcessMemory(pid), MemoryTypeOK'
  PROVE  /\ RegionsFinite'
         /\ PagesOf(pid)' \in Nat
         /\ \A other : other # pid => PagesOf(other)' = PagesOf(other)
<1>1. /\ DOMAIN memory_regions' \subseteq DOMAIN memory_regions
      /\ \A id \in DOMAIN memory_regions' : memory_regions'[id] = memory_regions[id]
      /\ \A id \in DOMAIN memory_regions :
           memory_regions[id].owner_pid # pid => id \in DOMAIN memory_regions'
  BY DEF FreeProcessMemory, DropRegions, Restrict, memVars, MemoryInv, IndexOwned, OwnedBy
<1>2. RegionsFinite'
  BY <1>1, FS_Subset DEF RegionsFinite
<1>3. \A other : other # pid => OwnedBy(other)' = OwnedBy(other)
  BY <1>1 DEF OwnedBy
<1>4. \A other : other # pid => PagesOf(other)' = PagesOf(other)
  BY <1>1, <1>3, PagesKept DEF MemoryInv, OwnedBy
<1>5. PagesOf(pid)' \in Nat
  <2>1. PagesOf(pid)' = Pages(memory_regions', OwnedBy(pid)')
    BY PagesOfNext
  <2>2. IsFiniteSet(OwnedBy(pid)')
    BY <1>2, FS_Subset DEF RegionsFinite, OwnedBy
  <2>3. \A id \in OwnedBy(pid)' : memory_regions'[id].size \in Nat
    BY DEF MemoryTypeOK, OwnedBy
  <2> QED BY <2>1, <2>2, <2>3, PagesNat
<1> QED BY <1>2, <1>4, <1>5

\* memory_allocate and memory_map give the pages of the region to its owner.
LEMMA PagesAddFacts ==
  ASSUME MemoryInv, RegionsFinite, NEW id, NEW region, AddRegion(id, region),
         region.size \in Nat
  PROVE  /\ RegionsFinite'
         /\ PagesOf(region.owner_pid)' = PagesOf(region.owner_pid) + region.size
         /\ \A other : other # region.owner_pid => PagesOf(other)' = PagesOf(other)
<1>1. PICK pid : pid = region.owner_pid
  OBVIOUS
<1>2. /\ id \notin DOMAIN memory_regions
      /\ DOMAIN memory_regions' = DOMAIN memory_regions \cup {id}
      /\ memory_regions'[id] = region
      /\ \A other \in DOMAIN memory_regions : memory_regions'[other] = memory_regions[other]
  BY DEF AddRegion, Put
<1>3. RegionsFinite'
  BY <1>2, FS_AddElement DEF RegionsFinite
<1>4. /\ id \notin OwnedBy(pid) /\ OwnedBy(pid)' = OwnedBy(pid) \cup {id}
      /\ \A other : other # pid => OwnedBy(other)' = OwnedBy(other)
  BY <1>1, <1>2 DEF OwnedBy
<1>5. \A other : \A x \in OwnedBy(other) : memory_regions'[x] = memory_regions[x]
  BY <1>2 DEF OwnedBy
<1>6. MemoryTypeOK
  BY DEF MemoryInv
<1>7. \A other : other # pid => PagesOf(other)' = PagesOf(other)
  BY <1>4, <1>5, <1>6, PagesKept
<1>8. PagesOf(pid)' = PagesOf(pid) + region.size
  <2>1. PagesOf(pid)' = PagesOf(pid) + memory_regions'[id].size
    BY <1>2, <1>4, <1>5, <1>6, PagesGained
  <2> QED BY <1>2, <2>1
<1> QED BY <1>1, <1>3, <1>7, <1>8

\* memory_free takes the pages of the region from its owner.
LEMMA PagesFreeFacts ==
  ASSUME MemoryInv, RegionsFinite, NEW pid, NEW id, Free(pid, id)
  PROVE  /\ RegionsFinite'
         /\ PagesOf(pid)' = PagesOf(pid) - memory_regions[id].size
         /\ \A other : other # pid => PagesOf(other)' = PagesOf(other)
<1>1. /\ id \in DOMAIN memory_regions /\ memory_regions[id].owner_pid = pid
      /\ DOMAIN memory_regions' = DOMAIN memory_regions \ {id}
      /\ \A other \in DOMAIN memory_regions' : memory_regions'[other] = memory_regions[other]
  BY DEF Free, Del, Restrict
<1>2. RegionsFinite'
  BY <1>1, FS_Subset DEF RegionsFinite
<1>3. /\ id \in OwnedBy(pid) /\ OwnedBy(pid)' = OwnedBy(pid) \ {id}
      /\ \A other : other # pid => OwnedBy(other)' = OwnedBy(other)
  BY <1>1 DEF OwnedBy
<1>4. \A other : \A x \in OwnedBy(other)' : memory_regions'[x] = memory_regions[x]
  BY <1>1 DEF OwnedBy
<1>5. MemoryTypeOK
  BY DEF MemoryInv
<1>6. \A other : other # pid => PagesOf(other)' = PagesOf(other)
  BY <1>3, <1>4, <1>5, PagesKept
<1>7. PagesOf(pid)' = PagesOf(pid) - memory_regions[id].size
  BY <1>3, <1>4, <1>5, PagesLost
<1> QED BY <1>2, <1>6, <1>7
=============================================================================
