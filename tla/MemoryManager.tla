--------------------------- MODULE MemoryManager ---------------------------
(***************************************************************************)
(* The memory-management state of CoreSystem (core_system.py): the region  *)
(* table, the per-process index into it and the memory_usage counter of    *)
(* each ProcessInfo, with the updates that the system calls make to them.  *)
(* Every update happens in one `with self._mem_lock` block.                *)
(*                                                                         *)
(* Addresses and sizes are in pages of 4 KiB: every constant of the code   *)
(* is a multiple of a page.  A region id is a fresh uuid, or a pair of a   *)
(* pid and a name that stands for the code's f"{pid}_code" and the like.   *)
(***************************************************************************)
EXTENDS ProcessTable

CONSTANTS
  UUIDs,         \* the values that uuid.uuid4() may return for a region
  AllocSizes,    \* the sizes that clients ask memory_allocate for
  MapAddresses,  \* the local_address arguments that clients give memory_map
  MaxAddress,    \* bound: the address below which allocated regions end
  MinUsage       \* bound: the value below which memory_usage does not fall

ASSUME UUIDsAssumption ==
  UUIDs \cap (Nat \X {"kernel_main", "system_shared", "code", "data", "stack"}) = {}
ASSUME AllocSizesAssumption == AllocSizes \subseteq Int
ASSUME MapAddressesAssumption == MapAddresses \subseteq Int
ASSUME MemoryBoundsAssumption == MaxAddress \in Int /\ MinUsage \in Int

VARIABLES
  memory_regions,  \* region id -> the region (a dict)
  process_memory,  \* pid -> the ids of its regions (a dict of lists)
  memory_usage     \* pid -> ProcessInfo.memory_usage

memVars == <<memory_regions, process_memory, memory_usage>>

MB        == 256
USER_BASE == 512 * MB    \* 0x20000000
MAP_BASE  == 768 * MB    \* 0x30000000

MemoryType == {"NORMAL", "SHARED", "LOCKED", "HUGE", "DEVICE"}

Region(start, size, owner, type) ==
  [start |-> start, size |-> size, owner_pid |-> owner, memory_type |-> type]

End(region) == region.start + region.size

-----------------------------------------------------------------------------
\* _init_memory: the two regions of the kernel.
KernelRegions ==
  [id \in {<<KERNEL, "kernel_main">>, <<KERNEL, "system_shared">>} |->
     IF id[2] = "kernel_main"
     THEN Region(1, 64 * MB, KERNEL, "LOCKED")
     ELSE Region(256 * MB, 32 * MB, KERNEL, "SHARED")]

MemoryInit ==
  /\ memory_regions = KernelRegions
  /\ process_memory = [pid \in {KERNEL} |-> DOMAIN KernelRegions]
  /\ memory_usage = [pid \in {KERNEL, INIT} |-> 0]

\* The regions of a new process: code at 512 MB, data and stack above it.
Segments(pid) ==
  [id \in {<<pid, "code">>, <<pid, "data">>, <<pid, "stack">>} |->
     CASE id[2] = "code"  -> Region(USER_BASE, 1 * MB, pid, "NORMAL")
       [] id[2] = "data"  -> Region(528 * MB, 4 * MB, pid, "NORMAL")
       [] id[2] = "stack" -> Region(544 * MB, 2 * MB, pid, "NORMAL")]

\* _init_process_memory: the index entry is assigned, not extended.
InitProcessMemory(pid) ==
  /\ memory_regions' =
       [id \in DOMAIN memory_regions \cup DOMAIN Segments(pid) |->
          IF id \in DOMAIN Segments(pid) THEN Segments(pid)[id]
                                         ELSE memory_regions[id]]
  /\ process_memory' = Put(process_memory, pid, DOMAIN Segments(pid))
  /\ memory_usage' = Put(memory_usage, pid, 7 * MB)

DropRegions_none(ids) == UNCHANGED memory_regions
DropRegions(ids) ==
  memory_regions' = Restrict(memory_regions, DOMAIN memory_regions \ ids)

\* _free_process_memory: every region that the index lists goes.
FreeProcessMemory(pid) ==
  IF pid \in DOMAIN process_memory
  THEN /\ DropRegions(process_memory[pid])
       /\ process_memory' = Del(process_memory, pid)
       /\ memory_usage' = [memory_usage EXCEPT ![pid] = 0]
  ELSE UNCHANGED memVars

\* The ids of a process's regions, none when the index has no entry for it.
RegionsOf(pid) ==
  IF pid \in DOMAIN process_memory THEN process_memory[pid] ELSE {}

\* A new region enters the table and its owner's index.
AddRegion(id, region) ==
  /\ id \notin DOMAIN memory_regions
  /\ memory_regions' = Put(memory_regions, id, region)
  /\ process_memory' = Put(process_memory, region.owner_pid,
                           RegionsOf(region.owner_pid) \cup {id})

-----------------------------------------------------------------------------
ValidSize_zero(size) == size >= 0
ValidSize(size) == size > 0

\* The base of user space and the ends of the regions of the process; a new
\* region starts at the highest of them.
Ends(pid) == {USER_BASE} \cup {End(memory_regions[id]) : id \in RegionsOf(pid)}

IsStart_any(pid, start) == start \in Ends(pid)
IsStart(pid, start) == start \in Ends(pid) /\ \A end \in Ends(pid) : end <= start

\* _syscall_memory_allocate
Allocate(pid, size, uuid) ==
  /\ Exists(pid)
  /\ ValidSize(size)
  /\ \E start \in Ends(pid) :
       /\ IsStart(pid, start)
       /\ start + size <= MaxAddress
       /\ AddRegion(uuid, Region(start, size, pid, "NORMAL"))
  /\ memory_usage' = [memory_usage EXCEPT ![pid] = @ + size]

\* A freed region leaves the index of its owner and its memory usage.
Unindex_none(pid, id) == UNCHANGED process_memory
Unindex(pid, id) ==
  process_memory' = IF id \in RegionsOf(pid)
                    THEN [process_memory EXCEPT ![pid] = @ \ {id}]
                    ELSE process_memory

Discount_none(pid, id) == UNCHANGED memory_usage
Discount(pid, id) ==
  memory_usage' = IF Exists(pid)
                  THEN [memory_usage EXCEPT ![pid] = @ - memory_regions[id].size]
                  ELSE memory_usage

\* _syscall_memory_free: only the owner may free a region.
Free(pid, id) ==
  /\ id \in DOMAIN memory_regions
  /\ memory_regions[id].owner_pid = pid
  /\ Exists(pid) => memory_usage[pid] - memory_regions[id].size >= MinUsage
  /\ Unindex(pid, id)
  /\ Discount(pid, id)
  /\ memory_regions' = Del(memory_regions, id)

\* _syscall_memory_map: the one handler that does not check that the process
\* exists.  A mapping does not count as memory usage.
Map(pid, target, local_address, uuid) ==
  /\ target \in DOMAIN memory_regions
  /\ \/ memory_regions[target].memory_type = "SHARED"
     \/ memory_regions[target].owner_pid = pid
  /\ LET start == IF local_address > 0 THEN local_address ELSE MAP_BASE
     IN AddRegion(uuid,
                  Region(start, memory_regions[target].size, pid, "SHARED"))
  /\ UNCHANGED memory_usage

-----------------------------------------------------------------------------
\* Type correctness of the region table: no region is empty, and only processes
\* have a memory usage.
MemoryTypeOK ==
  /\ memory_regions \in
       [DOMAIN memory_regions ->
          [start: Int, size: Nat \ {0}, owner_pid: Nat, memory_type: MemoryType]]
  /\ DOMAIN process_memory \subseteq Nat
  /\ process_memory \in [DOMAIN process_memory -> SUBSET DOMAIN memory_regions]
  /\ memory_usage \in [DOMAIN processes -> Int]

OwnedBy(pid) == {id \in DOMAIN memory_regions : memory_regions[id].owner_pid = pid}

\* The pages of some regions, and those of the regions that a process owns.
Pages(regions, ids) == MapThenSumSet(LAMBDA id : regions[id].size, ids)
PagesOf(pid) == Pages(memory_regions, OwnedBy(pid))

\* The per-process index and the region table agree: the index of a process
\* lists the regions that it owns, all of them and no other.  process_exit
\* frees what the index lists, and memory_allocate places a region above what
\* the index lists.
RegionIndexExact ==
  /\ \A pid \in DOMAIN process_memory : process_memory[pid] = OwnedBy(pid)
  /\ \A id \in DOMAIN memory_regions :
       memory_regions[id].owner_pid \in DOMAIN process_memory

\* Two regions share no page.
Disjoint(r, s) == End(r) <= s.start \/ End(s) <= r.start

\* A new region overlaps no other region of its owner, unless it is a mapping.
NewRegionsDisjoint ==
  \A id \in DOMAIN memory_regions' \ DOMAIN memory_regions :
    memory_regions'[id].memory_type = "NORMAL" =>
      \A other \in DOMAIN memory_regions' \ {id} :
        memory_regions'[other].owner_pid = memory_regions'[id].owner_pid =>
          Disjoint(memory_regions'[id], memory_regions'[other])
=============================================================================
