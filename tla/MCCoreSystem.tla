---------------------------- MODULE MCCoreSystem ----------------------------
(***************************************************************************)
(* Instances of CoreSystem for TLC.                                        *)
(***************************************************************************)
EXTENDS CoreSystem

ProcessAndIpcCalls ==
  {"process_create", "process_exit", "process_wait", "ipc_send", "ipc_receive"}

MemoryCalls ==
  {"process_create", "process_exit", "memory_allocate", "memory_free", "memory_map"}

\* The specification names no uuid, so states that differ in the uuids of their
\* regions behave alike.
UUIDSymmetry == Permutations(UUIDs)

\* Deep enough for a process to free a shared mapping that was never counted.
UsageFloor == -32 * MB
=============================================================================
