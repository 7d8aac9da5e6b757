--------------------------- MODULE TrinityKernel ---------------------------
(***************************************************************************)
(* TrinityKernel (trinity_service_main.py): the reload and drain requests, *)
(* each run by a thread of its own, on the two files of the configuration, *)
(* the kernel's copy of it, and the two flags that say "ready".            *)
(*                                                                         *)
(* A file is what a path names; a handle that is open for writing goes on  *)
(* writing to its file wherever os.replace has moved it.  A reload of      *)
(* another path (config_path) works on two files of its own, which nothing *)
(* else looks at: of it the model keeps what it does to the kernel.        *)
(***************************************************************************)
EXTENDS RequestThreads

CONSTANTS
  Documents,    \* what json.load returns for a file that parses
  Objects,      \* the documents that are JSON objects
  Text,         \* the content of a whole file that does not parse
  Empty, Torn,  \* a file just truncated, and one holding pieces of a text
  Absent        \* the content of a path that names no file

ASSUME KernelAssumption ==
  /\ Objects \subseteq Documents
  /\ {Text, Empty, Torn, Absent} \cap Documents = {}
  /\ Text \notin {Empty, Torn, Absent}
  /\ Empty \notin {Torn, Absent}
  /\ Torn # Absent

VARIABLES
  file, tmp,            \* <config> and <config>.tmp
  config,               \* kernel.config
  ready, server_ready,  \* kernel.ready and server.ready
  at,                   \* thread -> the next step of its reload or drain
  doc,                  \* thread -> new_cfg
  handle,               \* thread -> the file its handle writes to
  value,                \* thread -> the self.ready it has read
  edited,               \* history: what the operator last put into <config>
  alone,                \* history: the threads whose reload of <config> met no other
                        \* reload and no edit
  tmp_shared,           \* history: two reloads have used <config>.tmp at once
  edit_raced,           \* history: an edit came between a reload's read and its replace
  flags_raced           \* history: the latest drains overlapped

files      == <<file, tmp>>
flags      == <<ready, server_ready>>
history    == <<edited, alone, tmp_shared, edit_raced, flags_raced>>
kernelVars == <<files, config, flags, at, doc, handle, value, history>>

Whole == Documents \cup {Text}

KernelGoto(t, l) == at' = [at EXCEPT ![t] = l]

\* The threads in a reload, of <config> or of another path; those that have read
\* <config> and not yet replaced it; those that use <config>.tmp; those in a drain.
Reloading == {t \in Workers : at[t] \in {"read", "read_other", "open", "write", "replace",
                                         "install", "finish"}}
Rewriting == {t \in Workers : at[t] \in {"open", "write", "replace"}}
UsingTmp  == {t \in Workers : at[t] \in {"write", "replace"}}
Draining  == {t \in Workers : at[t] \in {"drain_read", "drain_publish"}}

KernelInit ==
  /\ file \in Objects /\ config = file /\ edited = file
  /\ tmp = Absent
  /\ ready = TRUE /\ server_ready = TRUE
  /\ at = [t \in Workers |-> "idle"]
  /\ doc = [t \in Workers |-> config]
  /\ handle = [t \in Workers |-> "none"]
  /\ value = [t \in Workers |-> TRUE]
  /\ alone = {}
  /\ tmp_shared = FALSE /\ edit_raced = FALSE /\ flags_raced = FALSE

-----------------------------------------------------------------------------
(***************************************************************************)
(* handle_reload                                                           *)
(***************************************************************************)

reload(t) ==
  /\ at[t] = "idle"
  /\ KernelGoto(t, "read")
  /\ alone' = IF Reloading = {} THEN {t} ELSE {}
  /\ UNCHANGED <<files, config, flags, doc, handle, value, edited, tmp_shared,
                 edit_raced, flags_raced>>

\* The request names another path than <config> and its temporary file.
reload_other(t) ==
  /\ at[t] = "idle"
  /\ KernelGoto(t, "read_other")
  /\ alone' = {}
  /\ UNCHANGED <<files, config, flags, doc, handle, value, edited, tmp_shared,
                 edit_raced, flags_raced>>

\* The other file is read and rewritten; anything that fails there ends the reload.
reload_elsewhere(t) ==
  /\ at[t] = "read_other"
  /\ \/ \E d \in Documents : doc' = [doc EXCEPT ![t] = d] /\ KernelGoto(t, "install")
     \/ KernelGoto(t, "idle") /\ UNCHANGED doc
  /\ UNCHANGED <<files, config, flags, handle, value, history>>

\* json.load raises on everything but a document, and the reload ends there.
reload_read(t) ==
  /\ at[t] = "read"
  /\ IF file \in Documents
     THEN doc' = [doc EXCEPT ![t] = file] /\ KernelGoto(t, "open")
     ELSE KernelGoto(t, "idle") /\ UNCHANGED doc
  /\ UNCHANGED <<files, config, flags, handle, value, history>>

\* open(tmp, "w") creates the file or truncates it.
reload_open_in_place(t) ==
  /\ at[t] = "open"
  /\ file' = Empty
  /\ handle' = [handle EXCEPT ![t] = "file"]
  /\ KernelGoto(t, "write")
  /\ UNCHANGED <<tmp, config, flags, doc, value, history>>
reload_open(t) ==
  /\ at[t] = "open"
  /\ tmp' = Empty
  /\ handle' = [handle EXCEPT ![t] = "tmp"]
  /\ tmp_shared' = (tmp_shared \/ UsingTmp # {})
  /\ KernelGoto(t, "write")
  /\ UNCHANGED <<file, config, flags, doc, value, edited, alone,
                 edit_raced, flags_raced>>

\* What a write by t leaves in a file that held `content`: its document, if the file
\* was empty and t's alone, and else possibly pieces of two.
Sole(t) == \A u \in Workers \ {t} : handle[u] # handle[t]
Written(t, content) ==
  IF content = Empty /\ Sole(t) THEN {doc[t]} ELSE {doc[t], Torn}

\* A write of t that leaves one of these in the file that its handle writes to.
Leaves(t, in_tmp, in_file) ==
  \/ handle[t] = "tmp"    /\ tmp'  \in in_tmp  /\ UNCHANGED file
  \/ handle[t] = "file"   /\ file' \in in_file /\ UNCHANGED tmp
  \/ handle[t] = "orphan" /\ UNCHANGED files

reload_write(t) ==
  /\ at[t] = "write"
  /\ Leaves(t, Written(t, tmp), Written(t, file))
  /\ handle' = [handle EXCEPT ![t] = "none"]
  /\ KernelGoto(t, "replace")
  /\ UNCHANGED <<config, flags, doc, value, history>>

\* A write that fails half-way (no space left) ends the reload.
reload_write_fails_goes_on(t) ==
  /\ at[t] = "write"
  /\ Leaves(t, {tmp, Torn}, {file, Torn})
  /\ handle' = [handle EXCEPT ![t] = "none"]
  /\ KernelGoto(t, "replace")
  /\ UNCHANGED <<config, flags, doc, value, history>>
reload_write_fails(t) ==
  /\ at[t] = "write"
  /\ Leaves(t, {tmp, Torn}, {file, Torn})
  /\ handle' = [handle EXCEPT ![t] = "none"]
  /\ KernelGoto(t, "idle")
  /\ UNCHANGED <<config, flags, doc, value, history>>

\* Where a handle writes after <config> was replaced by another file.
Moved(h) == CASE h = "file" -> "orphan" [] h = "tmp" -> "file" [] OTHER -> h

\* os.replace(tmp, cfg_file) raises if another reload has taken the file away.
reload_replace(t) ==
  /\ at[t] = "replace"
  /\ IF tmp # Absent
     THEN /\ file' = tmp /\ tmp' = Absent
          /\ handle' = [u \in Workers |-> Moved(handle[u])]
          /\ KernelGoto(t, "install")
     ELSE KernelGoto(t, "idle") /\ UNCHANGED <<files, handle>>
  /\ UNCHANGED <<config, flags, doc, value, history>>

reload_install_checked(t) ==
  /\ at[t] = "install"
  /\ config' = IF doc[t] \in Objects THEN doc[t] ELSE config
  /\ KernelGoto(t, "finish")
  /\ UNCHANGED <<files, flags, doc, handle, value, history>>
reload_install(t) ==
  /\ at[t] = "install"
  /\ config' = doc[t]
  /\ KernelGoto(t, "finish")
  /\ UNCHANGED <<files, flags, doc, handle, value, history>>

\* new_cfg.keys() raises unless it is an object: the reload then answers that it
\* failed, with the configuration installed.
reload_finish(t) ==
  /\ at[t] = "finish"
  /\ KernelGoto(t, "idle")
  /\ UNCHANGED <<files, config, flags, doc, handle, value, history>>

-----------------------------------------------------------------------------
(***************************************************************************)
(* handle_drain: drain is set_ready FALSE, undrain set_ready TRUE.         *)
(***************************************************************************)

drain(t, enable) ==
  /\ at[t] = "idle"
  /\ ready' = ~enable
  /\ flags_raced' = (Draining # {})
  /\ KernelGoto(t, "drain_read")
  /\ UNCHANGED <<files, config, server_ready, doc, handle, value,
                 edited, alone, tmp_shared, edit_raced>>

drain_read(t) ==
  /\ at[t] = "drain_read"
  /\ value' = [value EXCEPT ![t] = ready]
  /\ KernelGoto(t, "drain_publish")
  /\ UNCHANGED <<files, config, flags, doc, handle, history>>

drain_publish_no_server(t) ==
  /\ at[t] = "drain_publish"
  /\ KernelGoto(t, "idle")
  /\ UNCHANGED <<files, config, flags, doc, handle, value, history>>
drain_publish(t) ==
  /\ at[t] = "drain_publish"
  /\ server_ready' = value[t]
  /\ KernelGoto(t, "idle")
  /\ UNCHANGED <<files, config, ready, doc, handle, value, history>>

\* A request of the thread goes on.
KernelStep(t) ==
  \/ reload_read(t) \/ reload_elsewhere(t) \/ reload_open(t)
  \/ reload_write(t) \/ reload_write_fails(t)
  \/ reload_replace(t) \/ reload_install(t) \/ reload_finish(t)
  \/ drain_read(t) \/ drain_publish(t)

KernelBegin(t) ==
  reload(t) \/ reload_other(t) \/ \E enable \in BOOLEAN : drain(t, enable)

-----------------------------------------------------------------------------
(***************************************************************************)
(* The operator, and the end and start of the process.                     *)
(***************************************************************************)

\* The operator replaces <config> by a whole file of any kind.
edit(content) ==
  /\ file' = content /\ edited' = content
  /\ handle' = [u \in Workers |-> IF handle[u] = "file" THEN "orphan" ELSE handle[u]]
  /\ alone' = {}
  /\ edit_raced' = (edit_raced \/ Rewriting # {})
  /\ UNCHANGED <<tmp, config, flags, at, doc, value, tmp_shared, flags_raced>>

\* The process is killed: what a thread was writing may be there in part, and a
\* drain is forgotten.
kernel_crash ==
  /\ tmp'  \in IF \E t \in Workers : handle[t] = "tmp"  THEN {tmp, Torn}  ELSE {tmp}
  /\ file' \in IF \E t \in Workers : handle[t] = "file" THEN {file, Torn} ELSE {file}
  /\ at' = [t \in Workers |-> "idle"]
  /\ handle' = [t \in Workers |-> "none"]
  /\ ready' = TRUE /\ server_ready' = TRUE
  /\ UNCHANGED <<config, doc, value, history>>

\* __init__: only an object can be loaded (main takes the host and the port from it).
\* A <config>.tmp left behind is not looked at.
kernel_start ==
  /\ file \in Objects
  /\ config' = file /\ edited' = file
  /\ alone' = {}
  /\ tmp_shared' = FALSE /\ edit_raced' = FALSE /\ flags_raced' = FALSE
  /\ UNCHANGED <<files, flags, at, doc, handle, value>>
-----------------------------------------------------------------------------
Steps == {"idle", "read", "read_other", "open", "write", "replace", "install", "finish",
          "drain_read", "drain_publish"}

KernelTypeOK ==
  /\ file \in Documents \cup {Text, Empty, Torn}
  /\ tmp \in Documents \cup {Empty, Torn, Absent}
  /\ config \in Documents
  /\ {ready, server_ready, tmp_shared, edit_raced, flags_raced} \subseteq BOOLEAN
  /\ at \in [Workers -> Steps]
  /\ doc \in [Workers -> Documents]
  /\ handle \in [Workers -> {"none", "tmp", "file", "orphan"}]
  /\ value \in [Workers -> BOOLEAN]
  /\ edited \in Whole
  /\ alone \subseteq Workers

\* "atomic replace in same directory" (line 43): the configuration is never a
\* truncated or a torn file, whatever fails and whenever the process is killed --
\* as long as no two reloads have used the one <config>.tmp at once.
ConfigFileWhole == ~tmp_shared => file \in Whole

\* The same without the exemption, as the comment has it.
ReplaceAtomic == file \in Whole

\* A reload reads, rewrites and replaces the configuration and loses none: the file
\* holds what the operator last put there, unless an edit came between the read and
\* the replace of a reload or two reloads shared <config>.tmp.
ConfigFileKept == ~tmp_shared /\ ~edit_raced => file = edited

\* A reload of <config> that met no other reload, of whatever path, and no edit leaves
\* the kernel with what the file holds, also when it then answers that it failed,
\* because the document has no keys().  After a reload of another path the kernel has
\* that path's document, and <config> its own.
ReloadExact ==
  \A t \in alone : at[t] = "finish" => config = file

\* kernel.ready and server.ready, set one after the other, agree between drains,
\* unless the latest drains overlapped.
FlagsAgree == Draining = {} /\ ~flags_raced => ready = server_ready
=============================================================================
