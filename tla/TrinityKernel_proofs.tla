------------------------ MODULE TrinityKernel_proofs ------------------------
(***************************************************************************)
(* Proofs about the kernel of the HTTP service, for any number of request  *)
(* threads and any documents: the configuration file is whole, a reload    *)
(* loses no configuration, and the two ready flags agree.                  *)
(***************************************************************************)
EXTENDS TrinityService, TLAPS

-----------------------------------------------------------------------------
(***************************************************************************)
(* What a step of the service does to the kernel.                          *)
(***************************************************************************)

AllIdle == \A t \in Workers : at[t] = "idle"
AtRest  == AllIdle /\ ready = server_ready

KernelTransition ==
  \/ \E t \in Workers : KernelStep(t) \/ KernelBegin(t)
  \/ \E content \in Whole : edit(content)
  \/ kernel_crash
  \/ AtRest /\ kernel_start
  \/ UNCHANGED kernelVars

\* A process that is down has no requests, and its next one starts with its flags set.
Frames == {"main", "serve_forever", "_grace", "shutdown"}
DownInv == stack \in Seq(Frames) /\ (~Up => AtRest)

\* The process starts once it is down, and then nothing is left of its requests.
LEMMA KernelTransitions ==
  ASSUME DownInv, [Next]_vars
  PROVE  KernelTransition
<1>1. ASSUME UNCHANGED vars
      PROVE  KernelTransition
  BY <1>1 DEF vars, KernelTransition
<1>2. ASSUME Main
      PROVE  KernelTransition
  BY <1>2 DEF Main, serve_forever, _grace, KernelTransition
<1>3. ASSUME NEW t \in Workers, accept(t) \/ work(t)
      PROVE  KernelTransition
  BY <1>3 DEF accept, work, KernelTransition
<1>4. ASSUME Environment
      PROVE  KernelTransition
  BY <1>4 DEF Environment, signal, crash, Ends, restart, DownInv, KernelTransition
<1> QED BY <1>1, <1>2, <1>3, <1>4 DEF Next

\* Requests are accepted and served while the process is up.
LEMMA DownStep == DownInv /\ [Next]_vars => DownInv'
<1> SUFFICES ASSUME DownInv, [Next]_vars
             PROVE  DownInv'
  OBVIOUS
<1> USE DEF DownInv, Up, AllIdle, AtRest
<1>1. ASSUME UNCHANGED vars
      PROVE  DownInv'
  BY <1>1 DEF vars, kernelVars, flags
<1>2. ASSUME NEW front \in Seq(Frames), NEW f \in Frames, stack' = Append(front, f)
      PROVE  DownInv'
  <2>1. Append(front, f) \in Seq(Frames) /\ Append(front, f) # <<>>
    OBVIOUS
  <2> QED BY <1>2, <2>1
<1>3. ASSUME serve_forever \/ signal
      PROVE  DownInv'
  <2>1. PICK f \in Frames : stack' = Append(stack, f)
    BY <1>3 DEF serve_forever, signal, Frames
  <2> QED BY <1>2, <2>1
<1>4. ASSUME _grace
      PROVE  DownInv'
  <2>1. stack # <<>> /\ Front(stack) \in Seq(Frames)
    BY <1>4 DEF _grace, Runs, Front
  <2>2. "shutdown" \in Frames
    BY DEF Frames
  <2> QED BY <1>2, <1>4, <2>1, <2>2 DEF _grace
<1>5. ASSUME NEW t \in Workers, accept(t)
      PROVE  DownInv'
  <2>1. Up /\ UNCHANGED stack
    BY <1>5 DEF accept, Runs
  <2> QED BY <2>1
<1>6. ASSUME NEW t \in Workers, work(t)
      PROVE  DownInv'
  <2>1. CASE KernelStep(t)
    <3>1. at[t] # "idle" /\ UNCHANGED stack
      BY <1>6, <2>1 DEF work, KernelStep, EventsStep, reload_read, reload_elsewhere, reload_open,
                        reload_write,
                        reload_write_fails, reload_replace, reload_install, reload_finish,
                        drain_read, drain_publish
    <3> QED BY <3>1
  <2>2. CASE ~KernelStep(t)
    <3>1. UNCHANGED <<kernelVars, stack>>
      BY <1>6, <2>2 DEF work
    <3> QED BY <3>1 DEF kernelVars, flags
  <2> QED BY <2>1, <2>2
<1>7. ASSUME NEW content \in Whole, edit(content), UNCHANGED <<eventsVars, stack>>
      PROVE  DownInv'
  BY <1>7 DEF edit, flags
<1>8. ASSUME UNCHANGED <<kernelVars, stack>>
      PROVE  DownInv'
  BY <1>8 DEF kernelVars, flags
<1>9. ASSUME crash
      PROVE  DownInv'
  BY <1>9 DEF crash, Ends, kernel_crash
<1>10. ASSUME restart
      PROVE  DownInv'
  BY <1>10 DEF restart, Frames
<1> QED BY <1>1, <1>3, <1>4, <1>5, <1>6, <1>7, <1>8, <1>9, <1>10 DEF Next, Main, Environment

\* The process is up at first.
LEMMA DownStart == Init => DownInv
BY DEF Init, DownInv, Up, Frames

-----------------------------------------------------------------------------
(***************************************************************************)
(* Type correctness.  A thread has a handle while it writes.               *)
(***************************************************************************)

TypeInv ==
  /\ KernelTypeOK
  /\ \A t \in Workers : handle[t] # "none" <=> at[t] = "write"

\* The initial state is well typed.
LEMMA TypeStart == Init => TypeInv
<1> SUFFICES ASSUME KernelInit
             PROVE  TypeInv
  BY DEF Init
<1>1. config \in Documents /\ file \in Documents
  BY KernelAssumption DEF KernelInit
<1> QED BY <1>1 DEF KernelInit, KernelTypeOK, TypeInv, Steps, Whole

\* What is in the files after a write: what was there, the document or pieces.
LEMMA LeavesTypes ==
  ASSUME TypeInv, NEW t \in Workers, NEW in_tmp, NEW in_file, Leaves(t, in_tmp, in_file),
         in_tmp \subseteq {tmp, Torn, doc[t]}, in_file \subseteq {file, Torn, doc[t]}
  PROVE  /\ file' \in Documents \cup {Text, Empty, Torn}
         /\ tmp' \in Documents \cup {Empty, Torn, Absent}
BY DEF TypeInv, KernelTypeOK, Leaves, files

\* Every step keeps the types and the handles.
LEMMA TypeStep == TypeInv /\ KernelTransition => TypeInv'
<1> SUFFICES ASSUME TypeInv, KernelTransition
             PROVE  TypeInv'
  OBVIOUS
<1> USE DEF TypeInv, KernelTypeOK, KernelGoto, Steps, files, flags, history
<1>1. ASSUME NEW t \in Workers, reload(t)
      PROVE  TypeInv'
  BY <1>1 DEF reload
<1>2. ASSUME NEW t \in Workers, NEW enable \in BOOLEAN, drain(t, enable)
      PROVE  TypeInv'
  BY <1>2 DEF drain
<1>3. ASSUME NEW t \in Workers, reload_read(t)
      PROVE  TypeInv'
  BY <1>3 DEF reload_read
<1>4. ASSUME NEW t \in Workers, reload_open(t)
      PROVE  TypeInv'
  BY <1>4 DEF reload_open
<1>5. ASSUME NEW t \in Workers, reload_write(t)
      PROVE  TypeInv'
  <2>1. /\ file' \in Documents \cup {Text, Empty, Torn}
        /\ tmp' \in Documents \cup {Empty, Torn, Absent}
    BY <1>5, LeavesTypes DEF reload_write, Written
  <2>2. /\ at' \in [Workers -> Steps]
        /\ handle' \in [Workers -> {"none", "tmp", "file", "orphan"}]
        /\ \A u \in Workers : handle'[u] # "none" <=> at'[u] = "write"
    BY <1>5 DEF reload_write
  <2> QED BY <1>5, <2>1, <2>2 DEF reload_write
<1>6. ASSUME NEW t \in Workers, reload_write_fails(t)
      PROVE  TypeInv'
  <2>1. /\ file' \in Documents \cup {Text, Empty, Torn}
        /\ tmp' \in Documents \cup {Empty, Torn, Absent}
    BY <1>6, LeavesTypes DEF reload_write_fails, Written
  <2>2. /\ at' \in [Workers -> Steps]
        /\ handle' \in [Workers -> {"none", "tmp", "file", "orphan"}]
        /\ \A u \in Workers : handle'[u] # "none" <=> at'[u] = "write"
    BY <1>6 DEF reload_write_fails
  <2> QED BY <1>6, <2>1, <2>2 DEF reload_write_fails
<1>7. ASSUME NEW t \in Workers, reload_replace(t)
      PROVE  TypeInv'
  <2>1. CASE tmp # Absent
    <3>1. file' \in Documents \cup {Empty, Torn} /\ tmp' = Absent
      BY <1>7, <2>1 DEF reload_replace
    <3>2. /\ handle' \in [Workers -> {"none", "tmp", "file", "orphan"}]
          /\ \A u \in Workers : handle'[u] # "none" <=> handle[u] # "none"
      BY <1>7, <2>1 DEF reload_replace, Moved
    <3> QED BY <1>7, <2>1, <3>1, <3>2 DEF reload_replace
  <2>2. CASE tmp = Absent
    BY <1>7, <2>2 DEF reload_replace
  <2> QED BY <2>1, <2>2
<1>8. ASSUME NEW t \in Workers, reload_install(t)
      PROVE  TypeInv'
  BY <1>8 DEF reload_install
<1>9. ASSUME NEW t \in Workers, reload_finish(t)
      PROVE  TypeInv'
  BY <1>9 DEF reload_finish
<1>10. ASSUME NEW t \in Workers, drain_read(t)
      PROVE  TypeInv'
  BY <1>10 DEF drain_read
<1>11. ASSUME NEW t \in Workers, drain_publish(t)
      PROVE  TypeInv'
  BY <1>11 DEF drain_publish
<1>12. ASSUME NEW content \in Whole, edit(content)
      PROVE  TypeInv'
  BY <1>12 DEF edit, Whole
<1>13. ASSUME kernel_crash
      PROVE  TypeInv'
  <2>1. file' \in {file, Torn} /\ tmp' \in {tmp, Torn}
    BY <1>13 DEF kernel_crash
  <2> QED BY <1>13, <2>1 DEF kernel_crash
<1>14. ASSUME AtRest /\ kernel_start
      PROVE  TypeInv'
  BY <1>14, KernelAssumption DEF kernel_start, Whole
<1>15. ASSUME UNCHANGED kernelVars
      PROVE  TypeInv'
  BY <1>15 DEF kernelVars
<1>16. ASSUME NEW t \in Workers, reload_other(t)
      PROVE  TypeInv'
  BY <1>16 DEF reload_other
<1>17. ASSUME NEW t \in Workers, reload_elsewhere(t)
      PROVE  TypeInv'
  BY <1>17 DEF reload_elsewhere
<1> HIDE DEF TypeInv
<1> QED
  BY <1>1, <1>2, <1>3, <1>4, <1>5, <1>6, <1>7,
     <1>8, <1>9, <1>10, <1>11, <1>12, <1>13, <1>14, <1>15, <1>16, <1>17
     DEF KernelTransition, KernelStep, KernelBegin

-----------------------------------------------------------------------------
(***************************************************************************)
(* The configuration file while no two reloads share <config>.tmp: one     *)
(* thread at most uses it; it is empty while it is written, and holds the  *)
(* document of its thread until it is renamed.  A document read is in the  *)
(* file until it is replaced by itself, unless an edit comes between.      *)
(***************************************************************************)

TmpInv ==
  ~tmp_shared =>
    /\ file \in Whole
    /\ \A t, u \in UsingTmp : t = u
    /\ \A t \in Workers :
         /\ at[t] = "write" => handle[t] = "tmp" /\ tmp = Empty
         /\ at[t] = "replace" => tmp = doc[t]

KeptInv ==
  ~tmp_shared /\ ~edit_raced =>
    /\ file = edited
    /\ \A t \in Rewriting : doc[t] = file

\* The initial configuration is whole and nobody rewrites it.
LEMMA FileStart == Init => TmpInv /\ KeptInv
BY KernelAssumption DEF Init, KernelInit, TmpInv, KeptInv, Whole, UsingTmp, Rewriting

\* The one thread that writes to the temporary file leaves its document there.
LEMMA WrittenAlone ==
  ASSUME TypeInv, TmpInv, ~tmp_shared, NEW t \in Workers, reload_write(t)
  PROVE  tmp' = doc[t] /\ file' = file
<1>1. handle[t] = "tmp" /\ tmp = Empty
  BY DEF TmpInv, reload_write
<1>2. \A u \in Workers \ {t} : handle[u] # "tmp"
  BY DEF TypeInv, TmpInv, UsingTmp, reload_write
<1>3. Sole(t)
  BY <1>1, <1>2 DEF Sole
<1> QED BY <1>1, <1>3 DEF reload_write, Leaves, Written

\* Nobody writes to <config> itself.
LEMMA NobodyWritesFile ==
  ASSUME TypeInv, TmpInv, ~tmp_shared, NEW t \in Workers
  PROVE  handle[t] \in {"none", "tmp"}
BY DEF TypeInv, TmpInv

\* The rename puts a whole document in place of the same document.
LEMMA Replaced ==
  ASSUME TypeInv, TmpInv, ~tmp_shared, NEW t \in Workers, reload_replace(t)
  PROVE  /\ file' = doc[t] /\ doc[t] \in Documents
         /\ KernelGoto(t, "install")
         /\ \A u \in Workers : handle[u] = "none"
<1>1. tmp = doc[t] /\ doc[t] \in Documents
  BY DEF TmpInv, TypeInv, KernelTypeOK, reload_replace
<1>2. tmp # Absent
  BY <1>1, KernelAssumption
<1>3. \A u \in Workers : at[u] # "write"
  BY DEF TmpInv, UsingTmp, reload_replace
<1> QED BY <1>1, <1>2, <1>3 DEF reload_replace, TypeInv

\* Every step keeps the file whole and the temporary file in one hand.
LEMMA TmpStep == TypeInv /\ TmpInv /\ KernelTransition => TmpInv'
<1> SUFFICES ASSUME TypeInv, TmpInv, KernelTransition, ~tmp_shared'
             PROVE  TmpInv'
  BY DEF TmpInv
<1> USE DEF TmpInv, UsingTmp, KernelGoto, Steps, files, flags, history
<1> DEFINE Types == /\ at \in [Workers -> Steps]
                    /\ handle \in [Workers -> {"none", "tmp", "file", "orphan"}]
                    /\ doc \in [Workers -> Documents]
                    /\ file \in Documents \cup {Text, Empty, Torn}
<1>0. Types
  BY DEF TypeInv, KernelTypeOK
<1>1. ASSUME NEW t \in Workers, reload(t)
      PROVE  TmpInv'
  BY <1>1, <1>0 DEF reload
<1>2. ASSUME NEW t \in Workers, NEW enable \in BOOLEAN, drain(t, enable)
      PROVE  TmpInv'
  BY <1>2, <1>0 DEF drain
<1>3. ASSUME NEW t \in Workers, reload_read(t)
      PROVE  TmpInv'
  BY <1>3, <1>0 DEF reload_read
<1>4. ASSUME NEW t \in Workers, reload_open(t)
      PROVE  TmpInv'
  BY <1>4, <1>0 DEF reload_open
<1>5. ASSUME NEW t \in Workers, reload_write(t)
      PROVE  TmpInv'
  <2>1. tmp' = doc[t] /\ file' = file
    BY <1>5, WrittenAlone DEF reload_write
  <2> QED BY <1>0, <1>5, <2>1 DEF reload_write
<1>6. ASSUME NEW t \in Workers, reload_write_fails(t)
      PROVE  TmpInv'
  <2>1. handle[t] = "tmp" /\ file' = file
    BY <1>6 DEF reload_write_fails, Leaves
  <2>2. \A u \in Workers \ {t} : at[u] \notin {"write", "replace"}
    BY <1>6 DEF reload_write_fails
  <2> QED BY <1>0, <1>6, <2>1, <2>2 DEF reload_write_fails
<1>7. ASSUME NEW t \in Workers, reload_replace(t)
      PROVE  TmpInv'
  <2>1. ~tmp_shared
    BY <1>7 DEF reload_replace
  <2>2. file' \in Whole /\ at' = [at EXCEPT ![t] = "install"]
    BY <1>7, <2>1, Replaced DEF Whole
  <2>3. \A u \in Workers \ {t} : at[u] \notin {"write", "replace"}
    BY <1>7, <2>1 DEF reload_replace
  <2> QED BY <1>0, <2>2, <2>3
<1>8. ASSUME NEW t \in Workers, reload_install(t)
      PROVE  TmpInv'
  BY <1>8, <1>0 DEF reload_install
<1>9. ASSUME NEW t \in Workers, reload_finish(t)
      PROVE  TmpInv'
  BY <1>9, <1>0 DEF reload_finish
<1>10. ASSUME NEW t \in Workers, drain_read(t)
      PROVE  TmpInv'
  BY <1>10, <1>0 DEF drain_read
<1>11. ASSUME NEW t \in Workers, drain_publish(t)
      PROVE  TmpInv'
  BY <1>11, <1>0 DEF drain_publish
<1>12. ASSUME NEW content \in Whole, edit(content)
      PROVE  TmpInv'
  <2>1. \A t \in Workers : handle[t] = "tmp" => handle'[t] = "tmp"
    BY <1>0, <1>12 DEF edit
  <2> QED BY <1>0, <1>12, <2>1 DEF edit
<1>13. ASSUME kernel_crash
      PROVE  TmpInv'
  <2>1. file' = file
    BY <1>13, NobodyWritesFile DEF kernel_crash
  <2> QED BY <1>13, <2>1 DEF kernel_crash
<1>14. ASSUME AtRest /\ kernel_start
      PROVE  TmpInv'
  <2>1. file \in Whole
    BY <1>14, KernelAssumption DEF kernel_start, Whole
  <2> QED BY <1>14, <2>1 DEF kernel_start, AtRest, AllIdle
<1>15. ASSUME UNCHANGED kernelVars
      PROVE  TmpInv'
  BY <1>15 DEF kernelVars
<1>16. ASSUME NEW t \in Workers, reload_other(t)
      PROVE  TmpInv'
  BY <1>16, <1>0 DEF reload_other
<1>17. ASSUME NEW t \in Workers, reload_elsewhere(t)
      PROVE  TmpInv'
  BY <1>17, <1>0 DEF reload_elsewhere
<1> HIDE DEF TmpInv
<1> QED
  BY <1>1, <1>2, <1>3, <1>4, <1>5, <1>6, <1>7,
     <1>8, <1>9, <1>10, <1>11, <1>12, <1>13, <1>14, <1>15, <1>16, <1>17
     DEF KernelTransition, KernelStep, KernelBegin

\* Every step keeps in the file what the operator put there.
LEMMA KeptStep == TypeInv /\ TmpInv /\ KeptInv /\ KernelTransition => KeptInv'
<1> SUFFICES ASSUME TypeInv, TmpInv, KeptInv, KernelTransition, ~tmp_shared', ~edit_raced'
             PROVE  KeptInv'
  BY DEF KeptInv
<1> USE DEF KeptInv, Rewriting, KernelGoto, Steps, files, flags, history
<1> DEFINE Types == /\ at \in [Workers -> Steps]
                    /\ doc \in [Workers -> Documents]
<1>0. Types
  BY DEF TypeInv, KernelTypeOK
<1>1. ASSUME NEW t \in Workers, reload(t)
      PROVE  KeptInv'
  BY <1>1, <1>0 DEF reload
<1>2. ASSUME NEW t \in Workers, NEW enable \in BOOLEAN, drain(t, enable)
      PROVE  KeptInv'
  BY <1>2, <1>0 DEF drain
<1>3. ASSUME NEW t \in Workers, reload_read(t)
      PROVE  KeptInv'
  BY <1>3, <1>0 DEF reload_read
<1>4. ASSUME NEW t \in Workers, reload_open(t)
      PROVE  KeptInv'
  BY <1>4, <1>0 DEF reload_open
<1>5. ASSUME NEW t \in Workers, reload_write(t)
      PROVE  KeptInv'
  <2>1. file' = file
    BY <1>5, WrittenAlone DEF reload_write
  <2> QED BY <1>0, <1>5, <2>1 DEF reload_write
<1>6. ASSUME NEW t \in Workers, reload_write_fails(t)
      PROVE  KeptInv'
  <2>1. file' = file
    BY <1>6 DEF reload_write_fails, Leaves, TmpInv
  <2> QED BY <1>0, <1>6, <2>1 DEF reload_write_fails
<1>7. ASSUME NEW t \in Workers, reload_replace(t)
      PROVE  KeptInv'
  <2>1. ~tmp_shared /\ ~edit_raced
    BY <1>7 DEF reload_replace
  <2>2. file' = doc[t] /\ at' = [at EXCEPT ![t] = "install"]
    BY <1>7, <2>1, Replaced
  <2>3. doc[t] = file
    BY <1>7, <2>1 DEF reload_replace
  <2> QED BY <1>0, <1>7, <2>2, <2>3 DEF reload_replace
<1>8. ASSUME NEW t \in Workers, reload_install(t)
      PROVE  KeptInv'
  BY <1>8, <1>0 DEF reload_install
<1>9. ASSUME NEW t \in Workers, reload_finish(t)
      PROVE  KeptInv'
  BY <1>9, <1>0 DEF reload_finish
<1>10. ASSUME NEW t \in Workers, drain_read(t)
      PROVE  KeptInv'
  BY <1>10, <1>0 DEF drain_read
<1>11. ASSUME NEW t \in Workers, drain_publish(t)
      PROVE  KeptInv'
  BY <1>11, <1>0 DEF drain_publish
<1>12. ASSUME NEW content \in Whole, edit(content)
      PROVE  KeptInv'
  BY <1>12, <1>0 DEF edit
<1>13. ASSUME kernel_crash
      PROVE  KeptInv'
  <2>1. file' = file
    BY <1>13, NobodyWritesFile DEF kernel_crash
  <2> QED BY <1>13, <2>1 DEF kernel_crash
<1>14. ASSUME AtRest /\ kernel_start
      PROVE  KeptInv'
  BY <1>14 DEF kernel_start, AtRest, AllIdle
<1>15. ASSUME UNCHANGED kernelVars
      PROVE  KeptInv'
  BY <1>15 DEF kernelVars
<1>16. ASSUME NEW t \in Workers, reload_other(t)
      PROVE  KeptInv'
  BY <1>16, <1>0 DEF reload_other
<1>17. ASSUME NEW t \in Workers, reload_elsewhere(t)
      PROVE  KeptInv'
  BY <1>17, <1>0 DEF reload_elsewhere
<1> HIDE DEF KeptInv
<1> QED
  BY <1>1, <1>2, <1>3, <1>4, <1>5, <1>6, <1>7,
     <1>8, <1>9, <1>10, <1>11, <1>12, <1>13, <1>14, <1>15, <1>16, <1>17
     DEF KernelTransition, KernelStep, KernelBegin

-----------------------------------------------------------------------------
(***************************************************************************)
(* A reload that meets no other and no edit goes from the file back to it. *)
(***************************************************************************)

AloneInv ==
  \A t \in alone :
    /\ \A u \in Reloading : u = t
    /\ at[t] # "read_other"
    /\ at[t] \in {"open", "write", "replace", "install"} => file = doc[t]
    /\ at[t] = "write" => handle[t] = "tmp" /\ tmp = Empty
    /\ at[t] = "replace" => tmp = doc[t]
    /\ at[t] = "finish" => config = file

\* At first no reload has begun.
LEMMA AloneStart == Init => AloneInv
BY DEF Init, KernelInit, AloneInv

\* Every step keeps a reload that is alone on the document of the file.
LEMMA AloneStep == TypeInv /\ AloneInv /\ KernelTransition => AloneInv'
<1> SUFFICES ASSUME TypeInv, AloneInv, KernelTransition
             PROVE  AloneInv'
  OBVIOUS
<1> USE DEF AloneInv, Reloading, KernelGoto, Steps, files, flags, history
<1> DEFINE Types == /\ at \in [Workers -> Steps]
                    /\ handle \in [Workers -> {"none", "tmp", "file", "orphan"}]
                    /\ doc \in [Workers -> Documents]
                    /\ alone \subseteq Workers
<1>0. Types
  BY DEF TypeInv, KernelTypeOK
<1>1. ASSUME NEW t \in Workers, reload(t)
      PROVE  AloneInv'
  BY <1>1, <1>0 DEF reload
<1>2. ASSUME NEW t \in Workers, NEW enable \in BOOLEAN, drain(t, enable)
      PROVE  AloneInv'
  BY <1>2, <1>0 DEF drain
<1>3. ASSUME NEW t \in Workers, reload_read(t)
      PROVE  AloneInv'
  BY <1>3, <1>0 DEF reload_read
<1>4. ASSUME NEW t \in Workers, reload_open(t)
      PROVE  AloneInv'
  BY <1>4, <1>0 DEF reload_open
<1>5. ASSUME NEW t \in Workers, reload_write(t)
      PROVE  AloneInv'
  <2>1. ASSUME NEW s \in alone
        PROVE  s = t /\ tmp' = doc[t] /\ file' = file
    <3>1. s = t /\ handle[t] = "tmp" /\ tmp = Empty
      BY <1>5, <2>1 DEF reload_write
    <3>2. \A u \in Workers \ {t} : handle[u] = "none"
      BY <3>1, <2>1 DEF TypeInv
    <3>3. Sole(t)
      BY <3>1, <3>2 DEF Sole
    <3> QED BY <1>5, <3>1, <3>3 DEF reload_write, Leaves, Written
  <2> QED BY <1>0, <1>5, <2>1 DEF reload_write
<1>6. ASSUME NEW t \in Workers, reload_write_fails(t)
      PROVE  AloneInv'
  <2>1. \A s \in alone : s = t
    BY <1>6 DEF reload_write_fails
  <2> QED BY <1>0, <1>6, <2>1 DEF reload_write_fails
<1>7. ASSUME NEW t \in Workers, reload_replace(t)
      PROVE  AloneInv'
  <2>1. ASSUME NEW s \in alone
        PROVE  s = t /\ file' = doc[t] /\ at' = [at EXCEPT ![t] = "install"]
    <3>1. s = t /\ tmp = doc[t]
      BY <1>7, <2>1 DEF reload_replace
    <3>2. tmp # Absent
      BY <1>0, <3>1, KernelAssumption
    <3> QED BY <1>7, <3>1, <3>2 DEF reload_replace
  <2> QED BY <1>0, <1>7, <2>1 DEF reload_replace
<1>8. ASSUME NEW t \in Workers, reload_install(t)
      PROVE  AloneInv'
  BY <1>8, <1>0 DEF reload_install
<1>9. ASSUME NEW t \in Workers, reload_finish(t)
      PROVE  AloneInv'
  BY <1>9, <1>0 DEF reload_finish
<1>10. ASSUME NEW t \in Workers, drain_read(t)
      PROVE  AloneInv'
  BY <1>10, <1>0 DEF drain_read
<1>11. ASSUME NEW t \in Workers, drain_publish(t)
      PROVE  AloneInv'
  BY <1>11, <1>0 DEF drain_publish
<1>12. ASSUME NEW content \in Whole, edit(content)
      PROVE  AloneInv'
  BY <1>12, <1>0 DEF edit
<1>13. ASSUME kernel_crash
      PROVE  AloneInv'
  <2>1. at' = [t \in Workers |-> "idle"] /\ alone' = alone
    BY <1>13 DEF kernel_crash
  <2> QED BY <1>0, <2>1
<1>14. ASSUME AtRest /\ kernel_start
      PROVE  AloneInv'
  BY <1>14 DEF kernel_start
<1>15. ASSUME UNCHANGED kernelVars
      PROVE  AloneInv'
  BY <1>15 DEF kernelVars
<1>16. ASSUME NEW t \in Workers, reload_other(t)
      PROVE  AloneInv'
  BY <1>16, <1>0 DEF reload_other
<1>17. ASSUME NEW t \in Workers, reload_elsewhere(t)
      PROVE  AloneInv'
  BY <1>17, <1>0 DEF reload_elsewhere
<1> HIDE DEF AloneInv
<1> QED
  BY <1>1, <1>2, <1>3, <1>4, <1>5, <1>6, <1>7,
     <1>8, <1>9, <1>10, <1>11, <1>12, <1>13, <1>14, <1>15, <1>16, <1>17
     DEF KernelTransition, KernelStep, KernelBegin

-----------------------------------------------------------------------------
(***************************************************************************)
(* A drain that meets no other publishes the flag that it has set.         *)
(***************************************************************************)

FlagsInv ==
  ~flags_raced =>
    /\ Draining = {} => ready = server_ready
    /\ \A t \in Draining : /\ \A u \in Draining : u = t
                           /\ at[t] = "drain_publish" => value[t] = ready

\* Both flags are set at first.
LEMMA FlagsStart == Init => FlagsInv
BY DEF Init, KernelInit, FlagsInv, Draining

\* Every step keeps the flags equal but for the drain under way.
LEMMA FlagsStep == TypeInv /\ FlagsInv /\ KernelTransition => FlagsInv'
<1> SUFFICES ASSUME TypeInv, FlagsInv, KernelTransition, ~flags_raced'
             PROVE  FlagsInv'
  BY DEF FlagsInv
<1> USE DEF FlagsInv, Draining, KernelGoto, Steps, files, flags, history
<1> DEFINE Types == /\ at \in [Workers -> Steps]
                    /\ value \in [Workers -> BOOLEAN]
                    /\ ready \in BOOLEAN /\ server_ready \in BOOLEAN
<1>0. Types
  BY DEF TypeInv, KernelTypeOK
<1>1. ASSUME NEW t \in Workers, reload(t)
      PROVE  FlagsInv'
  BY <1>1, <1>0 DEF reload
<1>2. ASSUME NEW t \in Workers, NEW enable \in BOOLEAN, drain(t, enable)
      PROVE  FlagsInv'
  BY <1>2, <1>0 DEF drain
<1>3. ASSUME NEW t \in Workers, reload_read(t)
      PROVE  FlagsInv'
  BY <1>3, <1>0 DEF reload_read
<1>4. ASSUME NEW t \in Workers, reload_open(t)
      PROVE  FlagsInv'
  BY <1>4, <1>0 DEF reload_open
<1>5. ASSUME NEW t \in Workers, reload_write(t)
      PROVE  FlagsInv'
  BY <1>5, <1>0 DEF reload_write
<1>6. ASSUME NEW t \in Workers, reload_write_fails(t)
      PROVE  FlagsInv'
  BY <1>6, <1>0 DEF reload_write_fails
<1>7. ASSUME NEW t \in Workers, reload_replace(t)
      PROVE  FlagsInv'
  BY <1>7, <1>0 DEF reload_replace
<1>8. ASSUME NEW t \in Workers, reload_install(t)
      PROVE  FlagsInv'
  BY <1>8, <1>0 DEF reload_install
<1>9. ASSUME NEW t \in Workers, reload_finish(t)
      PROVE  FlagsInv'
  BY <1>9, <1>0 DEF reload_finish
<1>10. ASSUME NEW t \in Workers, drain_read(t)
      PROVE  FlagsInv'
  BY <1>10, <1>0 DEF drain_read
<1>11. ASSUME NEW t \in Workers, drain_publish(t)
      PROVE  FlagsInv'
  BY <1>11, <1>0 DEF drain_publish
<1>12. ASSUME NEW content \in Whole, edit(content)
      PROVE  FlagsInv'
  BY <1>12, <1>0 DEF edit
<1>13. ASSUME kernel_crash
      PROVE  FlagsInv'
  BY <1>13 DEF kernel_crash
<1>14. ASSUME AtRest /\ kernel_start
      PROVE  FlagsInv'
  BY <1>14 DEF kernel_start, AtRest, AllIdle
<1>15. ASSUME UNCHANGED kernelVars
      PROVE  FlagsInv'
  BY <1>15 DEF kernelVars
<1>16. ASSUME NEW t \in Workers, reload_other(t)
      PROVE  FlagsInv'
  BY <1>16, <1>0 DEF reload_other
<1>17. ASSUME NEW t \in Workers, reload_elsewhere(t)
      PROVE  FlagsInv'
  BY <1>17, <1>0 DEF reload_elsewhere
<1> HIDE DEF FlagsInv
<1> QED
  BY <1>1, <1>2, <1>3, <1>4, <1>5, <1>6, <1>7,
     <1>8, <1>9, <1>10, <1>11, <1>12, <1>13, <1>14, <1>15, <1>16, <1>17
     DEF KernelTransition, KernelStep, KernelBegin

-----------------------------------------------------------------------------
(***************************************************************************)
(* The theorems.                                                           *)
(***************************************************************************)

KernelInv == DownInv /\ TypeInv /\ TmpInv /\ KeptInv /\ AloneInv /\ FlagsInv

\* All of this holds in every state.
LEMMA KernelInvariant == Spec => []KernelInv
<1>1. Init => KernelInv
  BY DownStart, TypeStart, FileStart, AloneStart, FlagsStart DEF KernelInv
<1>2. KernelInv /\ [Next]_vars => KernelInv'
  BY KernelTransitions, DownStep, TypeStep, TmpStep, KeptStep, AloneStep, FlagsStep DEF KernelInv
<1> QED BY <1>1, <1>2, PTL DEF Spec

\* The kernel's variables keep their types, and a process that is down serves nothing.
THEOREM KernelTypeCorrect == Spec => [](KernelTypeOK /\ (~Up => AllIdle))
<1>1. KernelInv => KernelTypeOK /\ (~Up => AllIdle)
  BY DEF KernelInv, TypeInv, DownInv, AtRest
<1> QED BY KernelInvariant, <1>1, PTL

\* The configuration on disk is always whole, through failed writes, kills and edits,
\* unless two reloads shared the temporary file.
THEOREM ConfigFileIsWhole == Spec => []ConfigFileWhole
<1>1. KernelInv => ConfigFileWhole
  BY DEF KernelInv, TmpInv, ConfigFileWhole
<1> QED BY KernelInvariant, <1>1, PTL

\* Reloads lose no configuration, unless an edit came between the read and the replace
\* of one or two of them shared the temporary file.
THEOREM ConfigFileIsKept == Spec => []ConfigFileKept
<1>1. KernelInv => ConfigFileKept
  BY DEF KernelInv, KeptInv, ConfigFileKept
<1> QED BY KernelInvariant, <1>1, PTL

\* A reload of <config> that met no other reload, of whatever path, and no edit leaves
\* the kernel with what the file holds.
THEOREM ReloadIsExact == Spec => []ReloadExact
<1>1. KernelInv => ReloadExact
  BY DEF KernelInv, AloneInv, ReloadExact
<1> QED BY KernelInvariant, <1>1, PTL

\* Both ready flags agree when no drain is under way, unless drains overlapped.
THEOREM ReadyFlagsAgree == Spec => []FlagsAgree
<1>1. KernelInv => FlagsAgree
  BY DEF KernelInv, FlagsInv, FlagsAgree
<1> QED BY KernelInvariant, <1>1, PTL
=============================================================================
