--------------------------- MODULE EnrichedOutput ---------------------------
(***************************************************************************)
(* data/enriched_products.json: every pipeline run of a single-node        *)
(* deployment ends in JsonEnrichedProductRepository.save, which writes the *)
(* same file through atomic_write_text and takes no lock.  The pool runs   *)
(* API_JOB_WORKERS (default 2) jobs at once in one output directory.       *)
(***************************************************************************)
EXTENDS AtomicFile

Init == FileInit

\* A run has its enriched products and collection result.
Save(w, t) ==
  /\ writer[w].pc = "idle"
  /\ BeginWrite(w, t)
  /\ UNCHANGED <<disk, path, tmp>>

\* save returns the path, or an exception of os.replace fails the job.
EndSave(w) ==
  /\ writer[w].pc \in {"done", "error"}
  /\ StopWriter(w)

\* The process dies at any point of a save.
Crash(w) ==
  /\ writer[w].pc # "idle"
  /\ StopWriter(w)

Next ==
  \E w \in Writers :
    \/ \E t \in Texts : Save(w, t)
    \/ WriteStep(w)
    \/ EndSave(w)
    \/ Crash(w)

Spec == Init /\ [][Next]_fileVars
=============================================================================
