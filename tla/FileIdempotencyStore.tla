------------------------ MODULE FileIdempotencyStore ------------------------
(***************************************************************************)
(* FileIdempotencyStore: the CRM idempotency records as one JSON file.     *)
(* Every pipeline run has a store object of its own on the same path, in   *)
(* this process (two pool threads) or in another one (CLI, a second API    *)
(* process).  put and save read the file again, change it and write it     *)
(* back under an flock on <path>.lock; get reads without that lock.        *)
(* The file is AtomicFile's; its texts are maps of the records.            *)
(***************************************************************************)
EXTENDS AtomicFile

CONSTANTS
  Keys,         \* idempotency keys of CRM tasks
  Records,      \* IdempotencyRecords
  NoRecord      \* None

\* The Writers of the file are the store objects; the mutex inside each makes
\* its calls serial.
Stores == Writers

Snapshots == [Keys -> Records \cup {NoRecord}]

ASSUME SnapshotsAssumption == NoRecord \notin Records /\ Texts = Snapshots

\* Nothing tells that nobody holds the lock.
ASSUME LockAssumption == Nothing \notin Stores

VARIABLES
  lock,         \* the store that holds the flock
  call,         \* call[s]: the put or save in progress
  snapshot,     \* snapshot[s]: the store's _snapshot
  answer        \* answer[s]: what its last get returned, or Nothing

vars == <<disk, path, tmp, writer, lock, call, snapshot, answer>>

EmptySnapshot == [k \in Keys |-> NoRecord]

NoCall == [op |-> "none", key |-> NoRecord, record |-> NoRecord, pc |-> "idle"]

Calls ==
  {NoCall}
    \cup [op : {"put"}, key : Keys, record : Records,
          pc : {"lock", "reload", "persist", "unlock"}]
    \cup [op : {"save"}, key : {NoRecord}, record : {NoRecord},
          pc : {"lock", "reload", "persist", "unlock"}]

\* _load: a file that is missing, or that does not parse, counts as empty.
Loaded ==
  IF path # Nothing /\ \E t \in Snapshots : Content = Whole(t)
    THEN CHOOSE t \in Snapshots : Content = Whole(t)
    ELSE EmptySnapshot

TypeOK ==
  /\ FileTypeOK
  /\ lock \in Stores \cup {Nothing}
  /\ call \in [Stores -> Calls]
  /\ snapshot \in [Stores -> Snapshots]
  /\ answer \in [Stores -> Records \cup {NoRecord, Nothing}]

Init ==
  /\ FileInit
  /\ lock = Nothing
  /\ call = [s \in Stores |-> NoCall]
  /\ snapshot = [s \in Stores |-> EmptySnapshot]
  /\ answer = [s \in Stores |-> Nothing]

-----------------------------------------------------------------------------
\* get: the file as it is now, under the mutex of the object only.
Get(s, k) ==
  /\ call[s].pc = "idle"
  /\ snapshot' = [snapshot EXCEPT ![s] = Loaded]
  /\ answer' = [answer EXCEPT ![s] = Loaded[k]]
  /\ UNCHANGED <<fileVars, lock, call>>

BeginPut(s, k, r) ==
  /\ call[s].pc = "idle"
  /\ call' = [call EXCEPT ![s] = [op |-> "put", key |-> k, record |-> r,
                                  pc |-> "lock"]]
  /\ UNCHANGED <<fileVars, lock, snapshot, answer>>

BeginSave(s) ==
  /\ call[s].pc = "idle"
  /\ call' = [call EXCEPT ![s] = [op |-> "save", key |-> NoRecord,
                                  record |-> NoRecord, pc |-> "lock"]]
  /\ UNCHANGED <<fileVars, lock, snapshot, answer>>

\* Mutant: the mutex of the object is taken for enough.
LockObjectOnly(s) ==
  /\ call[s].pc = "lock"
  /\ call' = [call EXCEPT ![s].pc = "reload"]
  /\ UNCHANGED <<fileVars, lock, snapshot, answer>>

\* flock(LOCK_EX) waits until nobody holds the lock.
Lock(s) ==
  /\ call[s].pc = "lock"
  /\ lock = Nothing
  /\ lock' = s
  /\ call' = [call EXCEPT ![s].pc = "reload"]
  /\ UNCHANGED <<fileVars, snapshot, answer>>

\* What the call writes back, given what it read.
Changed(c, read) ==
  IF c.op = "put" THEN [read EXCEPT ![c.key] = c.record] ELSE read

\* Mutant: the snapshot that the store object has is changed and saved.
ChangeWithoutReload(s) ==
  /\ call[s].pc = "reload"
  /\ LET changed == Changed(call[s], snapshot[s])
     IN /\ snapshot' = [snapshot EXCEPT ![s] = changed]
        /\ BeginWrite(s, changed)
  /\ call' = [call EXCEPT ![s].pc = "persist"]
  /\ UNCHANGED <<disk, path, tmp, lock, answer>>

\* The file is read again under the lock, the record is set, and
\* _persist_locked hands the snapshot to atomic_write_text.
Reload(s) ==
  /\ call[s].pc = "reload"
  /\ LET changed == Changed(call[s], Loaded)
     IN /\ snapshot' = [snapshot EXCEPT ![s] = changed]
        /\ BeginWrite(s, changed)
  /\ call' = [call EXCEPT ![s].pc = "persist"]
  /\ UNCHANGED <<disk, path, tmp, lock, answer>>

\* A step of atomic_write_text; when it returns or raises the finally of
\* interprocess_file_lock is next.
Persist(s) ==
  /\ call[s].pc = "persist"
  /\ WriteStep(s)
  /\ call' = IF writer'[s].pc \in {"done", "error"}
               THEN [call EXCEPT ![s].pc = "unlock"] ELSE call
  /\ UNCHANGED <<lock, snapshot, answer>>

Unlock(s) ==
  /\ call[s].pc = "unlock"
  /\ lock' = Nothing
  /\ call' = [call EXCEPT ![s] = NoCall]
  /\ StopWriter(s)
  /\ UNCHANGED <<snapshot, answer>>

\* The process of the store dies at any point: the system drops its flock,
\* the files stay as they are, and the next process loads the file.
Crash(s) ==
  /\ lock' = IF lock = s THEN Nothing ELSE lock
  /\ call' = [call EXCEPT ![s] = NoCall]
  /\ StopWriter(s)
  /\ snapshot' = [snapshot EXCEPT ![s] = Loaded]
  /\ answer' = [answer EXCEPT ![s] = Nothing]

Next ==
  \E s \in Stores :
    \/ \E k \in Keys : Get(s, k)
    \/ \E k \in Keys, r \in Records : BeginPut(s, k, r)
    \/ BeginSave(s)
    \/ Lock(s)
    \/ Reload(s)
    \/ Persist(s)
    \/ Unlock(s)
    \/ Crash(s)

Spec == Init /\ [][Next]_vars

-----------------------------------------------------------------------------
\* The store is the map that its port promises: although get takes no file
\* lock and calls of several processes overlap, every put changes its own key
\* and no other at one instant (the rename), every get answers with the map
\* of one instant, save changes nothing, and a crash loses no record.
Map == INSTANCE KeyValueStore
         WITH Clients <- Stores, Unasked <- Nothing, records <- Loaded
ImplementsMap == Map!KVSpec

\* A put that is about to return is in the file, and neither it nor a save
\* ever fails on the rename.
PutTookEffect ==
  \A s \in Stores :
    call[s].pc = "unlock" =>
      /\ writer[s].pc = "done"
      /\ call[s].op = "put" => Loaded[call[s].key] = call[s].record
=============================================================================
