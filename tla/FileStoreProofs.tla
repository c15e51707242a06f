--------------------------- MODULE FileStoreProofs ---------------------------
(***************************************************************************)
(* Theorems about FileIdempotencyStore and the AtomicFile it saves, for    *)
(* every number of stores, keys, records, inodes and pieces of a write.    *)
(***************************************************************************)
EXTENDS FileIdempotencyStore, TLAPS

-----------------------------------------------------------------------------
(***************************************************************************)
(* The inductive invariant.                                                *)
(***************************************************************************)

\* The flock excludes: whoever reads to change, writes or is about to release
\* the lock holds it.
Holding(s) == call[s].pc \in {"reload", "persist", "unlock"}

LockInv == \A s \in Stores : Holding(s) => lock = s

\* The temporary name never names the file that readers open.
NamesApart == tmp # Nothing => tmp # path

\* How far the one write in progress has come: what of its text is in the
\* inode of the temporary name, and that what it will put there is what the
\* file holds now with the change of its call.
WriteOK(s) ==
  /\ writer[s].text \in Texts
  /\ writer[s].text = Changed(call[s], Loaded)
  /\ writer[s].pc \in {"open", "write", "replace"}
  /\ writer[s].pc = "open" => writer[s].at = 1
  /\ writer[s].pc \in {"write", "replace"} => tmp # Nothing
  /\ writer[s].pc = "write" =>
       /\ writer[s].fd = tmp
       /\ \A p \in 1..Pieces : p < writer[s].at => disk[tmp][p] = writer[s].text
  /\ writer[s].pc = "replace" => disk[tmp] = Whole(writer[s].text)

CallOK(s) ==
  /\ call[s].pc \in {"idle", "lock", "reload"} => writer[s].pc = "idle"
  /\ call[s].pc = "persist" => WriteOK(s)
  /\ call[s].pc = "unlock" =>
       /\ writer[s].pc = "done"
       /\ call[s].op = "put" => Loaded[call[s].key] = call[s].record
  /\ writer[s].pc # "write" => writer[s].fd = Nothing

CallInv == \A s \in Stores : CallOK(s)

FileInv ==
  /\ TypeOK
  /\ LockInv
  /\ NamesApart
  /\ CallInv
  /\ FileIsWhole

-----------------------------------------------------------------------------
(***************************************************************************)
(* What a reader of the file gets.                                         *)
(***************************************************************************)

\* A text is told from what it leaves on disk, having one piece at least.
LEMMA WholeTells ==
  ASSUME NEW t, NEW u, Whole(t) = Whole(u)
  PROVE  t = u
<1>1. 1 \in 1..Pieces
  BY PiecesAssumption
<1>. QED
  BY <1>1 DEF Whole

LEMMA EmptyOK == EmptySnapshot \in Snapshots
BY DEF EmptySnapshot, Snapshots

\* _load of a file that is missing, and of one that holds a whole text.
LEMMA LoadedMissing == path = Nothing => Loaded = EmptySnapshot
BY DEF Loaded

LEMMA LoadedWhole ==
  ASSUME NEW t \in Snapshots, path # Nothing, Content = Whole(t)
  PROVE  Loaded = t
<1>1. \A u \in Snapshots : Content = Whole(u) => u = t
  BY WholeTells
<1>. QED
  BY <1>1 DEF Loaded

LEMMA LoadedOK == Loaded \in Snapshots
<1>1. CASE path # Nothing /\ \E t \in Snapshots : Content = Whole(t)
  BY <1>1 DEF Loaded
<1>2. CASE ~(path # Nothing /\ \E t \in Snapshots : Content = Whole(t))
  BY <1>2, EmptyOK DEF Loaded
<1>. QED
  BY <1>1, <1>2

\* The file is the same to its readers as long as its name and its inode are.
LEMMA LoadedStays ==
  ASSUME path' = path, path # Nothing => disk'[path] = disk[path]
  PROVE  Loaded' = Loaded /\ Content' = Content
<1>1. Content' = Content
  BY DEF Content
<1>. QED
  BY <1>1 DEF Loaded

LEMMA ChangedOK ==
  ASSUME NEW c \in Calls, NEW m \in Snapshots, c.pc # "idle"
  PROVE  /\ Changed(c, m) \in Snapshots
         /\ c.op = "put" => /\ Changed(c, m) = [m EXCEPT ![c.key] = c.record]
                            /\ c.key \in Keys /\ c.record \in Records
                            /\ Changed(c, m)[c.key] = c.record
         /\ c.op # "put" => Changed(c, m) = m
BY DEF Calls, NoCall, Changed, Snapshots

-----------------------------------------------------------------------------
(***************************************************************************)
(* What the updates of the calls and the writers produce.                  *)
(***************************************************************************)
LEMMA IdleWriterOK ==
  /\ IdleWriter \in Write
  /\ IdleWriter.pc = "idle" /\ IdleWriter.fd = Nothing /\ IdleWriter.at = 1
BY PiecesAssumption DEF IdleWriter, Write, WriterPcs

LEMMA NoCallOK == NoCall \in Calls /\ NoCall.pc = "idle"
BY DEF NoCall, Calls

\* Calls that only move on.
LEMMA CallMoves ==
  ASSUME NEW c \in Calls, c.pc # "idle",
         NEW pc \in {"lock", "reload", "persist", "unlock"}
  PROVE  /\ [c EXCEPT !.pc = pc] \in Calls
         /\ [c EXCEPT !.pc = pc].pc = pc
         /\ [c EXCEPT !.pc = pc].op = c.op
         /\ [c EXCEPT !.pc = pc].key = c.key
         /\ [c EXCEPT !.pc = pc].record = c.record
         /\ \A m : Changed([c EXCEPT !.pc = pc], m) = Changed(c, m)
<1>1. CASE c = NoCall
  BY <1>1, NoCallOK
<1>2. CASE c \in [op : {"put"}, key : Keys, record : Records,
                  pc : {"lock", "reload", "persist", "unlock"}]
  BY <1>2 DEF Calls, Changed
<1>3. CASE c \in [op : {"save"}, key : {NoRecord}, record : {NoRecord},
                  pc : {"lock", "reload", "persist", "unlock"}]
  BY <1>3 DEF Calls, Changed
<1>. QED
  BY <1>1, <1>2, <1>3 DEF Calls

-----------------------------------------------------------------------------
(***************************************************************************)
(* The invariant is inductive: one lemma per action.                       *)
(***************************************************************************)

\* A store that has not got the lock does not mind what happens to the file.
LEMMA CallElsewhere ==
  ASSUME NEW s \in Stores, CallOK(s), ~Holding(s),
         call'[s] = call[s], writer'[s] = writer[s]
  PROVE  CallOK(s)'
BY DEF CallOK, Holding

\* Nor does any store mind a step that changes nothing in the file.
LEMMA CallQuiet ==
  ASSUME NEW s \in Stores, CallOK(s),
         call'[s] = call[s], writer'[s] = writer[s], UNCHANGED <<disk, path, tmp>>
  PROVE  CallOK(s)'
<1>1. Loaded' = Loaded
  BY LoadedStays
<1>2. WriteOK(s)' <=> WriteOK(s)
  BY <1>1 DEF WriteOK, Changed, Whole
<1>. QED
  BY <1>1, <1>2 DEF CallOK

\* A step that changes nothing in the file: what is left to show of it.
LEMMA QuietStep ==
  ASSUME FileInv, UNCHANGED <<disk, path, tmp>>, NEW s \in Stores,
         TypeOK', LockInv', CallOK(s)',
         \A u \in Stores \ {s} : call'[u] = call[u] /\ writer'[u] = writer[u]
  PROVE  FileInv'
<1>1. \A u \in Stores : CallOK(u)'
  BY CallQuiet DEF FileInv, CallInv
<1>2. FileIsWhole'
  BY LoadedStays DEF FileInv, FileIsWhole, Content
<1>3. NamesApart'
  BY DEF FileInv, NamesApart
<1>. QED
  BY <1>1, <1>2, <1>3 DEF FileInv, CallInv

LEMMA FileInvInit == Init => FileInv
<1>. SUFFICES ASSUME Init PROVE FileInv
  OBVIOUS
<1>1. TypeOK
  <2>1. Blank \in [1..Pieces -> Texts \cup {Nothing}]
    BY DEF Blank
  <2>. QED
    BY <2>1, IdleWriterOK, NoCallOK, EmptyOK DEF Init, FileInit, TypeOK, FileTypeOK
<1>2. LockInv /\ CallInv
  BY IdleWriterOK, NoCallOK
     DEF Init, FileInit, Stores, LockInv, Holding, CallInv, CallOK
<1>. QED
  BY <1>1, <1>2 DEF Init, FileInit, FileInv, NamesApart, FileIsWhole

\* The steps of a call before its write.
LEMMA CallSteps ==
  ASSUME FileInv, NEW s \in Stores,
         \/ \E k \in Keys, r \in Records : BeginPut(s, k, r)
         \/ BeginSave(s)
         \/ Lock(s)
  PROVE  FileInv'
<1>0. /\ TypeOK /\ CallOK(s) /\ LockInv
      /\ call \in [Stores -> Calls]
      /\ UNCHANGED <<disk, path, tmp, writer, snapshot, answer>>
  BY DEF FileInv, CallInv, TypeOK, BeginPut, BeginSave, Lock, fileVars
<1>1. ASSUME NEW c \in Calls, call' = [call EXCEPT ![s] = c],
             c.pc \in {"lock", "reload"}, call[s].pc \in {"idle", "lock"},
             lock' \in Stores \cup {Nothing},
             \A u \in Stores : Holding(u) => lock' = u,
             c.pc = "reload" => lock' = s
      PROVE  FileInv'
  <2>1. TypeOK'
    BY <1>0, <1>1 DEF TypeOK, FileTypeOK
  <2>2. LockInv'
    BY <1>0, <1>1 DEF LockInv, Holding
  <2>3. CallOK(s)'
    BY <1>0, <1>1 DEF CallOK
  <2>. QED
    BY <1>0, <1>1, <2>1, <2>2, <2>3, QuietStep
<1>2. CASE \E k \in Keys, r \in Records : BeginPut(s, k, r)
  <2>1. PICK k \in Keys, r \in Records : BeginPut(s, k, r)
    BY <1>2
  <2>. DEFINE c == [op |-> "put", key |-> k, record |-> r, pc |-> "lock"]
  <2>2. c \in Calls /\ c.pc = "lock"
    BY DEF Calls
  <2>. QED
    BY <1>0, <1>1, <2>1, <2>2 DEF BeginPut, TypeOK, LockInv
<1>3. CASE BeginSave(s)
  <2>. DEFINE c == [op |-> "save", key |-> NoRecord, record |-> NoRecord,
                    pc |-> "lock"]
  <2>1. c \in Calls /\ c.pc = "lock"
    BY DEF Calls
  <2>. QED
    BY <1>0, <1>1, <1>3, <2>1 DEF BeginSave, TypeOK, LockInv
<1>4. CASE Lock(s)
  <2>. DEFINE c == [call[s] EXCEPT !.pc = "reload"]
  <2>1. c \in Calls /\ c.pc = "reload"
    BY <1>0, <1>4, CallMoves DEF Lock
  <2>2. call' = [call EXCEPT ![s] = c] /\ call[s].pc = "lock" /\ lock' = s
    BY <1>4 DEF Lock
  <2>3. \A u \in Stores : ~Holding(u)
    BY <1>0, <1>4, LockAssumption DEF Lock, LockInv
  <2>. HIDE DEF c
  <2>. QED
    BY <1>1, <2>1, <2>2, <2>3
<1>. QED
  BY <1>2, <1>3, <1>4

LEMMA GetStep ==
  ASSUME FileInv, NEW s \in Stores, NEW k \in Keys, Get(s, k)
  PROVE  FileInv'
<1>1. Loaded \in Snapshots /\ Loaded[k] \in Records \cup {NoRecord}
  BY LoadedOK DEF Snapshots
<1>2. TypeOK'
  BY <1>1 DEF Get, fileVars, FileInv, TypeOK, FileTypeOK
<1>3. LockInv'
  BY DEF Get, FileInv, LockInv, Holding
<1>. QED
  BY <1>2, <1>3, QuietStep, CallQuiet DEF Get, fileVars, FileInv, CallInv

\* The call reads the file and hands the changed map over to be written.
LEMMA ReloadStep ==
  ASSUME FileInv, NEW s \in Stores, Reload(s)
  PROVE  FileInv'
<1>. DEFINE t == Changed(call[s], Loaded)
            x == [pc |-> "open", text |-> t, fd |-> Nothing, at |-> 1]
            c == [call[s] EXCEPT !.pc = "persist"]
<1>0. /\ call[s] \in Calls /\ call[s].pc = "reload" /\ CallOK(s) /\ LockInv
      /\ call \in [Stores -> Calls] /\ writer \in [Stores -> Write]
      /\ UNCHANGED <<disk, path, tmp, lock, answer>>
  BY DEF FileInv, CallInv, TypeOK, FileTypeOK, Reload, Stores
<1>1. t \in Snapshots /\ t \in Texts
  BY <1>0, LoadedOK, ChangedOK, SnapshotsAssumption
<1>2. /\ x \in Write /\ x.pc = "open" /\ x.text = t /\ x.fd = Nothing
      /\ x.at = 1
  BY <1>1, PiecesAssumption DEF Write, WriterPcs
<1>3. /\ c \in Calls /\ c.pc = "persist"
      /\ \A m : Changed(c, m) = Changed(call[s], m)
  BY <1>0, CallMoves
<1>4. /\ writer' = [writer EXCEPT ![s] = x]
      /\ call' = [call EXCEPT ![s] = c]
      /\ snapshot' = [snapshot EXCEPT ![s] = t]
  BY DEF Reload, BeginWrite
<1>. HIDE DEF x, c
<1>5. /\ writer'[s] = x /\ call'[s] = c
      /\ \A u \in Stores \ {s} : writer'[u] = writer[u] /\ call'[u] = call[u]
      /\ writer' \in [Stores -> Write] /\ call' \in [Stores -> Calls]
  BY <1>0, <1>2, <1>3, <1>4
<1>6. TypeOK'
  BY <1>0, <1>1, <1>4, <1>5 DEF FileInv, TypeOK, FileTypeOK, Stores
<1>7. LockInv'
  <2>1. \A u \in Stores : Holding(u)' => Holding(u)
    BY <1>0, <1>5 DEF Holding
  <2>. QED
    BY <1>0, <2>1 DEF LockInv
<1>8. Loaded' = Loaded
  BY <1>0, LoadedStays
<1>9. t = Changed(c, Loaded)
  BY <1>3
<1>10. WriteOK(s)'
  BY <1>1, <1>2, <1>3, <1>5, <1>8 DEF WriteOK
<1>11. CallOK(s)'
  BY <1>2, <1>3, <1>5, <1>10 DEF CallOK
<1>. QED
  BY <1>0, <1>5, <1>6, <1>7, <1>11, QuietStep

\* The write of the store that has the lock: what its three steps share.
LEMMA PersistShared ==
  ASSUME FileInv, NEW s \in Stores, Persist(s)
  PROVE  /\ call[s] \in Calls /\ call[s].pc = "persist" /\ writer[s] \in Write
         /\ WriteOK(s)
         /\ call \in [Stores -> Calls] /\ writer \in [Stores -> Write]
         /\ disk \in [Inodes -> [1..Pieces -> Texts \cup {Nothing}]]
         /\ \A u \in Stores \ {s} : ~Holding(u) /\ CallOK(u)
         /\ UNCHANGED <<lock, snapshot, answer>>
<1>1. /\ call[s] \in Calls /\ call[s].pc = "persist" /\ writer[s] \in Write
      /\ WriteOK(s)
      /\ call \in [Stores -> Calls] /\ writer \in [Stores -> Write]
      /\ disk \in [Inodes -> [1..Pieces -> Texts \cup {Nothing}]]
      /\ UNCHANGED <<lock, snapshot, answer>>
  BY DEF FileInv, CallInv, CallOK, TypeOK, FileTypeOK, Persist, Stores
<1>2. lock = s
  BY <1>1 DEF FileInv, LockInv, Holding
<1>3. \A u \in Stores \ {s} : ~Holding(u) /\ CallOK(u)
  BY <1>2 DEF FileInv, LockInv, CallInv
<1>. QED
  BY <1>1, <1>3

\* What is left to show of each of them.
LEMMA PersistRest ==
  ASSUME FileInv, NEW s \in Stores, Persist(s),
         writer' \in [Stores -> Write], call' \in [Stores -> Calls],
         call'[s].pc \in {"persist", "unlock"},
         \A u \in Stores \ {s} : writer'[u] = writer[u] /\ call'[u] = call[u],
         disk' \in [Inodes -> [1..Pieces -> Texts \cup {Nothing}]],
         path' \in Inodes \cup {Nothing}, tmp' \in Inodes \cup {Nothing},
         NamesApart', FileIsWhole', CallOK(s)'
  PROVE  FileInv'
<1>0. /\ call \in [Stores -> Calls] /\ writer \in [Stores -> Write]
      /\ call[s].pc = "persist"
      /\ \A u \in Stores \ {s} : ~Holding(u) /\ CallOK(u)
      /\ UNCHANGED <<lock, snapshot, answer>>
  BY PersistShared
<1>2. TypeOK'
  BY <1>0 DEF FileInv, TypeOK, FileTypeOK, Stores
<1>3. LockInv'
  <2>1. \A u \in Stores : Holding(u)' => Holding(u)
    BY <1>0 DEF Holding
  <2>. QED
    BY <1>0, <2>1 DEF FileInv, LockInv
<1>4. \A u \in Stores \ {s} : CallOK(u)'
  BY <1>0, CallElsewhere
<1>. QED
  BY <1>2, <1>3, <1>4 DEF FileInv, CallInv

\* The temporary file is opened: nothing of the text is in it.
LEMMA OpenTmpStep ==
  ASSUME FileInv, NEW s \in Stores, Persist(s), OpenTmp(s)
  PROVE  FileInv'
<1>0. /\ call[s] \in Calls /\ call[s].pc = "persist" /\ writer[s] \in Write
      /\ WriteOK(s)
      /\ call \in [Stores -> Calls] /\ writer \in [Stores -> Write]
      /\ disk \in [Inodes -> [1..Pieces -> Texts \cup {Nothing}]]
  BY PersistShared
<1>1. PICK i \in Inodes :
        /\ IF tmp = Nothing THEN Free(i) ELSE i = tmp
        /\ disk' = [disk EXCEPT ![i] = Blank]
        /\ tmp' = i
        /\ writer' = [writer EXCEPT ![s].pc = "write", ![s].fd = i]
  BY DEF OpenTmp
<1>2. i # path /\ i # Nothing /\ path' = path /\ writer[s].pc = "open"
  BY <1>1, NothingAssumption DEF Free, FileInv, NamesApart, OpenTmp
<1>3. /\ writer' \in [Stores -> Write]
      /\ writer'[s].pc = "write" /\ writer'[s].fd = i
      /\ writer'[s].text = writer[s].text /\ writer'[s].at = writer[s].at
      /\ \A u \in Stores \ {s} : writer'[u] = writer[u]
  BY <1>0, <1>1 DEF Write, WriterPcs
<1>4. call' = call
  BY <1>3 DEF Persist
<1>5. disk' \in [Inodes -> [1..Pieces -> Texts \cup {Nothing}]]
  <2>1. Blank \in [1..Pieces -> Texts \cup {Nothing}]
    BY DEF Blank
  <2>. QED
    BY <1>0, <1>1, <2>1
<1>6. Loaded' = Loaded /\ Content' = Content
  <2>1. path # Nothing => path \in Inodes
    BY DEF FileInv, TypeOK, FileTypeOK
  <2>. QED
    BY <1>0, <1>1, <1>2, <2>1, LoadedStays
<1>7. WriteOK(s)'
  <2>1. writer[s].at = 1
    BY <1>0, <1>2 DEF WriteOK
  <2>2. \A p \in 1..Pieces : ~(p < writer'[s].at)
    BY <1>3, <2>1
  <2>. QED
    BY <1>0, <1>1, <1>2, <1>3, <1>4, <1>6, <2>2 DEF WriteOK
<1>8. CallOK(s)'
  BY <1>0, <1>3, <1>4, <1>7 DEF CallOK
<1>9. NamesApart' /\ FileIsWhole'
  BY <1>1, <1>2, <1>6 DEF NamesApart, FileIsWhole, FileInv, Whole
<1>. QED
  BY <1>0, <1>1, <1>2, <1>3, <1>4, <1>5, <1>8, <1>9, PersistRest
     DEF FileInv, TypeOK, FileTypeOK

\* A piece is written; after the last one the temporary file has the text.
LEMMA WritePieceStep ==
  ASSUME FileInv, NEW s \in Stores, Persist(s), WritePiece(s)
  PROVE  FileInv'
<1>. DEFINE x == writer[s]
<1>0. /\ call[s] \in Calls /\ call[s].pc = "persist" /\ x \in Write
      /\ WriteOK(s)
      /\ call \in [Stores -> Calls] /\ writer \in [Stores -> Write]
      /\ disk \in [Inodes -> [1..Pieces -> Texts \cup {Nothing}]]
  BY PersistShared
<1>1. /\ x.pc = "write" /\ x.fd = tmp /\ tmp # Nothing /\ tmp \in Inodes
      /\ x.at \in 1..Pieces /\ x.text \in Texts /\ tmp # path
      /\ UNCHANGED <<path, tmp>>
      /\ \A p \in 1..Pieces : p < x.at => disk[tmp][p] = x.text
  BY <1>0 DEF WritePiece, WriteOK, Write, FileInv, TypeOK, FileTypeOK, NamesApart
<1>2. disk' = [disk EXCEPT ![tmp][x.at] = x.text]
  BY <1>1 DEF WritePiece
<1>3. /\ disk' \in [Inodes -> [1..Pieces -> Texts \cup {Nothing}]]
      /\ disk'[tmp][x.at] = x.text
      /\ \A p \in 1..Pieces : p # x.at => disk'[tmp][p] = disk[tmp][p]
      /\ \A i \in Inodes : i # tmp => disk'[i] = disk[i]
  BY <1>0, <1>1, <1>2
<1>4. Loaded' = Loaded /\ Content' = Content
  <2>1. path # Nothing => path \in Inodes
    BY DEF FileInv, TypeOK, FileTypeOK
  <2>. QED
    BY <1>1, <1>3, <2>1, LoadedStays
<1>5. \A p \in 1..Pieces : p < x.at + 1 => disk'[tmp][p] = x.text
  BY <1>1, <1>3, PiecesAssumption
<1>6. /\ writer' \in [Stores -> Write]
      /\ \A u \in Stores \ {s} : writer'[u] = writer[u]
      /\ writer'[s].text = x.text
      /\ \/ /\ writer'[s].pc = "write" /\ writer'[s].fd = tmp
            /\ writer'[s].at = x.at + 1
         \/ /\ x.at = Pieces
            /\ writer'[s].pc = "replace" /\ writer'[s].fd = Nothing
  <2>1. CASE x.at < Pieces
    <3>1. writer' = [writer EXCEPT ![s].at = @ + 1]
      BY <2>1 DEF WritePiece
    <3>2. x.at + 1 \in 1..Pieces
      BY <1>1, <2>1, PiecesAssumption
    <3>. QED
      BY <1>0, <1>1, <3>1, <3>2 DEF Write
  <2>2. CASE ~(x.at < Pieces)
    <3>1. writer' = [writer EXCEPT ![s].pc = "replace", ![s].fd = Nothing]
      BY <2>2 DEF WritePiece
    <3>2. x.at = Pieces
      BY <1>1, <2>2, PiecesAssumption
    <3>. QED
      BY <1>0, <3>1, <3>2 DEF Write, WriterPcs
  <2>. QED
    BY <2>1, <2>2
<1>7. call' = call
  BY <1>6 DEF Persist
<1>8. WriteOK(s)'
  <2>1. CASE writer'[s].pc = "write"
    BY <1>0, <1>1, <1>4, <1>5, <1>6, <1>7, <2>1 DEF WriteOK
  <2>2. CASE writer'[s].pc = "replace"
    <3>1. x.at = Pieces
      BY <1>6, <2>2
    <3>2. \A p \in 1..Pieces : disk'[tmp][p] = x.text
      BY <1>1, <1>5, <3>1, PiecesAssumption
    <3>3. disk'[tmp] = Whole(x.text)
      BY <1>1, <1>3, <3>2 DEF Whole
    <3>. QED
      BY <1>0, <1>1, <1>4, <1>6, <1>7, <2>2, <3>3 DEF WriteOK, Whole
  <2>. QED
    BY <1>6, <2>1, <2>2
<1>9. CallOK(s)'
  BY <1>0, <1>6, <1>7, <1>8 DEF CallOK
<1>10. NamesApart' /\ FileIsWhole'
  BY <1>1, <1>4 DEF NamesApart, FileIsWhole, FileInv, Whole
<1>. QED
  BY <1>0, <1>1, <1>3, <1>6, <1>7, <1>9, <1>10, PersistRest
     DEF FileInv, TypeOK, FileTypeOK

\* What the rename does: readers get the text that was written, the whole of
\* it, and the call is about to return.
LEMMA ReplaceFacts ==
  ASSUME FileInv, NEW s \in Stores, Persist(s), Replace(s)
  PROVE  /\ writer[s].text \in Snapshots
         /\ writer[s].text = Changed(call[s], Loaded)
         /\ path' = tmp /\ tmp' = Nothing /\ disk' = disk
         /\ path' # Nothing /\ path' \in Inodes
         /\ Content' = Whole(writer[s].text)
         /\ Loaded' = writer[s].text
         /\ writer' = [writer EXCEPT ![s].pc = "done"]
         /\ call' = [call EXCEPT ![s].pc = "unlock"]
<1>1. /\ WriteOK(s) /\ writer[s].pc = "replace" /\ writer[s] \in Write
      /\ writer \in [Stores -> Write]
  BY PersistShared DEF Replace
<1>2. tmp # Nothing /\ tmp \in Inodes /\ disk[tmp] = Whole(writer[s].text)
  BY <1>1 DEF WriteOK, FileInv, TypeOK, FileTypeOK
<1>3. /\ path' = tmp /\ tmp' = Nothing /\ disk' = disk
      /\ writer' = [writer EXCEPT ![s].pc = "done"]
  BY <1>2 DEF Replace
<1>4. writer'[s].pc = "done"
  BY <1>1, <1>3
<1>5. call' = [call EXCEPT ![s].pc = "unlock"]
  BY <1>4 DEF Persist
<1>6. writer[s].text \in Snapshots
  BY <1>1, SnapshotsAssumption DEF WriteOK
<1>7. Content' = Whole(writer[s].text)
  BY <1>2, <1>3 DEF Content
<1>8. Loaded' = writer[s].text
  <2>1. \A t \in Snapshots : Content' = Whole(t) => t = writer[s].text
    BY <1>7, WholeTells
  <2>2. path' # Nothing
    BY <1>2, <1>3
  <2>. QED
    BY <1>6, <1>7, <2>1, <2>2 DEF Loaded, Whole
<1>. QED
  BY <1>1, <1>2, <1>3, <1>5, <1>6, <1>7, <1>8 DEF WriteOK

LEMMA ReplaceStep ==
  ASSUME FileInv, NEW s \in Stores, Persist(s), Replace(s)
  PROVE  FileInv'
<1>. DEFINE c == [call[s] EXCEPT !.pc = "unlock"]
<1>0. /\ call[s] \in Calls /\ call[s].pc = "persist" /\ writer[s] \in Write
      /\ call \in [Stores -> Calls] /\ writer \in [Stores -> Write]
      /\ disk \in [Inodes -> [1..Pieces -> Texts \cup {Nothing}]]
  BY PersistShared
<1>1. /\ writer[s].text \in Snapshots
      /\ writer[s].text = Changed(call[s], Loaded)
      /\ path' = tmp /\ tmp' = Nothing /\ disk' = disk
      /\ path' # Nothing /\ path' \in Inodes
      /\ Content' = Whole(writer[s].text)
      /\ Loaded' = writer[s].text
      /\ writer' = [writer EXCEPT ![s].pc = "done"]
      /\ call' = [call EXCEPT ![s] = c]
  BY ReplaceFacts
<1>2. /\ c \in Calls /\ c.pc = "unlock" /\ c.op = call[s].op
      /\ c.key = call[s].key /\ c.record = call[s].record
  BY <1>0, CallMoves
<1>. HIDE DEF c
<1>3. /\ call' \in [Stores -> Calls] /\ call'[s] = c
      /\ \A u \in Stores \ {s} : call'[u] = call[u]
  BY <1>0, <1>1, <1>2
<1>4. /\ writer' \in [Stores -> Write] /\ writer'[s].pc = "done"
      /\ writer'[s].fd = writer[s].fd
      /\ \A u \in Stores \ {s} : writer'[u] = writer[u]
  BY <1>0, <1>1 DEF Write, WriterPcs
<1>5. writer[s].fd = Nothing
  BY DEF FileInv, CallInv, CallOK, Replace
<1>6. c.op = "put" => Loaded'[c.key] = c.record
  <2>1. call[s].pc # "idle" /\ Loaded \in Snapshots
    BY <1>0, LoadedOK
  <2>2. call[s].op = "put" =>
          Changed(call[s], Loaded)[call[s].key] = call[s].record
    BY <1>0, <2>1, ChangedOK
  <2>. QED
    BY <1>1, <1>2, <2>2
<1>7. CallOK(s)'
  BY <1>2, <1>3, <1>4, <1>5, <1>6 DEF CallOK
<1>8. NamesApart' /\ FileIsWhole'
  BY <1>1, SnapshotsAssumption DEF NamesApart, FileIsWhole, Whole
<1>. QED
  BY <1>0, <1>1, <1>2, <1>3, <1>4, <1>7, <1>8, PersistRest

\* The writer is gone and the call with it: the end of a call, and a crash.
LEMMA EndStep ==
  ASSUME FileInv, NEW s \in Stores, StopWriter(s),
         call' = [call EXCEPT ![s] = NoCall],
         lock' \in Stores \cup {Nothing},
         \A u \in Stores \ {s} : Holding(u) => lock' = u,
         snapshot' \in [Stores -> Snapshots],
         answer' \in [Stores -> Records \cup {NoRecord, Nothing}]
  PROVE  FileInv'
<1>0. /\ call \in [Stores -> Calls] /\ writer \in [Stores -> Write]
      /\ writer' = [writer EXCEPT ![s] = IdleWriter]
      /\ UNCHANGED <<disk, path, tmp>>
  BY DEF FileInv, TypeOK, FileTypeOK, StopWriter, Stores
<1>1. /\ call' \in [Stores -> Calls] /\ call'[s] = NoCall
      /\ writer' \in [Stores -> Write] /\ writer'[s] = IdleWriter
      /\ \A u \in Stores \ {s} : call'[u] = call[u] /\ writer'[u] = writer[u]
  BY <1>0, NoCallOK, IdleWriterOK
<1>2. TypeOK'
  BY <1>0, <1>1 DEF FileInv, TypeOK, FileTypeOK, Stores
<1>3. LockInv'
  <2>1. ~Holding(s)'
    BY <1>1, NoCallOK DEF Holding
  <2>2. \A u \in Stores \ {s} : Holding(u)' => Holding(u)
    BY <1>1 DEF Holding
  <2>. QED
    BY <2>1, <2>2 DEF LockInv
<1>4. CallOK(s)'
  BY <1>1, NoCallOK, IdleWriterOK DEF CallOK
<1>. QED
  BY <1>0, <1>1, <1>2, <1>3, <1>4, QuietStep

LEMMA UnlockStep ==
  ASSUME FileInv, NEW s \in Stores, Unlock(s)
  PROVE  FileInv'
<1>1. lock = s /\ \A u \in Stores \ {s} : ~Holding(u)
  BY DEF FileInv, LockInv, Holding, Unlock
<1>. QED
  BY <1>1, EndStep DEF Unlock, FileInv, TypeOK

LEMMA CrashStep ==
  ASSUME FileInv, NEW s \in Stores, Crash(s)
  PROVE  FileInv'
<1>1. lock' \in Stores \cup {Nothing}
      /\ \A u \in Stores \ {s} : Holding(u) => lock' = u
  BY DEF Crash, FileInv, LockInv, TypeOK
<1>2. /\ snapshot' \in [Stores -> Snapshots]
      /\ answer' \in [Stores -> Records \cup {NoRecord, Nothing}]
  BY LoadedOK DEF Crash, FileInv, TypeOK
<1>. QED
  BY <1>1, <1>2, EndStep DEF Crash

LEMMA FileInvNext == FileInv /\ [Next]_vars => FileInv'
<1>. SUFFICES ASSUME FileInv, [Next]_vars PROVE FileInv'
  OBVIOUS
<1>1. CASE Next
  <2>. PICK s \in Stores :
         \/ \E k \in Keys : Get(s, k)
         \/ \E k \in Keys, r \in Records : BeginPut(s, k, r)
         \/ BeginSave(s)
         \/ Lock(s)
         \/ Reload(s)
         \/ Persist(s)
         \/ Unlock(s)
         \/ Crash(s)
    BY <1>1 DEF Next
  <2>1. CASE Persist(s)
    BY <2>1, OpenTmpStep, WritePieceStep, ReplaceStep DEF Persist, WriteStep
  <2>. QED
    BY <2>1, GetStep, CallSteps, ReloadStep, UnlockStep, CrashStep
<1>2. CASE UNCHANGED vars
  BY <1>2, LoadedStays
     DEF vars, FileInv, TypeOK, FileTypeOK, LockInv, Holding, NamesApart,
         CallInv, CallOK, WriteOK, Changed, FileIsWhole, Content, Whole
<1>. QED
  BY <1>1, <1>2

-----------------------------------------------------------------------------
(***************************************************************************)
(* What holds in every run of the store.                                   *)
(***************************************************************************)
LEMMA FileInvariant == Spec => []FileInv
BY FileInvInit, FileInvNext, PTL DEF Spec

\* The type invariant.
THEOREM FileTypesHold == Spec => []TypeOK
<1>1. FileInv => TypeOK
  BY DEF FileInv
<1>. QED
  BY FileInvariant, <1>1, PTL

\* A reader that opens the path, with no lock, gets one text as it was
\* written, whoever is writing and wherever a writer died.
THEOREM FileIsAlwaysWhole == Spec => []FileIsWhole
<1>1. FileInv => FileIsWhole
  BY DEF FileInv
<1>. QED
  BY FileInvariant, <1>1, PTL

\* A put that is about to return is in the file, and no rename fails.
THEOREM PutsTakeEffect == Spec => []PutTookEffect
<1>1. FileInv => PutTookEffect
  BY DEF FileInv, CallInv, CallOK, PutTookEffect
<1>. QED
  BY FileInvariant, <1>1, PTL

-----------------------------------------------------------------------------
(***************************************************************************)
(* The file is the map that its port promises.                             *)
(***************************************************************************)

\* Before the rename, and after it, a call changes nothing that a client of
\* the store could see.
LEMMA UnseenSteps ==
  ASSUME FileInv, NEW s \in Stores,
         \/ \E k \in Keys, r \in Records : BeginPut(s, k, r)
         \/ BeginSave(s)
         \/ Lock(s)
         \/ Reload(s)
         \/ Persist(s) /\ ~Replace(s)
         \/ Unlock(s)
  PROVE  UNCHANGED <<Loaded, answer>>
<1>1. CASE UNCHANGED <<disk, path, answer>>
  BY <1>1, LoadedStays
<1>2. CASE Persist(s) /\ OpenTmp(s)
  <2>1. PICK i \in Inodes :
          /\ IF tmp = Nothing THEN Free(i) ELSE i = tmp
          /\ disk' = [disk EXCEPT ![i] = Blank]
    BY <1>2 DEF OpenTmp
  <2>2. i # path /\ path' = path
    BY <1>2, <2>1, NothingAssumption DEF Free, FileInv, NamesApart, OpenTmp
  <2>3. path # Nothing => disk'[path] = disk[path]
    BY <2>1, <2>2 DEF FileInv, TypeOK, FileTypeOK
  <2>. QED
    BY <1>2, <2>2, <2>3, LoadedStays DEF Persist
<1>3. CASE Persist(s) /\ WritePiece(s)
  <2>1. writer[s].fd = tmp /\ tmp # path
    BY <1>3, PersistShared DEF WritePiece, WriteOK, FileInv, NamesApart
  <2>2. path # Nothing => disk'[path] = disk[path]
    BY <1>3, <2>1 DEF WritePiece, FileInv, TypeOK, FileTypeOK
  <2>. QED
    BY <1>3, <2>2, LoadedStays DEF WritePiece, Persist
<1>. QED
  BY <1>1, <1>2, <1>3
     DEF BeginPut, BeginSave, Lock, Reload, Unlock, StopWriter, fileVars,
         Persist, WriteStep

\* A get answers with what the map holds for the key.
LEMMA GetIsGet ==
  ASSUME NEW s \in Stores, NEW k \in Keys, Get(s, k)
  PROVE  Map!Get(s, k)
<1>1. Loaded' = Loaded
  BY LoadedStays DEF Get, fileVars
<1>. QED
  BY <1>1 DEF Get, Map!Get

\* The rename of a put is the put of the map; that of a save changes nothing.
LEMMA RenameIsPut ==
  ASSUME FileInv, NEW s \in Stores, Persist(s), Replace(s)
  PROVE  \/ \E k \in Keys, r \in Records : Map!Put(k, r)
         \/ UNCHANGED <<Loaded, answer>>
<1>1. /\ Loaded' = Changed(call[s], Loaded)
      /\ call[s] \in Calls /\ call[s].pc # "idle" /\ answer' = answer
  BY ReplaceFacts, PersistShared
<1>2. CASE call[s].op = "put"
  <2>1. /\ Loaded' = [Loaded EXCEPT ![call[s].key] = call[s].record]
        /\ call[s].key \in Keys /\ call[s].record \in Records
    BY <1>1, <1>2, LoadedOK, ChangedOK
  <2>. QED
    BY <1>1, <2>1 DEF Map!Put
<1>3. CASE call[s].op # "put"
  BY <1>1, <1>3, LoadedOK, ChangedOK
<1>. QED
  BY <1>2, <1>3

LEMMA CrashIsForget ==
  ASSUME NEW s \in Stores, Crash(s)
  PROVE  Map!Forget(s)
<1>1. Loaded' = Loaded
  BY LoadedStays DEF Crash, StopWriter
<1>. QED
  BY <1>1 DEF Crash, Map!Forget

LEMMA StoreStepIsMapStep ==
  FileInv /\ [Next]_vars => [Map!KVNext]_<<Loaded, answer>>
<1>. SUFFICES ASSUME FileInv, [Next]_vars
              PROVE  Map!KVNext \/ UNCHANGED <<Loaded, answer>>
  OBVIOUS
<1>1. CASE Next
  <2>. PICK s \in Stores :
         \/ \E k \in Keys : Get(s, k)
         \/ \E k \in Keys, r \in Records : BeginPut(s, k, r)
         \/ BeginSave(s)
         \/ Lock(s)
         \/ Reload(s)
         \/ Persist(s)
         \/ Unlock(s)
         \/ Crash(s)
    BY <1>1 DEF Next
  <2>1. CASE \E k \in Keys : Get(s, k)
    BY <2>1, GetIsGet DEF Map!KVNext
  <2>2. CASE Persist(s) /\ Replace(s)
    BY <2>2, RenameIsPut DEF Map!KVNext
  <2>3. CASE Crash(s)
    BY <2>3, CrashIsForget DEF Map!KVNext
  <2>. QED
    BY <2>1, <2>2, <2>3, UnseenSteps
<1>2. CASE UNCHANGED vars
  BY <1>2, LoadedStays DEF vars
<1>. QED
  BY <1>1, <1>2

\* Although get takes no file lock and the calls of several processes
\* overlap, every put changes its own key and no other at one instant (the
\* rename), every get answers with the map of one instant, a save changes
\* nothing, and a crash loses no record.
THEOREM FileImplementsMap == Spec => ImplementsMap
<1>1. Init => Map!KVInit
  <2>1. Init => Loaded = EmptySnapshot
    BY LoadedMissing DEF Init, FileInit
  <2>. QED
    BY <2>1 DEF Init, Map!KVInit, EmptySnapshot
<1>. QED
  BY <1>1, FileInvariant, StoreStepIsMapStep, PTL
     DEF Spec, ImplementsMap, Map!KVSpec
=============================================================================
