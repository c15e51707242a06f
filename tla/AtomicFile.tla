----------------------------- MODULE AtomicFile -----------------------------
(***************************************************************************)
(* atomic_write_text: write a whole text to <path>.tmp, then rename it     *)
(* over <path>.  The temporary name is the same for all writers of a path, *)
(* so files are modelled as inodes: names point to inodes, and a writer    *)
(* keeps writing to the inode it opened whatever happens to its name.      *)
(* Modules that save files extend this one.                                *)
(***************************************************************************)
EXTENDS Integers

CONSTANTS
  Writers,      \* threads or processes that save to the path
  Texts,        \* what they save
  Inodes,
  Nothing,      \* no inode, or a piece of a file that was not written
  Pieces        \* write calls that one write_text makes

ASSUME NothingAssumption == Nothing \notin Inodes /\ Nothing \notin Texts

ASSUME PiecesAssumption == Pieces \in Nat \ {0}

VARIABLES
  disk,         \* disk[i]: the pieces in inode i
  path,         \* the inode that <path> names
  tmp,          \* the inode that <path>.tmp names
  writer        \* writer[w]: the call of atomic_write_text in progress

fileVars == <<disk, path, tmp, writer>>

Blank == [p \in 1..Pieces |-> Nothing]

\* The content that text t has on disk when it was written as a whole.
Whole(t) == [p \in 1..Pieces |-> t]

\* What a reader that opens <path> gets; a reader that opened it before a
\* rename keeps the inode it opened, so its read counts as of the open.
Content == IF path = Nothing THEN Blank ELSE disk[path]

IdleWriter == [pc |-> "idle", text |-> Nothing, fd |-> Nothing, at |-> 1]

WriterPcs == {"idle", "open", "write", "replace", "done", "error"}

Write == [pc : WriterPcs, text : Texts \cup {Nothing},
          fd : Inodes \cup {Nothing}, at : 1..Pieces]

FileTypeOK ==
  /\ disk \in [Inodes -> [1..Pieces -> Texts \cup {Nothing}]]
  /\ path \in Inodes \cup {Nothing}
  /\ tmp \in Inodes \cup {Nothing}
  /\ writer \in [Writers -> Write]

FileInit ==
  /\ disk = [i \in Inodes |-> Blank]
  /\ path = Nothing
  /\ tmp = Nothing
  /\ writer = [w \in Writers |-> IdleWriter]

-----------------------------------------------------------------------------
\* An inode without a name that nobody has open.
Free(i) == i \notin {path, tmp} /\ \A w \in Writers : writer[w].fd # i

\* Mutant: the offset counts from zero.
BeginWriteAtZero(w, t) ==
  writer' = [writer EXCEPT ![w] = [pc |-> "open", text |-> t, fd |-> Nothing,
                                   at |-> 0]]

\* The call: the arguments are bound, nothing is on disk yet.
BeginWrite(w, t) ==
  writer' = [writer EXCEPT ![w] = [pc |-> "open", text |-> t, fd |-> Nothing,
                                   at |-> 1]]

\* Mutant: the text is written to the path itself.
OpenPath(w) ==
  /\ writer[w].pc = "open"
  /\ \E i \in Inodes :
       /\ IF path = Nothing THEN Free(i) ELSE i = path
       /\ disk' = [disk EXCEPT ![i] = Blank]
       /\ path' = i
       /\ writer' = [writer EXCEPT ![w].pc = "write", ![w].fd = i]
  /\ UNCHANGED tmp

\* write_text opens <path>.tmp with mode "w": a file of that name is
\* truncated, otherwise a new one is made.
OpenTmp(w) ==
  /\ writer[w].pc = "open"
  /\ \E i \in Inodes :
       /\ IF tmp = Nothing THEN Free(i) ELSE i = tmp
       /\ disk' = [disk EXCEPT ![i] = Blank]
       /\ tmp' = i
       /\ writer' = [writer EXCEPT ![w].pc = "write", ![w].fd = i]
  /\ UNCHANGED path

\* The next piece of the text, at the writer's own offset; after the last one
\* the file is closed.
WritePiece(w) ==
  /\ writer[w].pc = "write"
  /\ disk' = [disk EXCEPT ![writer[w].fd][writer[w].at] = writer[w].text]
  /\ writer' = IF writer[w].at < Pieces
                 THEN [writer EXCEPT ![w].at = @ + 1]
                 ELSE [writer EXCEPT ![w].pc = "replace", ![w].fd = Nothing]
  /\ UNCHANGED <<path, tmp>>

\* os.replace; another writer may have renamed the temporary file already.
Replace(w) ==
  /\ writer[w].pc = "replace"
  /\ IF tmp = Nothing
       THEN /\ writer' = [writer EXCEPT ![w].pc = "error"]
            /\ UNCHANGED <<path, tmp>>
       ELSE /\ path' = tmp
            /\ tmp' = Nothing
            /\ writer' = [writer EXCEPT ![w].pc = "done"]
  /\ UNCHANGED disk

WriteStep(w) == OpenTmp(w) \/ WritePiece(w) \/ Replace(w)

\* A writer that dies leaves names and inodes as they are.
StopWriter(w) ==
  /\ writer' = [writer EXCEPT ![w] = IdleWriter]
  /\ UNCHANGED <<disk, path, tmp>>

-----------------------------------------------------------------------------
\* Whoever opens the path reads one text as it was written, never a torn or a
\* mixed one: "Write file atomically via temp file + rename (crash-safe)".
\* FileIdempotencyStore._load, which takes no file lock in a get, would count
\* another file as empty, and the next put would save that.
FileIsWhole ==
  path # Nothing => \E t \in Texts : Content = Whole(t)
=============================================================================
