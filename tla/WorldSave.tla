------------------------------ MODULE WorldSave -----------------------------
(***************************************************************************)
(* The files of one world: src/autoload/world_save.gd and                  *)
(* src/persistence/world_save_io.gd.                                       *)
(*                                                                         *)
(* The database (canonical) is changed by single SQLite statements, each   *)
(* atomic.  A checkpoint writes the changed chunks, stages a copy of the   *)
(* database (tmp, renamed to atomic) and rotates the backups; opening the  *)
(* world promotes a staged copy and falls back to a backup when the        *)
(* database cannot be opened.  All of this runs on one thread: what        *)
(* happens between two steps is the end of the process (Crash).  A file    *)
(* that is written in pieces is Partial until the last piece.  Files       *)
(* outlive the process; losing the operating system's cache with the power *)
(* is not modelled.                                                        *)
(*                                                                         *)
(* The content of a file counts, for each chunk and for the rest of the    *)
(* database (Meta: world_meta, chests, snapshots), the changes it holds.   *)
(***************************************************************************)
EXTENDS Integers, FiniteSets

CONSTANTS
    Chunk,      \* chunk coordinates
    Meta,       \* the tables that are written without a checkpoint
    Keep,       \* BACKUP_KEEP
    MaxChanges, \* bound on the changes of each item
    Failing,    \* what may fail: "save" (the statement of _save_chunk), "stage"
                \* (atomic_write_sqlite), "promote" (renaming .atomic), "reopen"
                \* (open_db), "medium" (the disk)
    MaxMishaps, \* bound on the kinds of failure that harm the files
    Absent,     \* no such file
    Partial     \* a file that is no whole database

Item == Chunk \cup {Meta}

Content == [Item -> Nat]

ASSUME MetaAssumption == Meta \notin Chunk
ASSUME KeepAssumption == Keep \in Nat \ {0}
ASSUME BoundAssumption == MaxChanges \in Nat /\ MaxMishaps \in Nat
ASSUME FailingAssumption ==
    Failing \subseteq {"save", "stage", "promote", "reopen", "medium"}
ASSUME FileAssumption ==
    Absent \notin Content /\ Partial \notin Content /\ Absent # Partial

VARIABLES
    canonical, \* world.meta.sqlite
    tmp,       \* world.meta.sqlite.tmp
    atomic,    \* world.meta.sqlite.atomic
    bak,       \* world.meta.sqlite.bak.1 ...
    pc,        \* what the program is doing
    slot,      \* the backup that is being rotated, or restored from
    grid,      \* the chunks in memory (StudGrid)
    dirty,     \* _dirty_chunks
    left,      \* dirty chunks that the running checkpoint has not written yet
    closing,   \* the running checkpoint is that of close_world
    saved,     \* history: the database when a checkpoint last succeeded
    mishaps    \* history: which of Failing has harmed the files

files == <<canonical, tmp, atomic, bak>>
memory == <<grid, dirty, left, closing>>
history == <<saved, mishaps>>
vars == <<files, pc, slot, memory, history>>

File == Content \cup {Absent, Partial}

Empty == [i \in Item |-> 0]

AtLeast(f, g) == \A i \in Item : f[i] >= g[i]

TypeOK ==
    /\ canonical \in File /\ tmp \in File
    /\ atomic \in Content \cup {Absent}
    /\ bak \in [1..Keep -> File]
    /\ pc \in {"closed", "recovering", "promoting", "opening", "falling", "restoring",
               "open", "saving", "staging", "renaming", "rotating", "shifting",
               "copying", "reopening", "lost"}
    /\ slot \in 0..(Keep + 1)
    /\ grid \in [Chunk -> Nat]
    /\ dirty \subseteq Chunk /\ left \subseteq Chunk
    /\ closing \in BOOLEAN
    /\ saved \in Content /\ mishaps \subseteq Failing

Init ==
    /\ canonical = Absent /\ tmp = Absent /\ atomic = Absent
    /\ bak = [i \in 1..Keep |-> Absent]
    /\ pc = "closed" /\ slot = 0
    /\ grid = [c \in Chunk |-> 0] /\ dirty = {} /\ left = {} /\ closing = FALSE
    /\ saved = Empty /\ mishaps = {}

Mishap(what) ==
    /\ what \in Failing
    /\ mishaps' = mishaps \cup {what} /\ Cardinality(mishaps') <= MaxMishaps

(***************************************************************************)
(* Opening: open_world, load_canonical_or_bak.                             *)
(***************************************************************************)

(* Also after a checkpoint that could not reopen its database: open_world
   asks for no more than that none is open, and leaves the dirty set.      *)
OpenWorld ==
    /\ pc \in {"closed", "lost"}
    /\ pc' = IF atomic = Absent THEN "opening" ELSE "recovering"
    /\ UNCHANGED <<files, slot, memory, history>>

(* A staged copy was found: the database makes room for it.                *)
RemoveCanonical ==
    /\ pc = "recovering"
    /\ pc' = "promoting" /\ canonical' = Absent
    /\ UNCHANGED <<tmp, atomic, bak, slot, memory, history>>

(* The result of load_canonical_or_bak is not used: open_world goes on
   with the database, whether or not the staged copy has become it.        *)
PromoteAtomic ==
    /\ pc = "promoting"
    /\ pc' = "opening"
    /\ \/ canonical' = atomic /\ atomic' = Absent /\ UNCHANGED mishaps
       \/ Mishap("promote") /\ UNCHANGED <<canonical, atomic>>
    /\ UNCHANGED <<tmp, bak, slot, memory, saved>>

(* The world is open with content f: its chunks are loaded.                *)
Opened(f) ==
    /\ canonical' = f
    /\ grid' = [c \in Chunk |-> f[c]]
    /\ pc' = "open"

(* open_db makes an empty database where there is none.                    *)
OpenCanonical ==
    /\ pc = "opening"
    /\ \/ canonical = Absent /\ Opened(Empty)
       \/ canonical \in Content /\ Opened(canonical)
    /\ UNCHANGED <<tmp, atomic, bak, slot, dirty, left, closing, history>>

(* Mutant: the oldest backup is tried first.                               *)
OldestBackupFirst ==
    /\ pc = "opening" /\ canonical = Partial
    /\ pc' = "falling" /\ slot' = Keep
    /\ UNCHANGED <<files, memory, history>>

(* Mutant: a database that is refused is removed, and made anew.           *)
CanonicalReplaced ==
    /\ pc = "opening" /\ canonical = Partial
    /\ canonical' = Absent
    /\ UNCHANGED <<tmp, atomic, bak, pc, slot, memory, history>>

(* open_db refuses the database; or it does not look into the file, and
   _create_schema fails: open_world then gives up without trying a backup.  *)
CanonicalRefused ==
    /\ pc = "opening" /\ canonical = Partial
    /\ \/ pc' = "falling" /\ slot' = 1
       \/ pc' = "closed" /\ UNCHANGED slot
    /\ UNCHANGED <<files, memory, history>>

(* The backups in turn.  The first that opens is copied to the database;
   one that is not whole is refused, or its copy is.                       *)
TryBackup ==
    /\ pc = "falling"
    /\ IF slot > Keep
       THEN pc' = "closed" /\ UNCHANGED <<slot, canonical>>
       ELSE \/ /\ bak[slot] \notin Content
               /\ slot' = slot + 1 /\ UNCHANGED <<pc, canonical>>
            \/ /\ bak[slot] # Absent
               /\ pc' = "restoring" /\ canonical' = Partial /\ UNCHANGED slot
    /\ UNCHANGED <<tmp, atomic, bak, memory, history>>

RestoreBackup ==
    /\ pc = "restoring"
    /\ IF bak[slot] \in Content
       THEN Opened(bak[slot])
       ELSE pc' = "closed" /\ UNCHANGED <<canonical, grid>>
    /\ UNCHANGED <<tmp, atomic, bak, slot, dirty, left, closing, history>>

(***************************************************************************)
(* An open world.                                                          *)
(***************************************************************************)

(* Mutant: a removal does not mark the chunk.                              *)
ChangeChunkUnmarked(c) ==
    /\ pc \in {"open", "lost"} /\ grid[c] < MaxChanges
    /\ grid' = [grid EXCEPT ![c] = @ + 1]
    /\ dirty' \in {dirty, dirty \cup {c}}
    /\ UNCHANGED <<files, pc, slot, left, closing, history>>

(* A brick is placed or removed: _on_stud_placed, _on_stud_removed.  They
   are connected to the grid, whether or not a database is open.           *)
ChangeChunk(c) ==
    /\ pc \in {"open", "lost"} /\ grid[c] < MaxChanges
    /\ grid' = [grid EXCEPT ![c] = @ + 1]
    /\ dirty' = dirty \cup {c}
    /\ UNCHANGED <<files, pc, slot, left, closing, history>>

(* set_world_meta, save_chest, save_world_snapshot                         *)
ChangeMeta ==
    /\ pc = "open" /\ canonical[Meta] < MaxChanges
    /\ canonical' = [canonical EXCEPT ![Meta] = @ + 1]
    /\ UNCHANGED <<tmp, atomic, bak, pc, slot, memory, history>>

(***************************************************************************)
(* checkpoint, called by save_world and close_world.                       *)
(***************************************************************************)

BeginCheckpoint ==
    /\ pc = "open"
    /\ pc' = "saving"
    /\ left' = dirty
    /\ closing' \in BOOLEAN
    /\ UNCHANGED <<files, slot, grid, dirty, history>>

(* _save_chunk.  The result of its statement is not looked at: where the
   row is not written, the checkpoint goes on all the same.                *)
SaveChunk(c) ==
    /\ pc = "saving" /\ c \in left
    /\ \/ canonical' = [canonical EXCEPT ![c] = grid[c]] /\ UNCHANGED mishaps
       \/ Mishap("save") /\ UNCHANGED canonical
    /\ left' = left \ {c}
    /\ UNCHANGED <<tmp, atomic, bak, pc, slot, grid, dirty, closing, saved>>

(* Mutant: nothing is staged when no chunk has changed.                    *)
StageWhenDirty ==
    /\ pc = "saving" /\ left = {}
    /\ IF dirty # {} THEN pc' = "staging" /\ tmp' = Partial /\ UNCHANGED slot
       ELSE pc' = "rotating" /\ slot' = Keep /\ UNCHANGED tmp
    /\ UNCHANGED <<canonical, atomic, bak, memory, history>>

(* atomic_write_sqlite: the copy is opened for writing, written, renamed.
   checkpoint ignores its result.                                          *)
Stage ==
    /\ pc = "saving" /\ left = {}
    /\ \/ pc' = "staging" /\ tmp' = Partial /\ UNCHANGED <<slot, mishaps>>
       \/ Mishap("stage") /\ pc' = "rotating" /\ slot' = Keep /\ UNCHANGED tmp
    /\ UNCHANGED <<canonical, atomic, bak, memory, saved>>

(* Mutant: the copy is renamed before it is whole.                         *)
CopyToTmpUnflushed ==
    /\ pc = "staging"
    /\ pc' = "renaming"
    /\ UNCHANGED <<files, slot, memory, history>>

CopyToTmp ==
    /\ pc = "staging"
    /\ pc' = "renaming" /\ tmp' = canonical
    /\ UNCHANGED <<canonical, atomic, bak, slot, memory, history>>

RenameTmp ==
    /\ pc = "renaming"
    /\ pc' = "rotating" /\ slot' = Keep
    /\ \/ atomic' = tmp /\ tmp' = Absent /\ UNCHANGED mishaps
       \/ Mishap("stage") /\ UNCHANGED <<atomic, tmp>>
    /\ UNCHANGED <<canonical, bak, memory, saved>>

(* rotate_backups, one slot of its loop: the older backup is removed, then
   the newer takes its place.                                              *)
MakeRoom ==
    /\ pc = "rotating" /\ slot > 1
    /\ IF bak[slot - 1] = Absent
       THEN slot' = slot - 1 /\ UNCHANGED <<pc, bak>>
       ELSE pc' = "shifting" /\ bak' = [bak EXCEPT ![slot] = Absent] /\ UNCHANGED slot
    /\ UNCHANGED <<canonical, tmp, atomic, memory, history>>

ShiftBackup ==
    /\ pc = "shifting"
    /\ pc' = "rotating" /\ slot' = slot - 1
    /\ bak' = [bak EXCEPT ![slot] = bak[slot - 1], ![slot - 1] = Absent]
    /\ UNCHANGED <<canonical, tmp, atomic, memory, history>>

(* The database is copied to the first backup.                             *)
OpenFirstBackup ==
    /\ pc = "rotating" /\ slot = 1
    /\ pc' = "copying" /\ bak' = [bak EXCEPT ![1] = Partial]
    /\ UNCHANGED <<canonical, tmp, atomic, slot, memory, history>>

CopyToFirstBackup ==
    /\ pc = "copying"
    /\ pc' = "reopening" /\ bak' = [bak EXCEPT ![1] = canonical]
    /\ UNCHANGED <<canonical, tmp, atomic, slot, memory, history>>

Forgotten ==
    /\ pc' = "closed" /\ slot' = 0
    /\ grid' = [c \in Chunk |-> 0] /\ dirty' = {} /\ left' = {} /\ closing' = FALSE

(* The database is opened again and the checkpoint has succeeded;
   close_world closes it at once.                                          *)
EndCheckpoint ==
    /\ pc = "reopening"
    /\ saved' = canonical
    /\ IF closing
       THEN Forgotten
       ELSE /\ pc' = "open" /\ slot' = 0 /\ dirty' = {}
            /\ UNCHANGED <<grid, left, closing>>
    /\ UNCHANGED <<files, mishaps>>

(* open_db fails after the checkpoint: the database is given up, and saving
   is refused from now on, but the chunks in memory and their marks stay;
   close_world forgets them all the same.                                  *)
ReopenFails ==
    /\ pc = "reopening" /\ "reopen" \in Failing
    /\ IF closing THEN Forgotten
       ELSE pc' = "lost" /\ slot' = 0 /\ UNCHANGED memory
    /\ UNCHANGED <<files, history>>

(***************************************************************************)
(* What happens to the program and to its medium.                          *)
(***************************************************************************)

Crash ==
    /\ pc # "closed"
    /\ Forgotten
    /\ UNCHANGED <<files, history>>

Damage ==
    /\ pc = "closed" /\ canonical \in Content
    /\ Mishap("medium")
    /\ canonical' = Partial
    /\ UNCHANGED <<tmp, atomic, bak, pc, slot, memory, saved>>

Opening ==
    \/ OpenWorld \/ RemoveCanonical \/ PromoteAtomic \/ OpenCanonical
    \/ CanonicalRefused \/ TryBackup \/ RestoreBackup

Checkpoint ==
    \/ BeginCheckpoint \/ (\E c \in Chunk : SaveChunk(c)) \/ Stage \/ CopyToTmp \/ RenameTmp
    \/ MakeRoom \/ ShiftBackup \/ OpenFirstBackup \/ CopyToFirstBackup
    \/ EndCheckpoint \/ ReopenFails

Next ==
    \/ Opening \/ Checkpoint \/ Crash \/ Damage
    \/ ChangeMeta \/ \E c \in Chunk : ChangeChunk(c)

Spec == Init /\ [][Next]_vars

(***************************************************************************)
(* Properties.                                                             *)
(***************************************************************************)

(* What open_world would present, were the program to stop now.            *)
Recoverable ==
    IF atomic # Absent THEN atomic ELSE IF canonical = Absent THEN Empty ELSE canonical

(* As long as staging, promoting and the medium do not fail, what a
   checkpoint that succeeded has put into the database is never lost:
   wherever the program stops, also in the middle of a later checkpoint or
   of a promotion, the world that opens next is whole and holds all of it. *)
CheckpointSurvives ==
    mishaps \subseteq {"save"} =>
        Recoverable \in Content /\ AtLeast(Recoverable, saved)

(* Every difference between the world in memory and its database is in a
   chunk that the next checkpoint will write (_dirty_chunks), also while the
   database is given up after a checkpoint that could not reopen it.  The
   exception is the code's own: a row that a checkpoint failed to write.   *)
DirtyCoversChanges ==
    "save" \notin mishaps /\ pc \in {"open", "saving", "lost"} =>
        \A c \in Chunk : grid[c] # canonical[c] => c \in IF pc = "saving" THEN left ELSE dirty

(* The backups are in order of age, wherever a rotation was cut short and
   also after the database was lost: the first one that opens is the newest
   (rotate_backups, open_world).                                           *)
BackupsOrdered ==
    mishaps \subseteq {"medium", "save"} =>
        \A i, j \in 1..Keep :
            i < j /\ bak[i] \in Content /\ bak[j] \in Content => AtLeast(bak[i], bak[j])

(* The world that is open is never older than a whole backup of it, whatever
   crash or damage came before and whichever file it was opened from
   (open_world, load_canonical_or_bak): no start goes further back than the
   files require.                                                          *)
OpenedIsNewest ==
    pc = "open" /\ mishaps \subseteq {"medium", "save"} =>
        \A i \in 1..Keep : bak[i] \in Content => AtLeast(canonical, bak[i])
=============================================================================
