-------------------------- MODULE WorldSave_proofs --------------------------
(***************************************************************************)
(* Theorems about WorldSave, for every set of chunks, every number of      *)
(* changes and of backups.                                                 *)
(***************************************************************************)
EXTENDS WorldSave, TLAPS

(* A world is open: its database is there and in use.                      *)
Working ==
    {"open", "saving", "staging", "renaming", "rotating", "shifting", "copying", "reopening"}

(* Type correctness needs to know where the database is whole, which copy
   is renamed, and where the index of a backup is one.                     *)
TypeInv ==
    /\ TypeOK
    /\ pc \in Working => canonical \in Content
    /\ pc = "renaming" => tmp \in Content
    /\ pc = "falling" => slot >= 1
    /\ pc \in {"restoring", "rotating", "copying"} => slot \in 1..Keep
    /\ pc = "shifting" => slot \in 2..Keep

LEMMA EmptyIsContent == Empty \in Content
  BY DEF Empty, Content, Item

(* A program that has just started, or has closed its world, holds nothing. *)
LEMMA ForgottenType ==
    ASSUME Forgotten
    PROVE  /\ grid' \in [Chunk -> Nat]
           /\ dirty' \subseteq Chunk /\ left' \subseteq Chunk
           /\ closing' \in BOOLEAN
           /\ slot' \in 0..(Keep + 1)
           /\ pc' = "closed"
<1>1. grid' \in [Chunk -> Nat]
  BY DEF Forgotten
<1>2. dirty' \subseteq Chunk /\ left' \subseteq Chunk /\ pc' = "closed"
  BY DEF Forgotten
<1>3. closing' \in BOOLEAN
  BY Zenon DEF Forgotten
<1>4. slot' \in 0..(Keep + 1)
  BY KeepAssumption DEF Forgotten
<1> QED
  BY <1>1, <1>2, <1>3, <1>4

(* The initial state.                                                      *)
LEMMA TypeInit == Init => TypeInv
<1> SUFFICES ASSUME Init PROVE TypeInv
  OBVIOUS
<1>1. closing \in BOOLEAN
  BY Zenon DEF Init
<1>2. /\ grid \in [Chunk -> Nat]
      /\ bak \in [1..Keep -> File]
  BY DEF Init, File
<1>3. slot \in 0..(Keep + 1) /\ mishaps \subseteq Failing
  BY KeepAssumption DEF Init
<1> QED
  BY <1>1, <1>2, <1>3, EmptyIsContent DEF Init, TypeInv, TypeOK, File, Working

(* Every step keeps the type invariant.                                    *)
LEMMA TypeStep == TypeInv /\ [Next]_vars => TypeInv'
<1> SUFFICES ASSUME TypeInv, [Next]_vars PROVE TypeInv'
  OBVIOUS
<1> USE KeepAssumption
    DEF TypeInv, TypeOK, File, Working, Mishap, files, memory, history, vars
<1>1. CASE OpenWorld
  BY <1>1 DEF OpenWorld
<1>2. CASE RemoveCanonical
  BY <1>2 DEF RemoveCanonical
<1>3. CASE PromoteAtomic
  BY <1>3 DEF PromoteAtomic
<1>4. CASE OpenCanonical
  <2>1. /\ canonical' \in Content
        /\ grid' = [c \in Chunk |-> canonical'[c]]
    BY <1>4, EmptyIsContent DEF OpenCanonical, Opened
  <2>2. grid' \in [Chunk -> Nat]
    BY <2>1 DEF Content, Item
  <2> QED
    BY <1>4, <2>1, <2>2 DEF OpenCanonical, Opened
<1>5. CASE CanonicalRefused
  BY <1>5 DEF CanonicalRefused
<1>6. CASE TryBackup
  BY <1>6 DEF TryBackup
<1>7. CASE RestoreBackup
  <2>1. CASE bak[slot] \in Content
    <3>1. grid' \in [Chunk -> Nat]
      BY <1>7, <2>1 DEF RestoreBackup, Opened, Content, Item
    <3> QED
      BY <1>7, <2>1, <3>1 DEF RestoreBackup, Opened
  <2>2. CASE bak[slot] \notin Content
    BY <1>7, <2>2 DEF RestoreBackup
  <2> QED
    BY <2>1, <2>2
<1>8. CASE BeginCheckpoint
  BY <1>8 DEF BeginCheckpoint
<1>9. CASE \E c \in Chunk : SaveChunk(c)
  <2> PICK c \in Chunk : SaveChunk(c)
    BY <1>9
  <2>1. canonical' \in Content /\ mishaps' \subseteq Failing
    BY DEF SaveChunk, Content, Item
  <2> QED
    BY <2>1 DEF SaveChunk
<1>10. CASE Stage
  BY <1>10 DEF Stage
<1>11. CASE CopyToTmp
  BY <1>11 DEF CopyToTmp
<1>12. CASE RenameTmp
  BY <1>12 DEF RenameTmp
<1>13. CASE MakeRoom
  BY <1>13 DEF MakeRoom
<1>14. CASE ShiftBackup
  BY <1>14 DEF ShiftBackup
<1>15. CASE OpenFirstBackup
  BY <1>15 DEF OpenFirstBackup
<1>16. CASE CopyToFirstBackup
  BY <1>16 DEF CopyToFirstBackup
<1>17. CASE EndCheckpoint
  <2>1. CASE closing
    BY <1>17, <2>1, ForgottenType DEF EndCheckpoint
  <2>2. CASE ~closing
    BY <1>17, <2>2 DEF EndCheckpoint
  <2> QED
    BY <2>1, <2>2
<1>18. CASE ReopenFails
  <2>1. CASE closing
    BY <1>18, <2>1, ForgottenType DEF ReopenFails
  <2>2. CASE ~closing
    BY <1>18, <2>2 DEF ReopenFails
  <2> QED
    BY <2>1, <2>2
<1>19. CASE Crash
  BY <1>19, ForgottenType DEF Crash
<1>20. CASE Damage
  BY <1>20 DEF Damage
<1>21. CASE ChangeMeta
  <2>1. canonical' \in Content
    BY <1>21 DEF ChangeMeta, Content, Item
  <2> QED
    BY <1>21, <2>1 DEF ChangeMeta
<1>22. CASE \E c \in Chunk : ChangeChunk(c)
  BY <1>22 DEF ChangeChunk
<1>23. CASE UNCHANGED vars
  BY <1>23
<1> QED
  BY <1>1, <1>2, <1>3, <1>4, <1>5, <1>6, <1>7, <1>8, <1>9, <1>10, <1>11, <1>12,
     <1>13, <1>14, <1>15, <1>16, <1>17, <1>18, <1>19, <1>20, <1>21, <1>22, <1>23
  DEF Next, Opening, Checkpoint

LEMMA TypeInvariant == Spec => []TypeInv
  BY TypeInit, TypeStep, PTL DEF Spec

(* Every variable keeps its type, in particular .atomic is always a whole
   database: it only ever comes to be by renaming a finished copy.         *)
THEOREM TypeCorrect == Spec => []TypeOK
  BY TypeInvariant, PTL DEF TypeInv

(***************************************************************************)
(* A checkpoint that succeeded survives.  What is recoverable follows from *)
(* which of the files is newest at each point of the protocol: where a     *)
(* staged copy exists it holds the last checkpoint; where there is none    *)
(* the database does; and while a world is open the database holds it in   *)
(* any case, because chunks in memory are never older than their rows.     *)
(***************************************************************************)

Sound ==
    /\ canonical # Partial /\ pc \notin {"falling", "restoring"}
    /\ atomic # Absent => AtLeast(atomic, saved)
    /\ atomic = Absent /\ canonical = Absent => saved = Empty
    /\ canonical # Absent /\ (atomic = Absent \/ pc \in Working) => AtLeast(canonical, saved)
    /\ pc \in {"recovering", "promoting"} => atomic # Absent
    /\ pc = "opening" => atomic = Absent
    /\ pc \in Working => \A c \in Chunk : grid[c] >= canonical[c]
    /\ pc = "renaming" => tmp = canonical
    /\ pc \in {"rotating", "shifting", "copying", "reopening"} => atomic = canonical

LEMMA AtLeastItself == \A f \in Content : AtLeast(f, f)
  BY DEF AtLeast, Content, Item

LEMMA SoundInit == Init => Sound
  BY FileAssumption DEF Init, Sound, Working

(* A row that takes its chunk from memory does not get older.              *)
LEMMA SavedChunkNotOlder ==
    ASSUME NEW f \in Content, NEW g \in Content, NEW c \in Chunk, NEW n \in Nat,
           AtLeast(f, g), n >= f[c]
    PROVE  AtLeast([f EXCEPT ![c] = n], g)
  BY DEF AtLeast, Content, Item

(* No step makes up for a mishap.                                          *)
LEMMA MishapsStay == [Next]_vars => mishaps \subseteq mishaps'
  BY DEF Next, Opening, Checkpoint, OpenWorld, RemoveCanonical, PromoteAtomic,
         OpenCanonical, CanonicalRefused, TryBackup, RestoreBackup, BeginCheckpoint,
         SaveChunk, Stage, CopyToTmp, RenameTmp, MakeRoom, ShiftBackup, OpenFirstBackup,
         CopyToFirstBackup, EndCheckpoint, ReopenFails, Crash, Damage, ChangeMeta,
         ChangeChunk, Mishap, history, vars

LEMMA SoundStep ==
    ASSUME TypeInv, TypeInv', Sound, [Next]_vars, mishaps' \subseteq {"save"}
    PROVE  Sound'
<1> USE DEF Sound, Working, Mishap, files, memory, history, vars
<1>1. CASE OpenWorld
  BY <1>1 DEF OpenWorld
<1>2. CASE RemoveCanonical
  BY <1>2, FileAssumption DEF RemoveCanonical
<1>3. CASE PromoteAtomic
  BY <1>3, FileAssumption DEF PromoteAtomic, TypeInv, TypeOK
<1>4. CASE OpenCanonical
  <2>1. /\ canonical' \in Content
        /\ grid' = [c \in Chunk |-> canonical'[c]]
        /\ pc' = "open" /\ UNCHANGED <<atomic, saved>>
    BY <1>4, EmptyIsContent DEF OpenCanonical, Opened
  <2>2. AtLeast(canonical', saved)
    BY <1>4, AtLeastItself, EmptyIsContent, FileAssumption DEF OpenCanonical, Opened
  <2>3. \A c \in Chunk : grid'[c] >= canonical'[c]
    BY <2>1 DEF Content, Item
  <2> QED
    BY <1>4, <2>1, <2>2, <2>3, FileAssumption DEF OpenCanonical
<1>5. CASE CanonicalRefused
  BY <1>5 DEF CanonicalRefused
<1>6. CASE TryBackup
  BY <1>6 DEF TryBackup
<1>7. CASE RestoreBackup
  BY <1>7 DEF RestoreBackup
<1>8. CASE BeginCheckpoint
  BY <1>8 DEF BeginCheckpoint
<1>9. CASE \E c \in Chunk : SaveChunk(c)
  <2> PICK c \in Chunk : SaveChunk(c)
    BY <1>9
  <2>1. /\ canonical \in Content /\ canonical # Absent
        /\ canonical' = [canonical EXCEPT ![c] = grid[c]] \/ canonical' = canonical
        /\ grid[c] \in Nat /\ saved \in Content
        /\ UNCHANGED <<grid, saved, atomic, pc>>
        /\ pc = "saving"
    BY FileAssumption DEF SaveChunk, TypeInv, TypeOK
  <2>2. AtLeast(canonical', saved)
    <3>1. AtLeast(canonical, saved) /\ grid[c] >= canonical[c]
      BY <2>1
    <3> QED
      BY <2>1, <3>1, SavedChunkNotOlder
  <2>3. \A d \in Chunk : grid'[d] >= canonical'[d]
    BY <2>1 DEF Content, Item
  <2>4. canonical' \in Content
    BY <2>1 DEF TypeInv
  <2> QED
    BY <2>1, <2>2, <2>3, <2>4, FileAssumption
<1>10. CASE Stage
  BY <1>10 DEF Stage
<1>11. CASE CopyToTmp
  BY <1>11 DEF CopyToTmp
<1>12. CASE RenameTmp
  BY <1>12, FileAssumption DEF RenameTmp, TypeInv
<1>13. CASE MakeRoom
  BY <1>13 DEF MakeRoom
<1>14. CASE ShiftBackup
  BY <1>14 DEF ShiftBackup
<1>15. CASE OpenFirstBackup
  BY <1>15 DEF OpenFirstBackup
<1>16. CASE CopyToFirstBackup
  BY <1>16 DEF CopyToFirstBackup
<1>17. CASE EndCheckpoint
  <2>1. canonical \in Content /\ AtLeast(canonical, canonical)
    BY <1>17, AtLeastItself DEF EndCheckpoint, TypeInv
  <2>2. /\ UNCHANGED <<canonical, atomic, tmp>>
        /\ saved' = canonical /\ atomic = canonical
        /\ pc' = "closed" \/ (pc' = "open" /\ UNCHANGED grid)
    BY <1>17 DEF EndCheckpoint, Forgotten
  <2> QED
    BY <1>17, <2>1, <2>2, FileAssumption DEF EndCheckpoint
<1>18. CASE ReopenFails
  BY <1>18 DEF ReopenFails, Forgotten
<1>19. CASE Crash
  BY <1>19 DEF Crash, Forgotten
<1>20. CASE Damage
  BY <1>20 DEF Damage
<1>21. CASE ChangeMeta
  <2>1. /\ canonical \in Content /\ canonical' \in Content
        /\ canonical' = [canonical EXCEPT ![Meta] = @ + 1]
        /\ UNCHANGED <<grid, saved, atomic, pc>>
        /\ pc = "open" /\ saved \in Content
    BY <1>21 DEF ChangeMeta, TypeInv, TypeOK
  <2>2. AtLeast(canonical', saved)
    BY <2>1, FileAssumption DEF AtLeast, Content, Item
  <2>3. \A d \in Chunk : grid'[d] >= canonical'[d]
    BY <2>1, MetaAssumption DEF Content, Item
  <2> QED
    BY <2>1, <2>2, <2>3, FileAssumption
<1>22. CASE \E c \in Chunk : ChangeChunk(c)
  <2> PICK c \in Chunk : ChangeChunk(c)
    BY <1>22
  <2>1. /\ pc \in {"open", "lost"} /\ grid' = [grid EXCEPT ![c] = @ + 1]
        /\ UNCHANGED <<files, pc, saved>>
        /\ grid \in [Chunk -> Nat] /\ (pc = "open" => canonical \in Content)
    BY DEF ChangeChunk, TypeInv, TypeOK
  <2>2. pc = "open" => \A d \in Chunk : grid'[d] >= canonical'[d]
    BY <2>1 DEF Content, Item
  <2> QED
    BY <2>1, <2>2
<1>23. CASE UNCHANGED vars
  BY <1>23
<1> QED
  BY <1>1, <1>2, <1>3, <1>4, <1>5, <1>6, <1>7, <1>8, <1>9, <1>10, <1>11, <1>12,
     <1>13, <1>14, <1>15, <1>16, <1>17, <1>18, <1>19, <1>20, <1>21, <1>22, <1>23
  DEF Next, Opening, Checkpoint

LEMMA SoundRecovers == TypeInv /\ Sound => CheckpointSurvives
  BY AtLeastItself, EmptyIsContent
  DEF TypeInv, TypeOK, File, Sound, CheckpointSurvives, Recoverable

(* As long as staging, promoting and the medium have not failed, what a
   checkpoint that succeeded has put into the database is never lost,
   whatever number of chunks, changes, backups and crashes.                *)
THEOREM CheckpointSurvivesCorrect == Spec => []CheckpointSurvives
<1> DEFINE SoundSoFar == mishaps \subseteq {"save"} => Sound
<1>1. Init => SoundSoFar
  BY SoundInit
<1>2. TypeInv /\ TypeInv' /\ SoundSoFar /\ [Next]_vars => SoundSoFar'
  <2> SUFFICES ASSUME TypeInv, TypeInv', SoundSoFar, [Next]_vars,
                      mishaps' \subseteq {"save"}
               PROVE  Sound'
    OBVIOUS
  <2>1. Sound
    BY MishapsStay
  <2> QED
    BY <2>1, SoundStep
<1>3. TypeInv /\ SoundSoFar => CheckpointSurvives
  BY SoundRecovers DEF CheckpointSurvives
<1> QED
  BY <1>1, <1>2, <1>3, TypeInvariant, PTL DEF Spec

(***************************************************************************)
(* The dirty chunks.                                                       *)
(***************************************************************************)

(* What a checkpoint leaves clean must by then agree with the database.    *)
DirtyInv ==
    /\ DirtyCoversChanges
    /\ "save" \notin mishaps /\ pc \in {"staging", "renaming", "rotating", "shifting", "copying", "reopening"} =>
          \A c \in Chunk : grid[c] = canonical[c]

LEMMA DirtyStep ==
    ASSUME TypeInv, TypeInv', DirtyInv, [Next]_vars
    PROVE  DirtyInv'
<1> USE DEF DirtyInv, DirtyCoversChanges, files, memory, history, vars
<1>1. CASE Opening
  <2>1. CASE OpenCanonical \/ RestoreBackup
    <3>1. CASE pc' = "open"
      <4>1. grid' = [c \in Chunk |-> canonical'[c]]
        BY <2>1, <3>1 DEF OpenCanonical, RestoreBackup, Opened
      <4> QED
        BY <3>1, <4>1
    <3>2. CASE pc' # "open"
      BY <2>1, <3>2 DEF OpenCanonical, RestoreBackup, Opened
    <3> QED
      BY <3>1, <3>2
  <2>2. CASE ~(OpenCanonical \/ RestoreBackup)
    BY <1>1, <2>2
    DEF Opening, OpenWorld, RemoveCanonical, PromoteAtomic, CanonicalRefused, TryBackup
  <2> QED
    BY <2>1, <2>2
<1>2. CASE Checkpoint
  <2>1. CASE \E c \in Chunk : SaveChunk(c)
    <3> PICK c \in Chunk : SaveChunk(c)
      BY <2>1
    <3> SUFFICES ASSUME "save" \notin mishaps' PROVE DirtyInv'
      OBVIOUS
    <3>1. /\ pc = "saving" /\ canonical \in Content /\ "save" \notin mishaps
          /\ canonical' = [canonical EXCEPT ![c] = grid[c]]
          /\ left' = left \ {c} /\ UNCHANGED <<pc, grid>>
      BY MishapsStay DEF SaveChunk, Mishap, TypeInv, Working
    <3> QED
      BY <3>1 DEF Content, Item
  <2>2. CASE BeginCheckpoint
    BY <2>2 DEF BeginCheckpoint
  <2>3. CASE EndCheckpoint
    BY <2>3 DEF EndCheckpoint, Forgotten
  <2>4. CASE ReopenFails
    BY <2>4 DEF ReopenFails, Forgotten
  <2>5. CASE ~((\E c \in Chunk : SaveChunk(c)) \/ BeginCheckpoint \/ EndCheckpoint \/ ReopenFails)
    BY <1>2, <2>5, MishapsStay
    DEF Checkpoint, Stage, CopyToTmp, RenameTmp, MakeRoom, ShiftBackup,
        OpenFirstBackup, CopyToFirstBackup
  <2> QED
    BY <2>1, <2>2, <2>3, <2>4, <2>5
<1>3. CASE Crash \/ Damage
  BY <1>3 DEF Crash, Damage, Forgotten
<1>4. CASE ChangeMeta
  BY <1>4, MetaAssumption DEF ChangeMeta, TypeInv, Working, Content, Item
<1>5. CASE \E c \in Chunk : ChangeChunk(c)
  BY <1>5 DEF ChangeChunk, TypeInv, TypeOK
<1>6. CASE UNCHANGED vars
  BY <1>6
<1> QED
  BY <1>1, <1>2, <1>3, <1>4, <1>5, <1>6 DEF Next

(* Unless the statement that writes a row fails, and whenever the program
   stops, a difference between the world in memory and its database is
   always in a chunk that the next checkpoint writes: clearing
   _dirty_chunks at its end forgets nothing.                               *)
THEOREM DirtyCoversChangesCorrect == Spec => []DirtyCoversChanges
<1>1. Init => DirtyInv
  BY DEF Init, DirtyInv, DirtyCoversChanges
<1>2. TypeInv /\ TypeInv' /\ DirtyInv /\ [Next]_vars => DirtyInv'
  BY DirtyStep
<1>3. DirtyInv => DirtyCoversChanges
  BY DEF DirtyInv
<1> QED
  BY <1>1, <1>2, <1>3, TypeInvariant, PTL DEF Spec

(***************************************************************************)
(* The backups.  Every backup is a copy of the database as it once was, so  *)
(* what the next copy will be made of must never be older than any of them: *)
(* the staged copy while there is one, the database otherwise and whenever  *)
(* a world is open.  While backups are tried, those passed over are no      *)
(* whole database, so that what is restored is newest among the rest.       *)
(***************************************************************************)

Newest(f) == \A i \in 1..Keep : bak[i] \in Content => AtLeast(f, bak[i])

Aged ==
    /\ \A i, j \in 1..Keep :
          i < j /\ bak[i] \in Content /\ bak[j] \in Content => AtLeast(bak[i], bak[j])
    /\ atomic # Absent => Newest(atomic)
    /\ canonical \in Content /\ (atomic = Absent \/ pc \in Working) => Newest(canonical)
    /\ canonical = Absent /\ atomic = Absent => \A i \in 1..Keep : bak[i] \notin Content
    /\ pc \in {"recovering", "promoting"} => atomic # Absent
    /\ pc \in {"opening", "falling", "restoring"} => atomic = Absent
    /\ pc \in {"falling", "restoring"} =>
          canonical = Partial /\ \A i \in 1..Keep : i < slot => bak[i] \notin Content
    /\ pc \in Working => \A c \in Chunk : grid[c] >= canonical[c]
    /\ pc = "renaming" => tmp = canonical
    /\ pc \in {"rotating", "shifting", "copying", "reopening"} => atomic = canonical

LEMMA AgedInit == Init => Aged
  BY FileAssumption DEF Init, Aged, Newest, Working

(* Opening the world: the staged copy, the database, or a backup takes over. *)
LEMMA AgedOpening ==
    ASSUME TypeInv, TypeInv', Aged, Opening, mishaps' \subseteq {"medium", "save"}
    PROVE  Aged'
<1> USE FileAssumption DEF Aged, Working, files, memory, history
<1>1. CASE OpenWorld
  BY <1>1 DEF OpenWorld, Newest
<1>2. CASE RemoveCanonical
  BY <1>2 DEF RemoveCanonical, Newest
<1>3. CASE PromoteAtomic
  <2>1. canonical' = atomic /\ atomic' = Absent /\ atomic \in Content
        /\ UNCHANGED <<bak, grid>> /\ pc' = "opening"
    BY <1>3 DEF PromoteAtomic, Mishap, TypeInv, TypeOK
  <2> QED
    BY <1>3, <2>1 DEF PromoteAtomic, Newest
<1>4. CASE OpenCanonical
  <2>1. /\ canonical' \in Content /\ grid' = [c \in Chunk |-> canonical'[c]]
        /\ pc' = "open" /\ UNCHANGED <<atomic, bak>>
    BY <1>4, EmptyIsContent DEF OpenCanonical, Opened
  <2>2. Newest(canonical)' /\ atomic = Absent
    BY <1>4 DEF OpenCanonical, Opened, Newest
  <2>3. \A c \in Chunk : grid'[c] >= canonical'[c]
    BY <2>1 DEF Content, Item
  <2> QED
    BY <2>1, <2>2, <2>3
<1>5. CASE CanonicalRefused
  BY <1>5 DEF CanonicalRefused, Newest
<1>6. CASE TryBackup
  <2>1. CASE slot > Keep
    BY <1>6, <2>1 DEF TryBackup, Newest
  <2>2. CASE slot \in 1..Keep
    <3>1. CASE bak[slot] \notin Content /\ slot' = slot + 1 /\ UNCHANGED <<pc, canonical>>
      BY <1>6, <2>2, <3>1 DEF TryBackup, Newest
    <3>2. CASE pc' = "restoring" /\ canonical' = Partial /\ UNCHANGED slot
      BY <1>6, <2>2, <3>2 DEF TryBackup, Newest
    <3> QED
      BY <1>6, <2>2, <3>1, <3>2 DEF TryBackup
  <2> QED
    BY <1>6, <2>1, <2>2, KeepAssumption DEF TryBackup, TypeInv, TypeOK
<1>7. CASE RestoreBackup
  <2>1. CASE bak[slot] \in Content
    <3>1. /\ canonical' = bak[slot] /\ canonical' \in Content
          /\ grid' = [c \in Chunk |-> canonical'[c]]
          /\ pc' = "open" /\ atomic = Absent /\ UNCHANGED <<atomic, bak>>
          /\ slot \in 1..Keep
      BY <1>7, <2>1 DEF RestoreBackup, Opened, TypeInv
    <3>2. \A j \in 1..Keep : bak[j] \in Content => AtLeast(bak[slot], bak[j])
      <4> SUFFICES ASSUME NEW j \in 1..Keep, bak[j] \in Content
                   PROVE  AtLeast(bak[slot], bak[j])
        OBVIOUS
      <4>1. CASE j < slot
        BY <1>7, <4>1 DEF RestoreBackup
      <4>2. CASE j = slot
        BY <2>1, <4>2, AtLeastItself
      <4>3. CASE j > slot
        BY <2>1, <3>1, <4>3
      <4> QED
        BY <3>1, <4>1, <4>2, <4>3
    <3>3. \A c \in Chunk : grid'[c] >= canonical'[c]
      BY <3>1 DEF Content, Item
    <3> QED
      BY <3>1, <3>2, <3>3 DEF Newest
  <2>2. CASE bak[slot] \notin Content
    BY <1>7, <2>2 DEF RestoreBackup, Newest
  <2> QED
    BY <2>1, <2>2
<1> QED
  BY <1>1, <1>2, <1>3, <1>4, <1>5, <1>6, <1>7 DEF Opening

(* A checkpoint: the database grows, is staged, and the backups move on.     *)
LEMMA AgedCheckpoint ==
    ASSUME TypeInv, TypeInv', Aged, Checkpoint, mishaps' \subseteq {"medium", "save"}
    PROVE  Aged'
<1> USE FileAssumption DEF Aged, Working, files, memory, history
<1>1. CASE BeginCheckpoint
  BY <1>1 DEF BeginCheckpoint, Newest
<1>2. CASE \E c \in Chunk : SaveChunk(c)
  <2> PICK c \in Chunk : SaveChunk(c)
    BY <1>2
  <2>1. /\ canonical \in Content /\ canonical' \in Content
        /\ canonical' = [canonical EXCEPT ![c] = grid[c]] \/ canonical' = canonical
        /\ grid[c] \in Nat /\ grid[c] >= canonical[c]
        /\ UNCHANGED <<grid, bak, atomic, pc>> /\ pc = "saving"
    BY DEF SaveChunk, TypeInv, TypeOK
  <2>2. Newest(canonical)'
    BY <2>1, SavedChunkNotOlder DEF Newest
  <2>3. \A d \in Chunk : grid'[d] >= canonical'[d]
    BY <2>1 DEF Content, Item
  <2>4. atomic' # Absent => Newest(atomic)'
    BY <2>1 DEF Newest
  <2> QED
    BY <2>1, <2>2, <2>3, <2>4
<1>3. CASE Stage
  BY <1>3 DEF Stage, Mishap, Newest
<1>4. CASE CopyToTmp
  BY <1>4 DEF CopyToTmp, Newest
<1>5. CASE RenameTmp
  <2>1. atomic' = canonical /\ canonical \in Content /\ UNCHANGED <<canonical, bak, grid>>
        /\ pc = "renaming" /\ pc' = "rotating"
    BY <1>5 DEF RenameTmp, Mishap, TypeInv
  <2> QED
    BY <2>1 DEF Newest
<1>6. CASE MakeRoom
  BY <1>6 DEF MakeRoom, Newest, TypeInv, TypeOK
<1>7. CASE ShiftBackup
  <2>1. /\ bak' = [bak EXCEPT ![slot] = bak[slot - 1], ![slot - 1] = Absent]
        /\ slot \in 2..Keep /\ bak \in [1..Keep -> File]
        /\ pc = "shifting" /\ pc' = "rotating" /\ UNCHANGED <<canonical, atomic, tmp, grid>>
    BY <1>7 DEF ShiftBackup, TypeInv, TypeOK
  <2>2. \A i \in 1..Keep :
           bak'[i] = IF i = slot THEN bak[slot - 1] ELSE IF i = slot - 1 THEN Absent ELSE bak[i]
    BY <2>1
  <2>3. \A i, j \in 1..Keep :
           i < j /\ bak'[i] \in Content /\ bak'[j] \in Content => AtLeast(bak'[i], bak'[j])
    <3> SUFFICES ASSUME NEW i \in 1..Keep, NEW j \in 1..Keep, i < j,
                        bak'[i] \in Content, bak'[j] \in Content
                 PROVE  AtLeast(bak'[i], bak'[j])
      OBVIOUS
    <3>0. slot - 1 \in 1..Keep
      BY <2>1, KeepAssumption
    <3>1. CASE i = slot
      <4>1. j # slot /\ j # slot - 1 /\ slot - 1 < j
        BY <2>1, <3>1
      <4>2. bak'[j] = bak[j] /\ bak'[i] = bak[slot - 1]
        BY <2>2, <3>1, <4>1
      <4> QED
        BY <3>0, <4>1, <4>2
    <3>2. CASE j = slot
      BY <2>1, <2>2, <3>0, <3>2
    <3>3. CASE i # slot /\ j # slot
      BY <2>1, <2>2, <3>3
    <3> QED
      BY <3>1, <3>2, <3>3
  <2>4. slot - 1 \in 1..Keep /\ Newest(atomic)' /\ Newest(canonical)'
    <3>1. slot - 1 \in 1..Keep
      BY <2>1, KeepAssumption
    <3>2. Newest(canonical) /\ canonical' = canonical /\ atomic' = canonical
      BY <2>1 DEF TypeInv
    <3>3. \A i \in 1..Keep : bak'[i] \in Content => AtLeast(canonical, bak'[i])
      BY <2>2, <3>1, <3>2, FileAssumption DEF Newest
    <3> QED
      BY <3>1, <3>2, <3>3 DEF Newest
  <2>5. canonical' \in Content /\ \A c \in Chunk : grid'[c] >= canonical'[c]
    BY <2>1 DEF TypeInv
  <2>6. atomic' = canonical'
    BY <2>1
  <2> QED
    BY <2>1, <2>3, <2>4, <2>5, <2>6
<1>8. CASE OpenFirstBackup
  BY <1>8, KeepAssumption DEF OpenFirstBackup, Newest, TypeInv, TypeOK
<1>9. CASE CopyToFirstBackup
  <2>1. /\ bak' = [bak EXCEPT ![1] = canonical] /\ bak \in [1..Keep -> File]
        /\ canonical \in Content /\ Newest(canonical) /\ atomic = canonical
        /\ AtLeast(canonical, canonical)
        /\ pc = "copying" /\ pc' = "reopening" /\ UNCHANGED <<canonical, atomic, tmp, grid>>
    BY <1>9, AtLeastItself DEF CopyToFirstBackup, TypeInv, TypeOK
  <2>2. \A i \in 1..Keep : bak'[i] = IF i = 1 THEN canonical ELSE bak[i]
    BY <2>1
  <2>3. Newest(canonical)'
    BY <2>1, <2>2 DEF Newest
  <2>4. \A i, j \in 1..Keep :
           i < j /\ bak'[i] \in Content /\ bak'[j] \in Content => AtLeast(bak'[i], bak'[j])
    BY <2>1, <2>2 DEF Newest
  <2> QED
    BY <2>1, <2>3, <2>4 DEF Newest
<1>10. CASE EndCheckpoint
  <2>1. canonical \in Content /\ UNCHANGED <<canonical, atomic, bak, tmp>>
        /\ (pc' = "closed" \/ (pc' = "open" /\ UNCHANGED grid)) /\ pc = "reopening"
    BY <1>10 DEF EndCheckpoint, Forgotten, TypeInv
  <2> QED
    BY <2>1 DEF Newest
<1>11. CASE ReopenFails
  <2>1. UNCHANGED <<canonical, atomic, bak>> /\ pc' \in {"closed", "lost"} /\ pc = "reopening"
    BY <1>11 DEF ReopenFails, Forgotten
  <2> QED
    BY <2>1 DEF Newest
<1> QED
  BY <1>1, <1>2, <1>3, <1>4, <1>5, <1>6, <1>7, <1>8, <1>9, <1>10, <1>11 DEF Checkpoint

LEMMA AgedStep ==
    ASSUME TypeInv, TypeInv', Aged, [Next]_vars, mishaps' \subseteq {"medium", "save"}
    PROVE  Aged'
<1> USE FileAssumption DEF Aged, Working, files, memory, history
<1>1. CASE Opening
  BY <1>1, AgedOpening
<1>2. CASE Checkpoint
  BY <1>2, AgedCheckpoint
<1>3. CASE Crash
  <2>1. UNCHANGED <<canonical, atomic, bak>> /\ pc' = "closed"
    BY <1>3 DEF Crash, Forgotten
  <2> QED
    BY <2>1 DEF Newest
<1>4. CASE Damage
  <2>1. canonical' = Partial /\ UNCHANGED <<atomic, bak, pc>> /\ pc = "closed"
    BY <1>4 DEF Damage
  <2> QED
    BY <2>1 DEF Newest
<1>5. CASE ChangeMeta
  <2>1. /\ canonical \in Content /\ canonical' \in Content
        /\ canonical' = [canonical EXCEPT ![Meta] = @ + 1]
        /\ UNCHANGED <<grid, bak, atomic, pc>> /\ pc = "open"
    BY <1>5 DEF ChangeMeta, TypeInv, TypeOK
  <2>2. \A g \in Content : AtLeast(canonical, g) => AtLeast(canonical', g)
    BY <2>1 DEF AtLeast, Content, Item
  <2>3. Newest(canonical)' /\ (atomic' # Absent => Newest(atomic)')
    BY <2>1, <2>2 DEF Newest
  <2>4. \A d \in Chunk : grid'[d] >= canonical'[d]
    BY <2>1, MetaAssumption DEF Content, Item
  <2> QED
    BY <2>1, <2>3, <2>4
<1>6. CASE \E c \in Chunk : ChangeChunk(c)
  <2> PICK c \in Chunk : ChangeChunk(c)
    BY <1>6
  <2>1. /\ pc \in {"open", "lost"} /\ grid' = [grid EXCEPT ![c] = @ + 1]
        /\ UNCHANGED <<files, pc>>
        /\ grid \in [Chunk -> Nat] /\ (pc = "open" => canonical \in Content)
    BY DEF ChangeChunk, TypeInv, TypeOK
  <2>2. pc = "open" => \A d \in Chunk : grid'[d] >= canonical'[d]
    BY <2>1 DEF Content, Item
  <2> QED
    BY <2>1, <2>2 DEF Newest
<1>7. CASE UNCHANGED vars
  BY <1>7 DEF vars, Newest
<1> QED
  BY <1>1, <1>2, <1>3, <1>4, <1>5, <1>6, <1>7 DEF Next

(* The files keep their order for as long as nothing but the medium fails. *)
LEMMA AgedAlways == Spec => [](mishaps \subseteq {"medium", "save"} => Aged)
<1>1. Init => (mishaps \subseteq {"medium", "save"} => Aged)
  BY AgedInit
<1>2. TypeInv /\ TypeInv' /\ (mishaps \subseteq {"medium", "save"} => Aged) /\ [Next]_vars
        => (mishaps \subseteq {"medium", "save"} => Aged)'
  BY MishapsStay, AgedStep
<1> QED
  BY <1>1, <1>2, TypeInvariant, PTL DEF Spec

(* The first backup that opens is the newest, wherever a rotation was cut
   short, for any number of backups, as long as nothing but the medium has
   failed.                                                                   *)
THEOREM BackupsOrderedCorrect == Spec => []BackupsOrdered
<1>1. (mishaps \subseteq {"medium", "save"} => Aged) => BackupsOrdered
  BY DEF Aged, BackupsOrdered
<1> QED
  BY <1>1, AgedAlways, PTL

(* No start opens a state older than a whole backup, after any sequence of
   crashes and damaged databases.                                            *)
THEOREM OpenedIsNewestCorrect == Spec => []OpenedIsNewest
<1>1. TypeInv /\ (mishaps \subseteq {"medium", "save"} => Aged) => OpenedIsNewest
  BY DEF Aged, OpenedIsNewest, Newest, Working, TypeInv
<1> QED
  BY <1>1, AgedAlways, TypeInvariant, PTL
=============================================================================
