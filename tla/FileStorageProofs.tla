------------------------- MODULE FileStorageProofs -------------------------
(***************************************************************************)
(* What the page files, the backup and the restore of FileStorage promise, *)
(* for any pages, contents, compression settings and number of calls and   *)
(* faults.                                                                 *)
(*                                                                         *)
(* The three invariants are not inductive alone.  A kept page is read back *)
(* because its file is whole AND no store is under way on it; a backup     *)
(* holds it because, while the walk goes on, what is promised and visited  *)
(* is in the archive as it was promised; a restore ends with the archive   *)
(* because the directory it fills was empty and nothing else runs.         *)
(***************************************************************************)
EXTENDS FileStorage, TLAPS

(* A function is known by its domain and its values. *)
IsFcn(f) == f = [k \in DOMAIN f |-> f[k]]

(* A whole page file that decompresses to a content. *)
Holds(file, content) ==
    /\ file.kind = "page"
    /\ file.algorithm = file.coded
    /\ file.content = content

(* Pages that are whole in a set of files. *)
AllHeld(pages, in) ==
    \A k \in DOMAIN pages :
        /\ pages[k] \in Contents
        /\ k \in DOMAIN in
        /\ Holds(in[k], pages[k])

NotWritten(pages) == writer # None => writer.key \notin DOMAIN pages

IsArchive(a) ==
    /\ a = [whole |-> a.whole, entries |-> a.entries, promised |-> a.promised]
    /\ IsFcn(a.entries)

IsBackup(b) ==
    b = [stage |-> b.stage, listed |-> b.listed, there |-> b.there,
         promised |-> b.promised]

(* The files are in the directory; a store carries a page's content. *)
DiskOK ==
    /\ IsFcn(files)
    /\ ~directory => DOMAIN files = {}
    /\ writer # None => writer.content \in Contents

(* A page that is kept is whole on disk, and no store is under way on it. *)
KeptOK == AllHeld(kept, files) /\ NotWritten(kept)

(* What a backup promises is still on disk, and there for the walk. *)
PromiseOK ==
    backup # None =>
        /\ IsBackup(backup)
        /\ AllHeld(backup.promised, files) /\ NotWritten(backup.promised)
        /\ DOMAIN backup.promised \subseteq backup.there

(* What the walk has visited and the backup promises is in the archive. *)
WalkOK ==
    Walking =>
        /\ IsArchive(tmp)
        /\ \A k \in DOMAIN backup.promised \cap Visited :
              Holds(tmp.entries[k], backup.promised[k])

(* An archive that is ready to be renamed, or at the backup path. *)
ArchiveOK(a) ==
    /\ IsArchive(a)
    /\ ~a.whole => a.entries = Nothing
    /\ AllHeld(a.promised, a.entries)

SwapOK == backup # None /\ backup.stage = "swap" => ArchiveOK(tmp)

SavedOK ==
    /\ saved # None => ArchiveOK(saved)
    /\ backup # None /\ backup.stage = "empty" => ArchiveOK(saved)

(* A restore runs alone, and fills a directory that was empty. *)
RestoreOK ==
    restore # None =>
        /\ writer = None /\ backup = None /\ saved # None /\ restored = None
        /\ restore.stage = "create" => DOMAIN files = {}
        /\ restore.stage = "extract" =>
              /\ restore = [stage |-> "extract", done |-> restore.done]
              /\ directory
              /\ DOMAIN files = restore.done
              /\ \A k \in restore.done :
                    k \in DOMAIN saved.entries /\ files[k] = saved.entries[k]

RestoredOK == restored # None => directory /\ files = restored /\ writer = None

(***************************************************************************)
(* The inductive invariant.                                                *)
(***************************************************************************)
FInv ==
    /\ DiskOK /\ KeptOK
    /\ PromiseOK /\ WalkOK /\ SwapOK
    /\ SavedOK /\ RestoreOK /\ RestoredOK

----------------------------------------------------------------------------
(* Helpers: what Put, Remove and Disturb do, file by file. *)

LEMMA PutEffect ==
    ASSUME NEW key, NEW file, Put(key, file)
    PROVE  /\ IsFcn(files')
           /\ DOMAIN files' = DOMAIN files \cup {key}
           /\ files'[key] = file
           /\ \A k \in DOMAIN files \ {key} : files'[k] = files[k]
BY DEF Put, IsFcn

LEMMA RemoveEffect ==
    ASSUME NEW key, Remove(key)
    PROVE  /\ IsFcn(files')
           /\ DOMAIN files' = DOMAIN files \ {key}
           /\ \A k \in DOMAIN files \ {key} : files'[k] = files[k]
BY DEF Remove, IsFcn, Restrict

(* What is promised of the other pages stays promised. *)
LEMMA DisturbEffect ==
    ASSUME NEW key, Disturb(key), PromiseOK
    PROVE  /\ DOMAIN kept' = DOMAIN kept \ {key}
           /\ \A k \in DOMAIN kept' : kept'[k] = kept[k]
           /\ restored' = None
           /\ backup = None => backup' = None
           /\ backup # None =>
                 /\ backup'.stage = backup.stage
                 /\ IsBackup(backup')
                 /\ DOMAIN backup'.promised = DOMAIN backup.promised \ {key}
                 /\ \A k \in DOMAIN backup'.promised :
                       backup'.promised[k] = backup.promised[k]
                 /\ backup'.there = backup.there \cap DOMAIN files'
<1>1. /\ DOMAIN kept' = DOMAIN kept \ {key}
      /\ \A k \in DOMAIN kept' : kept'[k] = kept[k]
      /\ restored' = None
      /\ backup = None => backup' = None
  BY DEF Disturb, Restrict
<1>2. ASSUME backup # None
      PROVE  /\ backup'.stage = backup.stage
             /\ IsBackup(backup')
             /\ DOMAIN backup'.promised = DOMAIN backup.promised \ {key}
             /\ \A k \in DOMAIN backup'.promised :
                   backup'.promised[k] = backup.promised[k]
             /\ backup'.there = backup.there \cap DOMAIN files'
  <2>1. IsBackup(backup)
    BY <1>2 DEF PromiseOK
  <2>2. backup' = [backup EXCEPT
                     !.promised = Restrict(@, DOMAIN @ \ {key}),
                     !.there = @ \cap DOMAIN files']
    BY <1>2 DEF Disturb
  <2>3. /\ backup'.stage = backup.stage
        /\ backup'.promised = Restrict(backup.promised, DOMAIN backup.promised \ {key})
        /\ backup'.there = backup.there \cap DOMAIN files'
        /\ IsBackup(backup')
    BY <2>1, <2>2 DEF IsBackup
  <2> QED
    BY <2>3 DEF Restrict
<1> QED
  BY <1>1, <1>2

----------------------------------------------------------------------------
(* The invariant holds initially, and every step preserves it. *)

LEMMA InitFInv == FInit => FInv
BY DEF FInit, FInv, DiskOK, KeptOK, PromiseOK, WalkOK, SwapOK, SavedOK, RestoreOK,
       RestoredOK, AllHeld, NotWritten, IsFcn, Nothing, Walking

(* A walk goes on over the same archive with fewer promises. *)
LEMMA WalkOver ==
    ASSUME FInv, NEW key, Disturb(key), tmp' = tmp
    PROVE  WalkOK' /\ SwapOK'
<1>1. PromiseOK
  BY DEF FInv
<1>2. WalkOK'
  BY <1>1, DisturbEffect DEF FInv, WalkOK, Walking, Visited, IsArchive, IsFcn, Holds
<1>3. SwapOK'
  BY <1>1, DisturbEffect DEF FInv, SwapOK, ArchiveOK, IsArchive, IsFcn, AllHeld, Holds
<1> QED
  BY <1>2, <1>3

LEMMA StepBeginStore ==
    ASSUME FInv, NEW key \in Keys, NEW content \in Contents, BeginStore(key, content)
    PROVE  FInv'
<1>1. /\ directory' = TRUE /\ writer' = [key |-> key, content |-> content]
      /\ tmp' = tmp /\ saved' = saved /\ restore = None /\ restore' = None
      /\ Put(key, ShortFile) /\ Disturb(key)
  BY DEF BeginStore
<1>2. PromiseOK /\ KeptOK /\ DiskOK
  BY DEF FInv
<1>3. DiskOK'
  BY <1>1, PutEffect DEF DiskOK
<1>4. /\ DOMAIN kept' = DOMAIN kept \ {key}
      /\ \A k \in DOMAIN kept' : kept'[k] = kept[k]
      /\ backup = None => backup' = None
      /\ backup # None =>
            /\ IsBackup(backup')
            /\ DOMAIN backup'.promised = DOMAIN backup.promised \ {key}
            /\ \A k \in DOMAIN backup'.promised :
                  backup'.promised[k] = backup.promised[k]
            /\ backup'.there = backup.there \cap DOMAIN files'
  BY <1>1, <1>2, DisturbEffect
<1>5. /\ DOMAIN files \ {key} \subseteq DOMAIN files'
      /\ \A k \in DOMAIN files \ {key} : files'[k] = files[k]
  BY <1>1, PutEffect
<1>6. KeptOK'
  BY <1>1, <1>2, <1>4, <1>5 DEF KeptOK, AllHeld, NotWritten, Holds
<1>7. PromiseOK'
  <2> SUFFICES ASSUME backup' # None
               PROVE  /\ AllHeld(backup'.promised, files')
                      /\ (writer' # None => writer'.key \notin DOMAIN backup'.promised)
                      /\ DOMAIN backup'.promised \subseteq backup'.there
    BY <1>4 DEF PromiseOK, AllHeld, NotWritten
  <2>1. /\ AllHeld(backup.promised, files) /\ NotWritten(backup.promised)
        /\ DOMAIN backup.promised \subseteq backup.there
    BY <1>2, <1>4 DEF PromiseOK
  <2>2. AllHeld(backup'.promised, files')
    BY <1>4, <1>5, <2>1 DEF AllHeld, Holds
  <2>3. (writer' # None => writer'.key \notin DOMAIN backup'.promised)
    BY <1>1, <1>4, <2>1 DEF NotWritten
  <2> QED
    BY <1>4, <2>1, <2>2, <2>3 DEF AllHeld
<1>8. WalkOK' /\ SwapOK'
  BY <1>1, WalkOver
<1>9. SavedOK' /\ RestoreOK' /\ RestoredOK'
  BY <1>1, <1>2, DisturbEffect
     DEF FInv, SavedOK, RestoreOK, RestoredOK, ArchiveOK, IsArchive, IsFcn, AllHeld, Holds
<1> QED
  BY <1>3, <1>6, <1>7, <1>8, <1>9 DEF FInv

LEMMA StepDeletePage ==
    ASSUME FInv, NEW key \in Keys, DeletePage(key)
    PROVE  FInv'
<1>1. /\ directory' = directory /\ writer' = writer
      /\ tmp' = tmp /\ saved' = saved /\ restore = None /\ restore' = None
      /\ Remove(key) /\ Disturb(key)
  BY DEF DeletePage
<1>2. PromiseOK /\ KeptOK /\ DiskOK
  BY DEF FInv
<1>3. DiskOK'
  BY <1>1, <1>2, RemoveEffect DEF DiskOK
<1>4. /\ DOMAIN kept' = DOMAIN kept \ {key}
      /\ \A k \in DOMAIN kept' : kept'[k] = kept[k]
      /\ backup = None => backup' = None
      /\ backup # None =>
            /\ IsBackup(backup')
            /\ DOMAIN backup'.promised = DOMAIN backup.promised \ {key}
            /\ \A k \in DOMAIN backup'.promised :
                  backup'.promised[k] = backup.promised[k]
            /\ backup'.there = backup.there \cap DOMAIN files'
  BY <1>1, <1>2, DisturbEffect
<1>5. /\ DOMAIN files \ {key} \subseteq DOMAIN files'
      /\ \A k \in DOMAIN files \ {key} : files'[k] = files[k]
  BY <1>1, RemoveEffect
<1>6. KeptOK'
  BY <1>1, <1>2, <1>4, <1>5 DEF KeptOK, AllHeld, NotWritten, Holds
<1>7. PromiseOK'
  <2> SUFFICES ASSUME backup' # None
               PROVE  /\ AllHeld(backup'.promised, files')
                      /\ (writer' # None => writer'.key \notin DOMAIN backup'.promised)
                      /\ DOMAIN backup'.promised \subseteq backup'.there
    BY <1>4 DEF PromiseOK, AllHeld, NotWritten
  <2>1. /\ AllHeld(backup.promised, files) /\ NotWritten(backup.promised)
        /\ DOMAIN backup.promised \subseteq backup.there
    BY <1>2, <1>4 DEF PromiseOK
  <2>2. AllHeld(backup'.promised, files')
    BY <1>4, <1>5, <2>1 DEF AllHeld, Holds
  <2>3. (writer' # None => writer'.key \notin DOMAIN backup'.promised)
    BY <1>1, <1>4, <2>1 DEF NotWritten
  <2> QED
    BY <1>4, <2>1, <2>2, <2>3 DEF AllHeld
<1>8. WalkOK' /\ SwapOK'
  BY <1>1, WalkOver
<1>9. SavedOK' /\ RestoreOK' /\ RestoredOK'
  BY <1>1, <1>2, DisturbEffect
     DEF FInv, SavedOK, RestoreOK, RestoredOK, ArchiveOK, IsArchive, IsFcn, AllHeld, Holds
<1> QED
  BY <1>3, <1>6, <1>7, <1>8, <1>9 DEF FInv

LEMMA StepWriteSome == FInv /\ WriteSome => FInv'
<1> SUFFICES ASSUME FInv, WriteSome PROVE FInv'
  OBVIOUS
<1>1. /\ writer # None /\ writer.key \in DOMAIN files /\ Put(writer.key, CutFile)
      /\ UNCHANGED <<directory, tmp, saved, taskVars, setting, kept, restored>>
  BY DEF WriteSome
<1>2. UNCHANGED <<directory, tmp, saved, writer, backup, restore, kept, restored>>
  BY <1>1 DEF taskVars
<1>3. /\ IsFcn(files') /\ DOMAIN files' = DOMAIN files
      /\ \A k \in DOMAIN files \ {writer.key} : files'[k] = files[k]
  BY <1>1 DEF Put, IsFcn
<1>4. DiskOK' /\ KeptOK'
  BY <1>1, <1>2, <1>3 DEF FInv, DiskOK, KeptOK, AllHeld, NotWritten, Holds
<1>5. PromiseOK'
  BY <1>1, <1>2, <1>3 DEF FInv, PromiseOK, IsBackup, AllHeld, NotWritten, Holds
<1>6. WalkOK' /\ SwapOK' /\ SavedOK'
  BY <1>2 DEF FInv, WalkOK, Walking, Visited, SwapOK, SavedOK, ArchiveOK, IsArchive,
              IsFcn, AllHeld, Holds
<1>7. RestoreOK' /\ RestoredOK'
  BY <1>1, <1>2 DEF FInv, RestoreOK, RestoredOK
<1> QED
  BY <1>4, <1>5, <1>6, <1>7 DEF FInv

LEMMA StepFinishStore == FInv /\ FinishStore => FInv'
<1> SUFFICES ASSUME FInv, FinishStore PROVE FInv'
  OBVIOUS
<1>1. /\ writer # None /\ writer' = None /\ writer.content \in Contents
      /\ UNCHANGED <<directory, tmp, saved, backup, restore, restored>>
  BY DEF FinishStore, FInv, DiskOK
<1>2. WalkOK' /\ SwapOK' /\ SavedOK'
  BY <1>1 DEF FInv, WalkOK, Walking, Visited, SwapOK, SavedOK, ArchiveOK, IsArchive,
              IsFcn, AllHeld, Holds
<1>3. RestoreOK' /\ RestoredOK'
  BY <1>1 DEF FInv, RestoreOK, RestoredOK
<1>4. CASE writer.key \in DOMAIN files
  <2>1. /\ Put(writer.key, PageFile(writer.content))
        /\ kept' = [k \in DOMAIN kept \cup {writer.key} |->
                       IF k = writer.key THEN writer.content ELSE kept[k]]
    BY <1>4 DEF FinishStore
  <2>2. /\ IsFcn(files') /\ DOMAIN files' = DOMAIN files
        /\ files'[writer.key] = PageFile(writer.content)
        /\ \A k \in DOMAIN files \ {writer.key} : files'[k] = files[k]
    BY <1>4, <2>1 DEF Put, IsFcn
  <2>3. Holds(files'[writer.key], writer.content)
    BY <2>2 DEF PageFile, HeaderByte, Holds
  <2>4. DiskOK' /\ KeptOK'
    BY <1>1, <1>4, <2>1, <2>2, <2>3
       DEF FInv, DiskOK, KeptOK, AllHeld, NotWritten, Holds
  <2>5. PromiseOK'
    BY <1>1, <2>2 DEF FInv, PromiseOK, IsBackup, AllHeld, NotWritten, Holds
  <2> QED
    BY <1>2, <1>3, <2>4, <2>5 DEF FInv
<1>5. CASE writer.key \notin DOMAIN files
  <2>1. files' = files /\ kept' = kept
    BY <1>5 DEF FinishStore
  <2> QED
    BY <1>1, <1>2, <1>3, <2>1
       DEF FInv, DiskOK, KeptOK, PromiseOK, IsBackup, IsFcn, AllHeld, NotWritten, Holds
<1> QED
  BY <1>4, <1>5

LEMMA StepStoreFails == FInv /\ StoreFails => FInv'
BY DEF StoreFails, diskVars, FInv, DiskOK, KeptOK, PromiseOK, WalkOK, Walking, Visited,
       SwapOK, SavedOK, RestoreOK, RestoredOK, ArchiveOK, IsArchive, IsBackup, IsFcn,
       AllHeld, NotWritten, Holds

(* A backup starts, goes on or ends beside the files and the stores. *)
LEMMA BackupLeavesFiles ==
    ASSUME FInv, UNCHANGED <<directory, files, writer, restore, kept, restored>>,
           restore # None => backup' = None /\ saved' = saved
    PROVE  DiskOK' /\ KeptOK' /\ RestoreOK' /\ RestoredOK'
BY DEF FInv, DiskOK, KeptOK, RestoreOK, RestoredOK, IsFcn, AllHeld, NotWritten, Holds

LEMMA StepEmptyBackup == FInv /\ (BeginEmptyBackup \/ FinishEmptyBackup) => FInv'
<1> SUFFICES ASSUME FInv, BeginEmptyBackup \/ FinishEmptyBackup PROVE FInv'
  OBVIOUS
<1>1. CASE BeginEmptyBackup
  <2>1. DiskOK' /\ KeptOK' /\ RestoreOK' /\ RestoredOK'
    BY <1>1, BackupLeavesFiles DEF BeginEmptyBackup
  <2>2. /\ saved' = Archive(Nothing)
        /\ backup' = [stage |-> "empty", listed |-> {}, there |-> {}, promised |-> Nothing]
    BY <1>1 DEF BeginEmptyBackup
  <2>3. PromiseOK' /\ WalkOK' /\ SwapOK'
    BY <2>2 DEF PromiseOK, WalkOK, SwapOK, Walking, IsBackup, AllHeld, NotWritten, Nothing
  <2>4. ArchiveOK(saved')
    BY <2>2 DEF ArchiveOK, Archive, IsArchive, IsFcn, AllHeld, Nothing
  <2> QED
    BY <2>1, <2>3, <2>4 DEF FInv, SavedOK, ArchiveOK, IsArchive, IsFcn, AllHeld, Holds
<1>2. CASE FinishEmptyBackup
  <2>1. /\ backup # None /\ backup.stage = "empty" /\ backup' = None
        /\ saved' = [saved EXCEPT !.whole = TRUE] /\ tmp' = tmp
        /\ UNCHANGED <<directory, files, writer, restore, kept, restored>>
    BY <1>2 DEF FinishEmptyBackup
  <2>2. restore = None /\ ArchiveOK(saved)
    BY <2>1 DEF FInv, RestoreOK, SavedOK
  <2>3. DiskOK' /\ KeptOK' /\ RestoreOK' /\ RestoredOK'
    BY <2>1, <2>2, BackupLeavesFiles
  <2>4. PromiseOK' /\ WalkOK' /\ SwapOK'
    BY <2>1 DEF PromiseOK, WalkOK, SwapOK, Walking
  <2>5. /\ saved'.whole = TRUE /\ saved'.entries = saved.entries
        /\ saved'.promised = saved.promised /\ IsArchive(saved')
    BY <2>1, <2>2 DEF ArchiveOK, IsArchive, IsFcn
  <2>6. SavedOK'
    BY <2>1, <2>2, <2>5 DEF SavedOK, ArchiveOK, AllHeld, IsArchive, IsFcn, Holds
  <2> QED
    BY <2>3, <2>4, <2>6 DEF FInv
<1> QED
  BY <1>1, <1>2

LEMMA StepBeginBackup == FInv /\ BeginBackup => FInv'
<1> SUFFICES ASSUME FInv, BeginBackup PROVE FInv'
  OBVIOUS
<1>1. /\ backup = None /\ restore = None
      /\ tmp' = Archive(Nothing) /\ saved' = saved
      /\ backup' = [stage |-> "walk", listed |-> DOMAIN files, there |-> DOMAIN files,
                    promised |-> kept]
      /\ UNCHANGED <<directory, files, writer, restore, kept, restored>>
  BY DEF BeginBackup
<1>2. DiskOK' /\ KeptOK' /\ RestoreOK' /\ RestoredOK'
  BY <1>1, BackupLeavesFiles
<1>3. PromiseOK'
  BY <1>1 DEF FInv, KeptOK, PromiseOK, IsBackup, AllHeld, NotWritten, Holds
<1>4. WalkOK' /\ SwapOK'
  BY <1>1 DEF WalkOK, SwapOK, Walking, Visited, Archive, IsArchive, IsFcn, Nothing
<1>5. SavedOK'
  BY <1>1 DEF FInv, SavedOK, ArchiveOK, IsArchive, IsFcn, AllHeld, Holds
<1> QED
  BY <1>2, <1>3, <1>4, <1>5 DEF FInv

(* A file goes into the archive as it is on disk, and stays as it went in. *)
LEMMA StepZip == FInv /\ (ZipFile \/ ZipGoneFile) => FInv'
<1> SUFFICES ASSUME FInv, ZipFile \/ ZipGoneFile PROVE FInv'
  OBVIOUS
<1>1. /\ Walking /\ backup # None /\ backup.stage = "walk"
      /\ UNCHANGED <<directory, files, saved, writer, backup, restore, kept, restored>>
  BY DEF ZipFile, ZipGoneFile, taskVars, Walking
<1>2. restore = None
  BY <1>1 DEF FInv, RestoreOK
<1>3. DiskOK' /\ KeptOK' /\ RestoreOK' /\ RestoredOK'
  BY <1>1, <1>2, BackupLeavesFiles
<1>4. PromiseOK' /\ SavedOK'
  BY <1>1 DEF FInv, PromiseOK, SavedOK, ArchiveOK, IsArchive, IsBackup, IsFcn, AllHeld,
              NotWritten, Holds
<1>5. SwapOK'
  BY <1>1 DEF SwapOK
<1>6. \E key, file :
        /\ AddEntry(key, file) /\ key \notin Visited
        /\ key \in DOMAIN files => file = files[key]
  BY DEF ZipFile, ZipGoneFile
<1>7. PICK key, file :
        /\ AddEntry(key, file) /\ key \notin Visited
        /\ key \in DOMAIN files => file = files[key]
  BY <1>6
<1>8. /\ IsArchive(tmp) /\ AllHeld(backup.promised, files)
      /\ \A k \in DOMAIN backup.promised \cap Visited :
            Holds(tmp.entries[k], backup.promised[k])
  BY <1>1 DEF FInv, WalkOK, PromiseOK
<1>9. /\ IsArchive(tmp')
      /\ tmp'.entries = [k \in Visited \cup {key} |->
                            IF k = key THEN file ELSE tmp.entries[k]]
  BY <1>7, <1>8 DEF AddEntry, IsArchive, IsFcn, Visited
<1>10. \A k \in DOMAIN backup.promised \cap (Visited \cup {key}) :
          Holds(tmp'.entries[k], backup.promised[k])
  BY <1>7, <1>8, <1>9 DEF AllHeld
<1>11. Visited' = Visited \cup {key}
  BY <1>9 DEF Visited
<1>12. WalkOK'
  BY <1>1, <1>9, <1>10, <1>11 DEF WalkOK, Walking, Holds, IsArchive, IsFcn
<1> QED
  BY <1>3, <1>4, <1>5, <1>12 DEF FInv

(* A backup that fails leaves what is at the backup path alone. *)
LEMMA StepBackupFails == FInv /\ (ZipFails \/ RenameFails) => FInv'
<1> SUFFICES ASSUME FInv, ZipFails \/ RenameFails PROVE FInv'
  OBVIOUS
<1>1. /\ backup' = None
      /\ UNCHANGED <<directory, files, saved, writer, restore, kept, restored>>
  BY DEF ZipFails, RenameFails, diskVars
<1>2. DiskOK' /\ KeptOK' /\ RestoreOK' /\ RestoredOK'
  BY <1>1, BackupLeavesFiles
<1>3. PromiseOK' /\ WalkOK' /\ SwapOK' /\ SavedOK'
  BY <1>1 DEF FInv, PromiseOK, WalkOK, SwapOK, Walking, SavedOK, ArchiveOK, IsArchive,
              IsFcn, AllHeld, Holds
<1> QED
  BY <1>2, <1>3 DEF FInv

(* The walk ends when every file that was there all along is visited. *)
LEMMA StepFinishArchive == FInv /\ FinishArchive => FInv'
<1> SUFFICES ASSUME FInv, FinishArchive PROVE FInv'
  OBVIOUS
<1>1. /\ Walking /\ backup # None /\ backup.there \subseteq Visited
      /\ tmp' = [tmp EXCEPT !.whole = TRUE, !.promised = backup.promised]
      /\ backup' = [backup EXCEPT !.stage = "swap"]
      /\ UNCHANGED <<directory, files, saved, writer, restore, kept, restored>>
  BY DEF FinishArchive, Walking, MustVisit
<1>2. restore = None
  BY <1>1 DEF FInv, RestoreOK
<1>3. DiskOK' /\ KeptOK' /\ RestoreOK' /\ RestoredOK'
  BY <1>1, <1>2, BackupLeavesFiles
<1>4. /\ IsBackup(backup) /\ DOMAIN backup.promised \subseteq backup.there
      /\ AllHeld(backup.promised, files) /\ NotWritten(backup.promised)
      /\ IsArchive(tmp)
      /\ \A k \in DOMAIN backup.promised \cap Visited :
            Holds(tmp.entries[k], backup.promised[k])
  BY <1>1 DEF FInv, WalkOK, PromiseOK
<1>5. /\ IsBackup(backup') /\ backup'.stage = "swap"
      /\ backup'.promised = backup.promised /\ backup'.there = backup.there
  BY <1>1, <1>4 DEF IsBackup
<1>6. PromiseOK'
  BY <1>1, <1>4, <1>5 DEF PromiseOK, IsBackup, AllHeld, NotWritten, Holds
<1>7. WalkOK'
  BY <1>5 DEF WalkOK, Walking
<1>8. /\ tmp'.whole = TRUE /\ tmp'.entries = tmp.entries
      /\ tmp'.promised = backup.promised /\ IsArchive(tmp')
  BY <1>1, <1>4 DEF IsArchive, IsFcn
<1>9. SwapOK'
  BY <1>1, <1>4, <1>8 DEF SwapOK, ArchiveOK, AllHeld, Visited, IsArchive, IsFcn, Holds
<1>10. SavedOK'
  BY <1>1, <1>5 DEF FInv, SavedOK, ArchiveOK, IsArchive, IsFcn, AllHeld, Holds
<1> QED
  BY <1>3, <1>6, <1>7, <1>9, <1>10 DEF FInv

LEMMA StepRename == FInv /\ (RemoveOldBackup \/ RenameBackup) => FInv'
<1> SUFFICES ASSUME FInv, RemoveOldBackup \/ RenameBackup PROVE FInv'
  OBVIOUS
<1>1. /\ backup # None /\ backup.stage = "swap"
      /\ UNCHANGED <<directory, files, writer, restore, kept, restored>>
  BY DEF RemoveOldBackup, RenameBackup, taskVars
<1>2. restore = None /\ ArchiveOK(tmp)
  BY <1>1 DEF FInv, RestoreOK, SwapOK
<1>3. DiskOK' /\ KeptOK' /\ RestoreOK' /\ RestoredOK'
  BY <1>1, <1>2, BackupLeavesFiles
<1>4. CASE RemoveOldBackup
  <2>1. saved' = None /\ tmp' = tmp /\ backup' = backup
    BY <1>4 DEF RemoveOldBackup, taskVars
  <2>2. PromiseOK' /\ WalkOK' /\ SwapOK' /\ SavedOK'
    BY <1>1, <2>1 DEF FInv, PromiseOK, WalkOK, SwapOK, Walking, Visited, SavedOK,
       ArchiveOK, IsArchive, IsBackup, IsFcn, AllHeld, NotWritten, Holds
  <2> QED
    BY <1>3, <2>2 DEF FInv
<1>5. CASE RenameBackup
  <2>1. saved' = tmp /\ backup' = None
    BY <1>5 DEF RenameBackup
  <2>2. PromiseOK' /\ WalkOK' /\ SwapOK' /\ SavedOK'
    BY <1>2, <2>1 DEF PromiseOK, WalkOK, SwapOK, Walking, SavedOK,
       ArchiveOK, IsArchive, IsFcn, AllHeld, Holds
  <2> QED
    BY <1>3, <2>2 DEF FInv
<1> QED
  BY <1>4, <1>5

(***************************************************************************)
(* A restore: the archive at the backup path is not touched, no backup is  *)
(* under way.                                                              *)
(***************************************************************************)
LEMMA RestoreLeavesArchive ==
    ASSUME FInv, backup' = None, saved' = saved
    PROVE  PromiseOK' /\ WalkOK' /\ SwapOK' /\ SavedOK'
BY DEF FInv, PromiseOK, WalkOK, SwapOK, Walking, SavedOK, ArchiveOK, IsArchive, IsFcn,
       AllHeld, Holds

LEMMA StepBeginRestore == FInv /\ BeginRestore => FInv'
<1> SUFFICES ASSUME FInv, BeginRestore PROVE FInv'
  OBVIOUS
<1>1. /\ writer = None /\ backup = None /\ saved # None
      /\ restore' = [stage |-> IF directory THEN "clear" ELSE "create"]
      /\ restored' = None
      /\ UNCHANGED <<directory, files, tmp, saved, writer, backup, kept>>
  BY DEF BeginRestore, diskVars
<1>2. PromiseOK' /\ WalkOK' /\ SwapOK' /\ SavedOK'
  BY <1>1, RestoreLeavesArchive
<1>3. DiskOK' /\ KeptOK'
  BY <1>1 DEF FInv, DiskOK, KeptOK, IsFcn, AllHeld, NotWritten, Holds
<1>4. RestoreOK' /\ RestoredOK'
  BY <1>1 DEF FInv, DiskOK, RestoreOK, RestoredOK
<1> QED
  BY <1>2, <1>3, <1>4 DEF FInv

(* The old files go one by one, and what was promised of them. *)
LEMMA StepClearDirectory == FInv /\ ClearDirectory => FInv'
<1> SUFFICES ASSUME FInv, ClearDirectory PROVE FInv'
  OBVIOUS
<1>1. /\ restore # None /\ restore.stage = "clear" /\ writer = None /\ backup = None
      /\ saved # None /\ restored = None
      /\ UNCHANGED <<tmp, saved, writer>>
  BY DEF ClearDirectory, Restoring, FInv, RestoreOK
<1>2. PromiseOK /\ KeptOK /\ DiskOK
  BY DEF FInv
<1>3. CASE \E key \in DOMAIN files : Remove(key) /\ Disturb(key)
           /\ UNCHANGED <<directory, restore>>
  <2>1. PICK key \in DOMAIN files : Remove(key) /\ Disturb(key)
    BY <1>3
  <2>2. UNCHANGED <<directory, restore>>
    BY <1>3
  <2>3. /\ IsFcn(files') /\ DOMAIN files' = DOMAIN files \ {key}
        /\ \A k \in DOMAIN files \ {key} : files'[k] = files[k]
    BY <2>1, RemoveEffect
  <2>4. /\ DOMAIN kept' = DOMAIN kept \ {key}
        /\ \A k \in DOMAIN kept' : kept'[k] = kept[k]
        /\ restored' = None /\ backup' = None
    BY <1>1, <1>2, <2>1, DisturbEffect
  <2>5. PromiseOK' /\ WalkOK' /\ SwapOK' /\ SavedOK'
    BY <1>1, <2>4, RestoreLeavesArchive
  <2>6. DiskOK' /\ KeptOK'
    BY <1>1, <1>2, <2>2, <2>3, <2>4 DEF DiskOK, KeptOK, AllHeld, NotWritten, Holds
  <2>7. RestoreOK' /\ RestoredOK'
    BY <1>1, <2>2, <2>4 DEF RestoreOK, RestoredOK
  <2> QED
    BY <2>5, <2>6, <2>7 DEF FInv
<1>4. CASE /\ files = Nothing /\ directory' = FALSE /\ restore' = [stage |-> "create"]
           /\ UNCHANGED <<files, backup, kept, restored>>
  <2>1. PromiseOK' /\ WalkOK' /\ SwapOK' /\ SavedOK'
    BY <1>1, <1>4, RestoreLeavesArchive
  <2>2. DiskOK' /\ KeptOK'
    BY <1>1, <1>2, <1>4 DEF DiskOK, KeptOK, AllHeld, NotWritten, Holds, IsFcn, Nothing
  <2>3. RestoreOK' /\ RestoredOK'
    BY <1>1, <1>4 DEF RestoreOK, RestoredOK, Nothing
  <2> QED
    BY <2>1, <2>2, <2>3 DEF FInv
<1> QED
  BY <1>3, <1>4 DEF ClearDirectory

LEMMA StepOpenArchive == FInv /\ OpenArchive => FInv'
<1> SUFFICES ASSUME FInv, OpenArchive PROVE FInv'
  OBVIOUS
<1>1. /\ restore # None /\ restore.stage = "create" /\ directory' = TRUE
      /\ restore' = IF saved.whole THEN [stage |-> "extract", done |-> {}] ELSE None
      /\ UNCHANGED <<files, tmp, saved, writer, backup, kept, restored>>
  BY DEF OpenArchive, Restoring
<1>2. /\ writer = None /\ backup = None /\ saved # None /\ restored = None
      /\ DOMAIN files = {}
  BY <1>1 DEF FInv, RestoreOK
<1>3. PromiseOK' /\ WalkOK' /\ SwapOK' /\ SavedOK'
  BY <1>1, <1>2, RestoreLeavesArchive
<1>4. DiskOK' /\ KeptOK'
  BY <1>1 DEF FInv, DiskOK, KeptOK, AllHeld, NotWritten, Holds, IsFcn
<1>5. RestoreOK' /\ RestoredOK'
  BY <1>1, <1>2 DEF RestoreOK, RestoredOK
<1> QED
  BY <1>3, <1>4, <1>5 DEF FInv

(* Only a file that is not there yet is written; no kept page is touched. *)
LEMMA StepExtract == FInv /\ (ExtractFile \/ ExtractFails) => FInv'
<1> SUFFICES ASSUME FInv, ExtractFile \/ ExtractFails PROVE FInv'
  OBVIOUS
<1>1. /\ restore # None /\ restore.stage = "extract"
      /\ UNCHANGED <<directory, tmp, saved, writer, backup, kept, restored>>
  BY DEF ExtractFile, ExtractFails, Restoring
<1>2. /\ writer = None /\ backup = None /\ saved # None /\ restored = None
      /\ restore = [stage |-> "extract", done |-> restore.done] /\ directory
      /\ DOMAIN files = restore.done
      /\ \A k \in restore.done : k \in DOMAIN saved.entries /\ files[k] = saved.entries[k]
  BY <1>1 DEF FInv, RestoreOK
<1>3. PromiseOK' /\ WalkOK' /\ SwapOK' /\ SavedOK'
  BY <1>1, <1>2, RestoreLeavesArchive
<1>4. \E key, file : key \in Unextracted /\ Put(key, file)
  BY DEF ExtractFile, ExtractFails
<1>5. ASSUME NEW key \in Unextracted, NEW file, Put(key, file)
      PROVE  /\ IsFcn(files') /\ DOMAIN files' = DOMAIN files \cup {key}
             /\ files'[key] = file /\ key \notin DOMAIN files
             /\ \A k \in DOMAIN files : files'[k] = files[k]
  BY <1>2, <1>5, PutEffect DEF Unextracted
<1>6. DiskOK' /\ KeptOK'
  <2>1. PICK key, file : key \in Unextracted /\ Put(key, file)
    BY <1>4
  <2> QED
    BY <1>1, <1>2, <1>5, <2>1 DEF FInv, DiskOK, KeptOK, AllHeld, NotWritten, Holds
<1>7. RestoredOK'
  BY <1>1, <1>2 DEF RestoredOK
<1>8. CASE ExtractFile
  <2>1. PICK key \in Unextracted :
          /\ Put(key, saved.entries[key])
          /\ restore' = [restore EXCEPT !.done = @ \cup {key}]
    BY <1>8 DEF ExtractFile
  <2>2. /\ DOMAIN files' = DOMAIN files \cup {key}
        /\ files'[key] = saved.entries[key]
        /\ \A k \in DOMAIN files : files'[k] = files[k]
    BY <1>5, <2>1
  <2>3. restore' = [stage |-> "extract", done |-> restore.done \cup {key}]
    BY <1>2, <2>1
  <2>4. key \in DOMAIN saved.entries
    BY DEF Unextracted
  <2>5. RestoreOK'
    BY <1>1, <1>2, <2>2, <2>3, <2>4 DEF RestoreOK
  <2> QED
    BY <1>3, <1>6, <1>7, <2>5 DEF FInv
<1>9. CASE ExtractFails
  <2>1. RestoreOK'
    BY <1>9 DEF ExtractFails, RestoreOK
  <2> QED
    BY <1>3, <1>6, <1>7, <2>1 DEF FInv
<1> QED
  BY <1>8, <1>9

(* The directory was empty, and all of the archive is in it. *)
LEMMA StepFinishRestore == FInv /\ FinishRestore => FInv'
<1> SUFFICES ASSUME FInv, FinishRestore PROVE FInv'
  OBVIOUS
<1>1. /\ restore # None /\ restore.stage = "extract" /\ Unextracted = {}
      /\ restore' = None /\ kept' = saved.promised /\ restored' = saved.entries
      /\ UNCHANGED <<directory, files, tmp, saved, writer, backup>>
  BY DEF FinishRestore, Restoring, diskVars
<1>2. /\ writer = None /\ backup = None /\ saved # None /\ directory
      /\ DOMAIN files = restore.done
      /\ \A k \in restore.done : k \in DOMAIN saved.entries /\ files[k] = saved.entries[k]
  BY <1>1 DEF FInv, RestoreOK
<1>3. PromiseOK' /\ WalkOK' /\ SwapOK' /\ SavedOK'
  BY <1>1, <1>2, RestoreLeavesArchive
<1>4. /\ AllHeld(saved.promised, saved.entries) /\ IsFcn(saved.entries) /\ IsFcn(files)
  BY <1>2 DEF FInv, SavedOK, ArchiveOK, IsArchive, DiskOK
<1>5. DOMAIN files = DOMAIN saved.entries
  BY <1>1, <1>2 DEF Unextracted
<1>6. files = saved.entries
  BY <1>2, <1>4, <1>5 DEF IsFcn
<1>7. KeptOK'
  BY <1>1, <1>2, <1>4, <1>6 DEF KeptOK, AllHeld, NotWritten, Holds
<1>8. DiskOK'
  BY <1>1, <1>2, <1>4 DEF DiskOK, IsFcn
<1>9. RestoreOK' /\ RestoredOK'
  BY <1>1, <1>2, <1>6 DEF RestoreOK, RestoredOK
<1> QED
  BY <1>3, <1>7, <1>8, <1>9 DEF FInv

(* What is on disk survives; a backup or a restore under way is forgotten. *)
LEMMA StepCrash == FInv /\ CrashAndReopen => FInv'
BY DEF CrashAndReopen, diskVars, FInv, DiskOK, KeptOK, PromiseOK, WalkOK, Walking,
       SwapOK, SavedOK, RestoreOK, RestoredOK, ArchiveOK, IsArchive, IsFcn, AllHeld,
       NotWritten, Holds

LEMMA StutterFInv == FInv /\ UNCHANGED fvars => FInv'
BY DEF fvars, diskVars, taskVars, FInv, DiskOK, KeptOK, PromiseOK, WalkOK, Walking,
       Visited, SwapOK, SavedOK, RestoreOK, RestoredOK, ArchiveOK, IsArchive, IsBackup,
       IsFcn, AllHeld, NotWritten, Holds

LEMMA NextFInv == FInv /\ [FNext]_fvars => FInv'
BY StepBeginStore, StepDeletePage, StepWriteSome, StepFinishStore, StepStoreFails,
   StepEmptyBackup, StepBeginBackup, StepZip, StepBackupFails, StepFinishArchive,
   StepRename, StepBeginRestore, StepClearDirectory, StepOpenArchive, StepExtract,
   StepFinishRestore, StepCrash, StutterFInv
   DEF FNext

(***************************************************************************)
(* The state of the files, the backup and the restore, step by step.       *)
(***************************************************************************)
THEOREM FilesInv == FSpec => []FInv
<1>1. FInit => FInv
  BY InitFInv
<1>2. FInv /\ [FNext]_fvars => FInv'
  BY NextFInv
<1> QED
  BY <1>1, <1>2, PTL DEF FSpec

----------------------------------------------------------------------------
(***************************************************************************)
(* What store_page returned for is read back by load_page, by the list of  *)
(* its level and by hash, under any later compression setting, until the   *)
(* page is written or deleted: through backups, restores, crashes, full    *)
(* disks and torn files of other pages (FileStorage::store_page,           *)
(* load_page, load_page_by_hash, list_finalized_pages_summary).            *)
(***************************************************************************)
THEOREM FilesKeepPages == FSpec => []KeptPageReadBack
<1>1. FInv => KeptPageReadBack
  <2> SUFFICES ASSUME FInv, NEW key \in DOMAIN kept
               PROVE  /\ LoadPage(key) = kept[key]
                      /\ key \in ListPages(key[1])
                      /\ key[1] = 0 => key \in LoadLeafByHash(kept[key])
                      /\ LoadPageByHash(key, kept[key]) =
                            {kept[key]}
                            \cup {Failure : k \in {k \in DOMAIN files : Blocks(files[k])}}
    BY DEF KeptPageReadBack
  <2>1. /\ key \in DOMAIN files /\ kept[key] \in Contents
        /\ Holds(files[key], kept[key])
    BY DEF FInv, KeptOK, AllHeld
  <2>2. LoadPage(key) = kept[key]
    BY <2>1 DEF LoadPage, Decodes, Holds
  <2>3. key \in ListPages(key[1])
    BY <2>1, <2>2 DEF ListPages
  <2>4. key[1] = 0 => key \in LoadLeafByHash(kept[key])
    BY <2>2, <2>3 DEF LoadLeafByHash
  <2>5. LoadPageByHash(key, kept[key]) =
           {kept[key]} \cup {Failure : k \in {k \in DOMAIN files : Blocks(files[k])}}
    BY <2>2 DEF LoadPageByHash
  <2> QED
    BY <2>2, <2>3, <2>4, <2>5
<1> QED
  BY <1>1, FilesInv, PTL

(***************************************************************************)
(* A backup holds, whole and as they were stored, the pages that were      *)
(* stored when it began and left alone until its archive was written,      *)
(* whatever is stored, deleted or torn beside it (backup_journal: the      *)
(* archive is written to a temporary path and renamed).                    *)
(***************************************************************************)
THEOREM BackupsHoldPages == FSpec => []BackupHoldsKeptPages
<1>1. FInv => BackupHoldsKeptPages
  BY DEF FInv, SavedOK, ArchiveOK, AllHeld, Holds, BackupHoldsKeptPages
<1> QED
  BY <1>1, FilesInv, PTL

(***************************************************************************)
(* After restore_journal returned, until something changes, the directory  *)
(* holds the files of the archive and nothing that was there before.       *)
(***************************************************************************)
THEOREM RestoresAreExact == FSpec => []RestoredFilesExact
<1>1. FInv => RestoredFilesExact
  BY DEF FInv, RestoredOK, RestoredFilesExact
<1> QED
  BY <1>1, FilesInv, PTL
=============================================================================
