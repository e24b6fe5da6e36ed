---------------------------- MODULE FileStorage ----------------------------
(***************************************************************************)
(* FileStorage (src/storage/file.rs): one file for each page, written in   *)
(* place; searches that read every file; backup_journal into an archive    *)
(* and restore_journal from it, into the journal directory.  A backup runs *)
(* beside the stores; a restore runs on a journal that is not in use.      *)
(*                                                                         *)
(* A page is a key (level and id) and a content.  A step is what another   *)
(* task, a full disk or a crash can come after.  A finished write survives *)
(* the crash of the process.                                               *)
(***************************************************************************)
EXTENDS Integers, FiniteSets, Functions

CONSTANTS
    Keys,           \* pairs of a level and a page id
    Contents,       \* what a page may hold
    Settings,       \* compression settings: enabled, algorithm
    None,           \* no page, no task, no archive
    Failure,        \* an error a reader returns
    MaxStores,      \* bound: calls of store_page
    MaxDeletes,     \* bound: calls of delete_page
    MaxBackups,     \* bound: calls of backup_journal
    MaxRestores,    \* bound: calls of restore_journal
    MaxFaults       \* bound: crashes and failing writes

ASSUME FileAssumption ==
    /\ Contents \cap {None, Failure} = {} /\ None # Failure
    /\ {MaxStores, MaxDeletes, MaxBackups, MaxRestores, MaxFaults} \subseteq Nat

VARIABLES
    directory,      \* the journal directory exists
    files,          \* the page files in it, by key
    setting,        \* compression_config of this process
    writer,         \* the store_page under way
    tmp, saved,     \* the archives at the temporary and at the backup path
    backup,         \* the backup_journal under way
    restore,        \* the restore_journal under way
    kept,           \* the content last stored or restored, where nothing
                    \* has touched the page since
    restored,       \* the files of the last restore, likewise
    count           \* calls and faults so far

diskVars == <<directory, files, tmp, saved>>
taskVars == <<writer, backup, restore>>
fvars    == <<diskVars, taskVars, setting, kept, restored, count>>

Nothing == [k \in {} |-> None]

Counted(what) == count' = [count EXCEPT ![what] = @ + 1]

----------------------------------------------------------------------------
(***************************************************************************)
(* The bytes of a file, as far as readers tell them apart: too short for a *)
(* header, cut after it, a whole page, or a directory in its place.        *)
(***************************************************************************)
ShortFile == [kind |-> "short"]

DirectoryFile == [kind |-> "directory"]

(* Mutant: the header names the algorithm of the configuration. *)
HeaderOfSetting == setting.algorithm

AlgorithmUsed == IF setting.enabled THEN setting.algorithm ELSE "None"

HeaderByte == AlgorithmUsed

PageFile(content) ==
    [kind |-> "page", algorithm |-> HeaderByte, coded |-> AlgorithmUsed,
     content |-> content]

CutFile == [kind |-> "cut", algorithm |-> HeaderByte]

(* decompression: a body that is cut is an error unless it is plain. *)
Decodes(file) ==
    IF file.kind = "page" THEN file.algorithm = file.coded
    ELSE file.kind = "cut" /\ file.algorithm = "None"

(* load_page: nothing, a content, or an error. *)
LoadPage(key) ==
    IF key \notin DOMAIN files THEN None
    ELSE IF files[key].kind = "page" /\ Decodes(files[key])
         THEN files[key].content ELSE Failure

PageExists(key) == key \in DOMAIN files

(* list_finalized_pages_summary: what does not load is left out. *)
ListPages(level) ==
    {key \in DOMAIN files : key[1] = level /\ LoadPage(key) \in Contents}

(* A file that ends the search by hash with an error. *)
Blocks(file) == file.kind \in {"cut", "page"} /\ ~Decodes(file)

(***************************************************************************)
(* load_page_by_hash, for the page of a key with a content: the files come *)
(* in the order of the directory, so one that does not decompress may come *)
(* before the page.                                                        *)
(***************************************************************************)
LoadPageByHash(key, content) ==
    {IF LoadPage(key) = content THEN content ELSE None}
    \cup {Failure : k \in {k \in DOMAIN files : Blocks(files[k])}}

(* load_leaf_by_hash: pages of level 0, those that do not load skipped. *)
LoadLeafByHash(content) ==
    {key \in ListPages(0) : LoadPage(key) = content}

----------------------------------------------------------------------------
FInit ==
    /\ directory = FALSE
    /\ files = Nothing
    /\ setting \in Settings
    /\ writer = None
    /\ tmp = None /\ saved = None
    /\ backup = None /\ restore = None
    /\ kept = Nothing
    /\ restored = None
    /\ count = [w \in {"stores", "deletes", "backups", "restores", "faults"} |-> 0]

Put(key, file) ==
    files' = [k \in DOMAIN files \cup {key} |-> IF k = key THEN file ELSE files[k]]

Remove(key) == files' = Restrict(files, DOMAIN files \ {key})

(* The page changes: nothing is promised of it any more. *)
Disturb(key) ==
    /\ kept' = Restrict(kept, DOMAIN kept \ {key})
    /\ backup' = IF backup = None THEN None
                 ELSE [backup EXCEPT !.promised = Restrict(@, DOMAIN @ \ {key}),
                                     !.there = @ \cap DOMAIN files']
    /\ restored' = None

(* fs::write opens the file and cuts it to nothing. *)
BeginStore(key, content) ==
    /\ writer = None /\ restore = None
    /\ count.stores < MaxStores
    /\ key \in DOMAIN files => files[key] # DirectoryFile
    /\ directory' = TRUE
    /\ Put(key, ShortFile)
    /\ writer' = [key |-> key, content |-> content]
    /\ Disturb(key)
    /\ Counted("stores")
    /\ UNCHANGED <<tmp, saved, restore, setting>>

WriteSome ==
    /\ writer # None
    /\ \E k \in {writer.key} \cap DOMAIN files : files[k] = ShortFile
    /\ Put(writer.key, CutFile)
    /\ UNCHANGED <<directory, tmp, saved, taskVars, setting, kept, restored, count>>

(* A file deleted under the writer takes the page with it. *)
FinishStore ==
    /\ writer # None
    /\ IF writer.key \in DOMAIN files
       THEN /\ Put(writer.key, PageFile(writer.content))
            /\ kept' = [k \in DOMAIN kept \cup {writer.key} |->
                           IF k = writer.key THEN writer.content ELSE kept[k]]
       ELSE UNCHANGED <<files, kept>>
    /\ writer' = None
    /\ UNCHANGED <<directory, tmp, saved, backup, restore, setting, restored, count>>

(* The write fails: what is in the file stays there. *)
StoreFails ==
    /\ writer # None
    /\ count.faults < MaxFaults
    /\ writer' = None
    /\ Counted("faults")
    /\ UNCHANGED <<diskVars, backup, restore, setting, kept, restored>>

DeletePage(key) ==
    /\ restore = None
    /\ count.deletes < MaxDeletes
    /\ PageExists(key)
    /\ files[key] # DirectoryFile
    /\ Remove(key)
    /\ Disturb(key)
    /\ Counted("deletes")
    /\ UNCHANGED <<directory, tmp, saved, writer, restore, setting>>

----------------------------------------------------------------------------
(* backup_journal *)

Archive(entries) == [whole |-> FALSE, entries |-> entries, promised |-> Nothing]

(* No journal directory: an empty archive, written at the backup path. *)
BeginEmptyBackup ==
    /\ backup = None /\ restore = None /\ ~directory
    /\ count.backups < MaxBackups
    /\ saved' = Archive(Nothing)
    /\ backup' = [stage |-> "empty", listed |-> {}, there |-> {}, promised |-> Nothing]
    /\ Counted("backups")
    /\ UNCHANGED <<directory, files, tmp, writer, restore, setting, kept, restored>>

FinishEmptyBackup ==
    /\ backup # None /\ backup.stage = "empty"
    /\ saved' = [saved EXCEPT !.whole = TRUE]
    /\ backup' = None
    /\ UNCHANGED <<directory, files, tmp, writer, restore, setting, kept,
                   restored, count>>

BeginBackup ==
    /\ backup = None /\ restore = None /\ directory
    /\ count.backups < MaxBackups
    /\ tmp' = Archive(Nothing)
    /\ backup' = [stage |-> "walk", listed |-> DOMAIN files, there |-> DOMAIN files,
                   promised |-> kept]
    /\ Counted("backups")
    /\ UNCHANGED <<directory, files, saved, writer, restore, setting, kept, restored>>

Walking == backup # None /\ backup.stage = "walk"

Visited == DOMAIN tmp.entries

AddEntry(key, file) ==
    tmp' = [tmp EXCEPT !.entries = [k \in DOMAIN @ \cup {key} |->
                                       IF k = key THEN file ELSE @[k]]]

(* Every file goes into the archive, also one too short for the manifest. *)
ZipFile ==
    /\ Walking
    /\ \E key \in DOMAIN files \ Visited :
         /\ ~Blocks(files[key])
         /\ AddEntry(key, files[key])
    /\ UNCHANGED <<directory, files, saved, taskVars, setting, kept, restored, count>>

(* A file deleted after it was listed is taken for a directory. *)
ZipGoneFile ==
    /\ Walking
    /\ \E key \in backup.listed \ (DOMAIN files \cup Visited) :
         AddEntry(key, DirectoryFile)
    /\ UNCHANGED <<directory, files, saved, taskVars, setting, kept, restored, count>>

(***************************************************************************)
(* What is hashed for the manifest must decompress, and a file deleted     *)
(* just before it is opened is an error; the archive is left behind.       *)
(***************************************************************************)
ZipFails ==
    /\ Walking
    /\ \/ \E key \in DOMAIN files \ Visited : Blocks(files[key])
       \/ backup.listed \ (DOMAIN files \cup Visited) # {}
    /\ backup' = None
    /\ UNCHANGED <<diskVars, writer, restore, setting, kept, restored, count>>

(* Mutant: the walk stays in the directory of level 0. *)
OnlyLevelZero == {key \in backup.there : key[1] = 0}

(* The files the walk cannot have missed. *)
MustVisit == backup.there

FinishArchive ==
    /\ Walking
    /\ MustVisit \subseteq Visited
    /\ tmp' = [tmp EXCEPT !.whole = TRUE, !.promised = backup.promised]
    /\ backup' = [backup EXCEPT !.stage = "swap"]
    /\ UNCHANGED <<directory, files, saved, writer, restore, setting, kept,
                   restored, count>>

RemoveOldBackup ==
    /\ backup # None /\ backup.stage = "swap" /\ saved # None
    /\ saved' = None
    /\ UNCHANGED <<directory, files, tmp, taskVars, setting, kept, restored, count>>

RenameBackup ==
    /\ backup # None /\ backup.stage = "swap" /\ saved = None
    /\ saved' = tmp /\ tmp' = None
    /\ backup' = None
    /\ UNCHANGED <<directory, files, writer, restore, setting, kept, restored, count>>

(* The new archive is removed, after the old one. *)
RenameFails ==
    /\ backup # None /\ backup.stage = "swap" /\ saved = None
    /\ count.faults < MaxFaults
    /\ tmp' = None
    /\ backup' = None
    /\ Counted("faults")
    /\ UNCHANGED <<directory, files, saved, writer, restore, setting, kept, restored>>

----------------------------------------------------------------------------
(* restore_journal *)

BeginRestore ==
    /\ restore = None /\ writer = None /\ backup = None
    /\ saved # None
    /\ count.restores < MaxRestores
    /\ restore' = [stage |-> IF directory THEN "clear" ELSE "create"]
    /\ restored' = None
    /\ Counted("restores")
    /\ UNCHANGED <<diskVars, writer, backup, setting, kept>>

Restoring(stage) == restore # None /\ restore.stage = stage

(* Mutant: the directory is created over what is there. *)
SkipClearing ==
    /\ Restoring("clear")
    /\ restore' = [stage |-> "create"]
    /\ UNCHANGED <<diskVars, writer, backup, setting, kept, restored, count>>

(* remove_dir_all, file by file. *)
ClearDirectory ==
    /\ Restoring("clear")
    /\ \/ /\ \E key \in DOMAIN files : Remove(key) /\ Disturb(key)
          /\ UNCHANGED <<directory, restore>>
       \/ /\ files = Nothing
          /\ directory' = FALSE
          /\ restore' = [stage |-> "create"]
          /\ UNCHANGED <<files, backup, kept, restored>>
    /\ UNCHANGED <<tmp, saved, writer, setting, count>>

(* The archive is opened when the old files are gone already. *)
OpenArchive ==
    /\ Restoring("create")
    /\ directory' = TRUE
    /\ restore' = IF saved.whole THEN [stage |-> "extract", done |-> {}] ELSE None
    /\ UNCHANGED <<files, tmp, saved, writer, backup, setting, kept, restored, count>>

Unextracted == DOMAIN saved.entries \ restore.done

ExtractFile ==
    /\ Restoring("extract")
    /\ \E key \in Unextracted :
         /\ Put(key, saved.entries[key])
         /\ restore' = [restore EXCEPT !.done = @ \cup {key}]
    /\ UNCHANGED <<directory, tmp, saved, writer, backup, setting, kept, restored, count>>

(* A file cannot be written: it stays cut, and the rest is not restored. *)
ExtractFails ==
    /\ Restoring("extract")
    /\ count.faults < MaxFaults
    /\ \E key \in Unextracted : Put(key, ShortFile)
    /\ restore' = None
    /\ Counted("faults")
    /\ UNCHANGED <<directory, tmp, saved, writer, backup, setting, kept, restored>>

FinishRestore ==
    /\ Restoring("extract")
    /\ Unextracted = {}
    /\ restore' = None
    /\ kept' = saved.promised
    /\ restored' = saved.entries
    /\ UNCHANGED <<diskVars, writer, backup, setting, count>>

----------------------------------------------------------------------------
(***************************************************************************)
(* The process stops, and FileStorage::new opens the same directory, with  *)
(* a compression that may be another.                                      *)
(***************************************************************************)
CrashAndReopen ==
    /\ count.faults < MaxFaults
    /\ writer' = None /\ backup' = None /\ restore' = None
    /\ setting' \in Settings
    /\ Counted("faults")
    /\ UNCHANGED <<diskVars, kept, restored>>

FNext ==
    \/ \E key \in Keys :
         \/ \E content \in Contents : BeginStore(key, content)
         \/ DeletePage(key)
    \/ WriteSome \/ FinishStore \/ StoreFails
    \/ BeginEmptyBackup \/ FinishEmptyBackup
    \/ BeginBackup \/ ZipFile \/ ZipGoneFile \/ ZipFails \/ FinishArchive
    \/ RemoveOldBackup \/ RenameBackup \/ RenameFails
    \/ BeginRestore \/ ClearDirectory \/ OpenArchive
    \/ ExtractFile \/ ExtractFails \/ FinishRestore
    \/ CrashAndReopen

FSpec == FInit /\ [][FNext]_fvars

----------------------------------------------------------------------------
(***************************************************************************)
(* A page that was stored, or restored from a backup that held it, and has *)
(* not been written, deleted or cleared since is read back under any later *)
(* compression setting: by load_page, in the list of its level, and by     *)
(* hash unless a file in the way does not decompress.                      *)
(***************************************************************************)
KeptPageReadBack ==
    \A key \in DOMAIN kept :
        /\ LoadPage(key) = kept[key]
        /\ key \in ListPages(key[1])
        /\ key[1] = 0 => key \in LoadLeafByHash(kept[key])
        /\ LoadPageByHash(key, kept[key]) =
              {kept[key]} \cup {Failure : k \in {k \in DOMAIN files : Blocks(files[k])}}

(***************************************************************************)
(* What is at the backup path holds, whole, every page that was stored     *)
(* when its backup began and was left alone until the archive was written, *)
(* whatever was stored, deleted or torn beside it.  Only an empty archive  *)
(* can be half written.                                                    *)
(***************************************************************************)
BackupHoldsKeptPages ==
    saved # None =>
        /\ ~saved.whole => saved.entries = Nothing
        /\ \A key \in DOMAIN saved.promised :
             /\ key \in DOMAIN saved.entries
             /\ saved.entries[key].kind = "page"
             /\ saved.entries[key].content = saved.promised[key]

(***************************************************************************)
(* After a restore, until something changes, the journal directory holds   *)
(* the files of the archive and no other.                                  *)
(***************************************************************************)
RestoredFilesExact == restored # None => directory /\ files = restored
=============================================================================
