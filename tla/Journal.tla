------------------------------ MODULE Journal ------------------------------
(***************************************************************************)
(* The Journal of src/api/async_api.rs: opened on the configuration in     *)
(* force, it chains the leaves it appends through last_leaf_hash, and      *)
(* reads pages back while appends go on.                                   *)
(*                                                                         *)
(* Journal::append_leaf holds the mutex of last_leaf_hash during the whole *)
(* of TimeHierarchyManager::add_leaf.  Leaf ids stand for leaf hashes.     *)
(*                                                                         *)
(* The Journal of src/api/sync_api.rs cannot append: it reads the pages    *)
(* another journal has written to the same files.                          *)
(***************************************************************************)
EXTENDS TimeManagerProps, Startup

CONSTANTS
    Parents,        \* hashes a caller may name as the parent
    PageIds,        \* ids get_page may ask for
    MaxResets,      \* bound: calls of reset_last_leaf_hash
    MaxReads        \* bound: calls of get_page

ASSUME JournalAssumption ==
    /\ Parents \cap Nat = {} /\ None \notin Parents
    /\ PageIds \subseteq Nat
    /\ MaxResets \in Nat /\ MaxReads \in Nat

VARIABLES
    opened,         \* Journal::new has succeeded
    lastLeafHash,   \* last_leaf_hash
    links,          \* for each leaf made: its parent, whether the journal
                    \* chose it, and the number of resets before
    resets,
    read,           \* the call of get_page under way
    reads, answer   \* calls of get_page, and what the last one returned

journalVars == <<opened, lastLeafHash, links, resets>>
readVars    == <<read, reads, answer>>
jvars       == <<vars, startupVars, journalVars, readVars>>

JInit ==
    /\ Init
    /\ StartupInit
    /\ opened = FALSE
    /\ lastLeafHash = None
    /\ links = <<>>
    /\ resets = 0
    /\ read = None
    /\ reads = 0
    /\ answer = None

(* Nobody holds the mutex of last_leaf_hash. *)
Unlocked == \A a \in Appenders : pc[a] = "idle"

----------------------------------------------------------------------------
(* The levels of a configuration are those this instance is about. *)
Describes(config) ==
    /\ Len(config.levels) = Top + 1
    /\ \A l \in Levels :
         LET level == config.levels[l + 1]
         IN /\ level.duration = Duration[l] /\ level.items = MaxItems[l]
            /\ level.age = MaxAge[l] /\ level.content = ContentType[l]

(* create_storage_backend and FileStorage::new, which makes directories. *)
BackendCreated(storageConf) ==
    storageConf.kind = "File" =>
        storageConf.path \in {"directory", "absent", "orphan"}

OpenJournal ==
    /\ ~opened
    /\ \E i \in DOMAIN conf :
          Describes(conf[i]) /\ BackendCreated(conf[i].storage)
    /\ opened' = TRUE
    /\ UNCHANGED <<vars, startupVars, lastLeafHash, links, resets, readVars>>

Initialise ==
    /\ InitLibrary
    /\ UNCHANGED <<vars, journalVars, readVars>>

(* Mutant: last_leaf_hash is read, and unlocked before the leaf is added. *)
CallAppendUnlocked(a) ==
    /\ opened
    /\ CallAddLeaf(a)
    /\ \E named \in Parents \cup {None} :
         links' = Append(links, [parent |-> OrElse(named, lastLeafHash),
                                 chosen |-> named = None, resets |-> resets])
    /\ read' = IF read = None THEN None ELSE [read EXCEPT !.quiet = FALSE]
    /\ UNCHANGED <<startupVars, opened, lastLeafHash, resets, reads, answer>>

(* append_leaf takes the lock, and makes the leaf. *)
CallAppend(a) ==
    /\ opened /\ Unlocked
    /\ CallAddLeaf(a)
    /\ \E named \in Parents \cup {None} :
         links' = Append(links,
                     [parent |-> IF named = None THEN lastLeafHash ELSE named,
                      chosen |-> named = None, resets |-> resets])
    /\ read' = IF read = None THEN None ELSE [read EXCEPT !.quiet = FALSE]
    /\ UNCHANGED <<startupVars, opened, lastLeafHash, resets, reads, answer>>

(* Mutant: remembered also when add_leaf failed. *)
LastHashOfCall(a) ==
    IF pc'[a] = "idle" THEN call[a].leaf.id ELSE lastLeafHash

(* The hash is remembered when add_leaf has returned Ok. *)
LastHashAfter(a) ==
    IF accepted' # accepted THEN call[a].leaf.id ELSE lastLeafHash

Proceed(a) ==
    /\ Step(a)
    /\ lastLeafHash' = LastHashAfter(a)
    /\ UNCHANGED <<startupVars, opened, links, resets, readVars>>

ResetLastLeafHash ==
    /\ opened /\ Unlocked
    /\ resets < MaxResets
    /\ resets' = resets + 1
    /\ lastLeafHash' = None
    /\ UNCHANGED <<vars, startupVars, opened, links, readVars>>

----------------------------------------------------------------------------
(***************************************************************************)
(* get_page, beside the appends: the store first, then the active pages.   *)
(* The synchronous one stops at the store, and shares it only if it is one *)
(* of files.                                                               *)
(***************************************************************************)
ReadersAt(config) == IF config.storage.kind = "File" THEN {"async", "sync"} ELSE {"async"}

LeavesIn(pages) == UNION {LeavesOf(p) : p \in pages}

AcceptedIn(level, id) ==
    IF level > 0 THEN {} ELSE {acc.leaf : acc \in {x \in accepted : x.pageId = id}}

(* What a reader may expect of the leaves acknowledged so far. *)
Visible(api, leaves) == IF api = "sync" THEN leaves \cap StoredLeaves ELSE leaves

CallGetPage ==
    /\ opened
    /\ read = None
    /\ reads < MaxReads
    /\ \E i \in DOMAIN conf : \E api \in ReadersAt(conf[i]), level \in Levels, id \in PageIds :
          read' = [api |-> api, level |-> level, id |-> id, stage |-> "store",
                   owed |-> Visible(api, AcceptedIn(level, id)), quiet |-> Unlocked]
    /\ reads' = reads + 1
    /\ answer' = None
    /\ UNCHANGED <<vars, startupVars, journalVars>>

Answered(page_) ==
    /\ answer' = [page |-> page_, owed |-> read.owed, quiet |-> read.quiet]
    /\ read' = None
    /\ UNCHANGED <<vars, startupVars, journalVars, reads>>

GetStoredPage ==
    /\ read # None /\ read.stage = "store"
    /\ \E p \in Stored(read.level, read.id) : Answered(p)

SyncPageNotFound ==
    /\ read # None /\ read.stage = "store" /\ read.api = "sync"
    /\ Stored(read.level, read.id) = {}
    /\ Answered(None)

NotStored ==
    /\ read # None /\ read.stage = "store" /\ read.api = "async"
    /\ Stored(read.level, read.id) = {}
    /\ read' = [read EXCEPT !.stage = "active"]
    /\ UNCHANGED <<vars, startupVars, journalVars, reads, answer>>

GetActivePage ==
    /\ read # None /\ read.stage = "active"
    /\ \E p \in ActiveAt(read.level) : p.id = read.id /\ Answered(p)

(* PageNotFound, also for a page that was retired since the store was read. *)
PageNotFound ==
    /\ read # None /\ read.stage = "active"
    /\ \A p \in ActiveAt(read.level) : p.id # read.id
    /\ Answered(None)

JNext ==
    \/ Initialise \/ OpenJournal \/ ResetLastLeafHash
    \/ \E a \in Appenders : CallAppend(a) \/ Proceed(a)
    \/ CallGetPage \/ GetStoredPage \/ NotStored \/ GetActivePage \/ PageNotFound
    \/ SyncPageNotFound

JSpec == JInit /\ [][JNext]_jvars

----------------------------------------------------------------------------
(* The log behind the pages. *)

Log == INSTANCE LeafLog WITH
    Leaves       <- [id : 0 .. MaxLeaves - 1, ts : Times, obj : Payloads],
    durable      <- StoredLeaves,
    volatile     <- LeavesIn(activePages \cup InHand) \ StoredLeaves,
    acknowledged <- {acc.leaf : acc \in accepted},
    faults       <- storeFailures

(***************************************************************************)
(* The journal is a write-behind log: a leaf moves from memory to the      *)
(* store and never back, it is acknowledged only where the log holds it,   *)
(* and nothing but a failed write loses a leaf, one not yet stored.        *)
(***************************************************************************)
ImplementsLog == Log!LogSpec

(***************************************************************************)
(* The parent the journal gave an acknowledged leaf is the leaf            *)
(* acknowledged just before it since the last reset: no two of them share  *)
(* a parent, and a leaf whose append failed is nobody's parent, stored or  *)
(* not.                                                                    *)
(***************************************************************************)
AckedLeavesChain ==
    LET Acked == {acc.leaf.id : acc \in accepted}
        Before(id) == {x \in Acked : x < id /\ links[x + 1].resets = links[id + 1].resets}
    IN \A id \in Acked :
         links[id + 1].chosen =>
            IF Before(id) = {} THEN links[id + 1].parent = None
            ELSE /\ links[id + 1].parent \in Before(id)
                 /\ \A x \in Before(id) : x <= links[id + 1].parent

(***************************************************************************)
(* A leaf page got from the journal holds every leaf acknowledged in it    *)
(* before the call, whether it was found in the store or in memory; and    *)
(* such a page is found unless an append ran meanwhile or a write failed.  *)
(* A synchronous journal is only due those in the store by then.           *)
(***************************************************************************)
GotPageHoldsItsLeaves ==
    (answer # None /\ answer.owed # {}) =>
        IF answer.page = None THEN ~answer.quiet \/ storeFailures > 0
        ELSE answer.owed \subseteq LeavesOf(answer.page)
=============================================================================
