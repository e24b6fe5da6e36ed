---------------------------- MODULE TimeManager ----------------------------
(***************************************************************************)
(* TimeHierarchyManager (src/core/time_manager.rs): add_leaf, the          *)
(* finalization of a page and the rollup cascade into the parent levels,   *)
(* over a storage backend (src/storage).                                   *)
(*                                                                         *)
(* A call of add_leaf is a sequence of steps; a step is the code between   *)
(* two places where another task, a storage error or a crash can get in    *)
(* between: a lock of active_pages released, or a page written.  The       *)
(* recursion of perform_rollup is a stack of frames.                       *)
(***************************************************************************)
EXTENDS Pages

CONSTANTS
    Appenders,         \* tasks inside add_leaf; Journal::append_leaf lets in
                       \* one at a time (last_leaf_hash mutex)
    Times,             \* timestamps leaves may carry
    Payloads,          \* objects leaves may be about, or None
    Lateness,          \* how far a leaf may lag behind the newest one
    OpLag,             \* how far operation_time may be from the leaf's time;
                       \* 0 is Journal::append_leaf, which passes the same
    MaxLeaves,         \* bound: calls of add_leaf
    MaxStoreFailures,  \* bound: calls of the storage that fail
    MaxRestarts        \* bound: restarts of the process

ASSUME WorkloadAssumption ==
    /\ Times \subseteq Nat
    /\ Payloads \subseteq Objects \cup {None}
    /\ Lateness \in Nat /\ OpLag \in Nat
    /\ MaxLeaves \in Nat /\ MaxStoreFailures \in Nat /\ MaxRestarts \in Nat
    /\ None \notin Appenders

VARIABLES
    activePages,    \* active_pages: at most one page per level
    storage,        \* pages in the backend: at most one per (level, id)
    nextPageId,     \* page_id_gen, shared by all levels
    lastFinalized,  \* last_finalized_page_ids and _hashes, per level
    pc,             \* where each appender is in add_leaf
    call,           \* its arguments and what it remembers
    page,           \* the page it holds (a clone of its own)
    frames,         \* its perform_rollup activations, outermost first
    leafCount,      \* leaves created so far
    newest,         \* largest leaf timestamp so far
    accepted,       \* what add_leaf returned Ok for: leaf and page id
    storeFailures, restarts

managerVars == <<activePages, storage, nextPageId, lastFinalized>>
callVars    == <<pc, call, page, frames>>
worldVars   == <<leafCount, newest, accepted, storeFailures, restarts>>
vars        == <<managerVars, callVars, worldVars>>

----------------------------------------------------------------------------
(* Reading and writing the maps. *)

ActiveAt(level) == {p \in activePages : p.level = level}

Without(level) == {p \in activePages : p.level # level}

(* Mutant: entry().or_insert(), which keeps the page of the map. *)
WithActiveIfAbsent(p) ==
    IF ActiveAt(p.level) = {} THEN activePages \cup {p} ELSE activePages

WithActive(p) == Without(p.level) \cup {p}

Stored(level, id) == {p \in storage : p.level = level /\ p.id = id}

StoredWithHash(hash) == {p \in storage : Hash(p) = hash}

Reverted(id) == IF id + 1 = nextPageId THEN nextPageId - 1 ELSE nextPageId

TopFrame(a) == frames[a][Len(frames[a])]

Trigger(a) == call[a].leaf.ts

(* Mutant: as if every level had its own ids. *)
StoredWithLastId(level) == Stored(level, nextPageId - 1)

(* The stored page the level finalized last, if it is still there. *)
LastStored(level) ==
    IF lastFinalized[level] = None THEN {}
    ELSE Stored(level, lastFinalized[level].id)

(* Mutant: the leaf pages' tracking is read for every level. *)
PrevHashOfLeafPages(level) ==
    IF LastStored(0) = {} THEN None ELSE Hash(CHOOSE p \in LastStored(0) : TRUE)

(***************************************************************************)
(* prev_page_hash of a new page.  A leaf page takes the hash of the stored *)
(* page; a parent falls back on the remembered hash.                       *)
(***************************************************************************)
PrevHash(level) ==
    IF LastStored(level) # {} THEN Hash(CHOOSE p \in LastStored(level) : TRUE)
    ELSE IF level = 0 \/ lastFinalized[level] = None THEN None
    ELSE lastFinalized[level].hash

----------------------------------------------------------------------------
Init ==
    /\ activePages = {}
    /\ storage = {}
    /\ nextPageId = 0
    /\ lastFinalized = [l \in Levels |-> None]
    /\ pc = [a \in Appenders |-> "idle"]
    /\ call = [a \in Appenders |-> None]
    /\ page = [a \in Appenders |-> None]
    /\ frames = [a \in Appenders |-> <<>>]
    /\ leafCount = 0
    /\ newest = 0
    /\ accepted = {}
    /\ storeFailures = 0
    /\ restarts = 0

Goto(a, label) == pc' = [pc EXCEPT ![a] = label]

Hold(a, p) == page' = [page EXCEPT ![a] = p]

(* add_leaf returns, Ok or Err: the locals are gone. *)
Leave(a) ==
    /\ Goto(a, "idle")
    /\ call' = [call EXCEPT ![a] = None]
    /\ Hold(a, None)
    /\ frames' = [frames EXCEPT ![a] = <<>>]

ReturnOk(a) ==
    /\ Leave(a)
    /\ accepted' = accepted \cup
                     {[leaf |-> call[a].leaf, pageId |-> call[a].pageId]}

(***************************************************************************)
(* add_leaf is called with a new leaf.                                     *)
(***************************************************************************)
CallAddLeaf(a) ==
    /\ pc[a] = "idle"
    /\ leafCount < MaxLeaves
    /\ \E ts \in Times, op \in Times, obj \in Payloads :
         /\ newest <= ts + Lateness
         /\ op <= ts + OpLag /\ ts <= op + OpLag
         /\ call' = [call EXCEPT ![a] =
                        [leaf |-> [id |-> leafCount, ts |-> ts, obj |-> obj],
                         op |-> op, pageId |-> None, retaken |-> FALSE,
                         after |-> "done"]]
         /\ newest' = IF ts > newest THEN ts ELSE newest
    /\ leafCount' = leafCount + 1
    /\ Goto(a, "take")
    /\ UNCHANGED <<managerVars, page, frames, accepted, storeFailures, restarts>>

----------------------------------------------------------------------------
(* get_or_create_active_page_for_leaf *)

(* The caller of add_leaf is told the first page obtained. *)
Obtain(a, p) ==
    /\ Hold(a, p)
    /\ call' = [call EXCEPT ![a].pageId = IF @ = None THEN p.id ELSE @]
    /\ Goto(a, "have")

(* Mutant: only the space is tested. *)
SuitableInAnyWindow(p, ts) == HasSpace(p)

Suitable(p, ts) == InWindow(p, ts) /\ HasSpace(p)

(* The active leaf page fits: a clone of it is used, it stays in the map. *)
TakeActivePage(a) ==
    /\ pc[a] = "take"
    /\ \E p \in ActiveAt(0) : Suitable(p, Trigger(a)) /\ Obtain(a, p)
    /\ UNCHANGED <<managerVars, frames, worldVars>>

(* Mutant: the id is given back before the page is found to have leaves. *)
RetireAndRevert(a) ==
    /\ pc[a] = "take"
    /\ \E p \in ActiveAt(0) :
         /\ ~Suitable(p, Trigger(a))
         /\ activePages' = Without(0)
         /\ nextPageId' = Reverted(p.id)
         /\ Hold(a, p)
         /\ call' = [call EXCEPT ![a].after = "create"]
         /\ Goto(a, "store")
    /\ UNCHANGED <<storage, lastFinalized, frames, worldVars>>

(* It does not fit: out of the map, then finalize_and_rollup_page. *)
RetireActivePage(a) ==
    /\ pc[a] = "take"
    /\ \E p \in ActiveAt(0) :
         /\ ~Suitable(p, Trigger(a))
         /\ activePages' = Without(0)
         /\ IF IsContentEmpty(p)
            THEN /\ nextPageId' = Reverted(p.id)
                 /\ Goto(a, "create")
                 /\ UNCHANGED <<call, page>>
            ELSE /\ Hold(a, p)
                 /\ call' = [call EXCEPT ![a].after = "create"]
                 /\ Goto(a, "store")
                 /\ UNCHANGED nextPageId
    /\ UNCHANGED <<storage, lastFinalized, frames, worldVars>>

FindNoActivePage(a) ==
    /\ pc[a] = "take"
    /\ ActiveAt(0) = {}
    /\ Goto(a, "create")
    /\ UNCHANGED <<managerVars, call, page, frames, worldVars>>

(* The new page is not in the map until the leaf has been added to it. *)
CreatePage(a) ==
    /\ pc[a] = "create"
    /\ Obtain(a, NewPage(nextPageId, 0, PrevHash(0), WindowStart(0, Trigger(a))))
    /\ nextPageId' = nextPageId + 1
    /\ UNCHANGED <<activePages, storage, lastFinalized, frames, worldVars>>

----------------------------------------------------------------------------
(* add_leaf, with a page in hand *)

MustPreFinalize(a) ==
    /\ ~call[a].retaken
    /\ FullOrOverAge(page[a], call[a].op)
    /\ call[a].op > Trigger(a)
    /\ ~IsContentEmpty(page[a])

(* Mutant: the leaf goes into the page that is about to be finalized. *)
PreFinalizeWithLeaf(a) ==
    /\ pc[a] = "have"
    /\ MustPreFinalize(a)
    /\ Hold(a, AddLeaf(page[a], call[a].leaf))
    /\ call' = [call EXCEPT ![a].after = "retake"]
    /\ Goto(a, "store")
    /\ UNCHANGED <<managerVars, frames, worldVars>>

PreFinalize(a) ==
    /\ pc[a] = "have"
    /\ MustPreFinalize(a)
    /\ call' = [call EXCEPT ![a].after = "retake"]
    /\ Goto(a, "store")
    /\ UNCHANGED <<managerVars, page, frames, worldVars>>

AppendLeaf(a) ==
    /\ pc[a] = "have"
    /\ ~MustPreFinalize(a)
    /\ LET grown == AddLeaf(page[a], call[a].leaf)
       IN /\ Hold(a, grown)
          /\ Goto(a, IF FullOrOverAge(grown, call[a].op)
                        \/ OutsideWindow(grown, Trigger(a))
                     THEN "store" ELSE "insert")
    /\ call' = [call EXCEPT ![a].after = "done"]
    /\ UNCHANGED <<managerVars, frames, worldVars>>

KeepActivePage(a) ==
    /\ pc[a] = "insert"
    /\ activePages' = WithActive(page[a])
    /\ ReturnOk(a)
    /\ UNCHANGED <<storage, nextPageId, lastFinalized, leafCount, newest,
                   storeFailures, restarts>>

----------------------------------------------------------------------------
(* Finalizing the page in hand, at any level *)

StorePage(a) ==
    /\ pc[a] = "store"
    /\ storage' = (storage \ Stored(page[a].level, page[a].id)) \cup {page[a]}
    /\ Goto(a, "track")
    /\ UNCHANGED <<activePages, nextPageId, lastFinalized, call, page, frames,
                   worldVars>>

(***************************************************************************)
(* last_finalized_page_* are updated, and perform_rollup is called.  Only  *)
(* add_leaf itself removes the page from active_pages here; the others did *)
(* it before storing.                                                      *)
(***************************************************************************)
TrackFinalized(a) ==
    /\ pc[a] = "track"
    /\ lastFinalized' = [lastFinalized EXCEPT ![page[a].level] =
                           [id |-> page[a].id, hash |-> Hash(page[a])]]
    /\ activePages' = IF frames[a] = <<>> /\ call[a].after # "create"
                      THEN Without(0) ELSE activePages
    /\ frames' = [frames EXCEPT ![a] =
                    Append(@, [level |-> page[a].level, hash |-> Hash(page[a]),
                               child |-> None, resume |-> "return"])]
    /\ Hold(a, None)
    /\ Goto(a, "load")
    /\ UNCHANGED <<storage, nextPageId, call, worldVars>>

----------------------------------------------------------------------------
(* perform_rollup, for the top frame *)

SetTop(a, field, value) ==
    frames' = [frames EXCEPT ![a][Len(frames[a])][field] = value]

(* Mutant: the level is not advanced. *)
SameLevel(a) == TopFrame(a).level

ParentLevel(a) == TopFrame(a).level + 1

(* The child is read back by its hash, also when there is no parent level. *)
LoadChild(a) ==
    /\ pc[a] = "load"
    /\ \E child \in StoredWithHash(TopFrame(a).hash) :
         IF TopFrame(a).level = Top
         THEN Goto(a, "return") /\ UNCHANGED frames
         ELSE Goto(a, "stale") /\ SetTop(a, "child", child)
    /\ UNCHANGED <<managerVars, call, page, worldVars>>

ChildMissing(a) ==
    /\ pc[a] = "load"
    /\ StoredWithHash(TopFrame(a).hash) = {}
    /\ Leave(a)
    /\ UNCHANGED <<managerVars, worldVars>>

(* The active parent ended before the trigger: finalize it first. *)
RetireStaleParent(a) ==
    /\ pc[a] = "stale"
    /\ \E p \in ActiveAt(ParentLevel(a)) :
         /\ Trigger(a) >= EndTime(p)
         /\ activePages' = Without(p.level)
         /\ IF IsContentEmpty(p)
            THEN Goto(a, "parent") /\ UNCHANGED <<page, frames>>
            ELSE Goto(a, "store") /\ Hold(a, p) /\ SetTop(a, "resume", "parent")
    /\ UNCHANGED <<storage, nextPageId, lastFinalized, call, worldVars>>

ParentNotStale(a) ==
    /\ pc[a] = "stale"
    /\ \A p \in ActiveAt(ParentLevel(a)) : Trigger(a) < EndTime(p)
    /\ Goto(a, "parent")
    /\ UNCHANGED <<managerVars, call, page, frames, worldVars>>

(***************************************************************************)
(* get_or_create_active_parent_page, followed by the merge of the child    *)
(* into the clone obtained: the active page, the stored page finalized     *)
(* last if it covers the trigger and has space, or a new page.             *)
(***************************************************************************)
MergeInto(a, parent) ==
    /\ Hold(a, RollInto(parent, TopFrame(a).child))
    /\ Goto(a, "settle")

SuitableActive(a) ==
    {p \in ActiveAt(ParentLevel(a)) : Suitable(p, Trigger(a))}

(* Mutants: a stored page of another window, or a full one, is reopened. *)
ReopenableInAnyWindow(a) == {p \in LastStored(ParentLevel(a)) : HasSpace(p)}

ReopenableWhenFull(a) ==
    {p \in LastStored(ParentLevel(a)) : p.start = WindowStart(p.level, Trigger(a))}

Reopenable(a) ==
    {p \in LastStored(ParentLevel(a)) :
        p.start = WindowStart(p.level, Trigger(a)) /\ HasSpace(p)}

ReuseParent(a) ==
    /\ pc[a] = "parent"
    /\ \E p \in SuitableActive(a) : MergeInto(a, p)
    /\ UNCHANGED <<managerVars, call, frames, worldVars>>

ReopenParent(a) ==
    /\ pc[a] = "parent"
    /\ SuitableActive(a) = {}
    /\ \E p \in Reopenable(a) : MergeInto(a, p)
    /\ UNCHANGED <<managerVars, call, frames, worldVars>>

CreateParent(a) ==
    /\ pc[a] = "parent"
    /\ SuitableActive(a) = {} /\ Reopenable(a) = {}
    /\ MergeInto(a, NewPage(nextPageId, ParentLevel(a), PrevHash(ParentLevel(a)),
                            WindowStart(ParentLevel(a), Trigger(a))))
    /\ nextPageId' = nextPageId + 1
    /\ UNCHANGED <<activePages, storage, lastFinalized, call, frames, worldVars>>

(* Nothing was merged and the age is up: the page is dropped. *)
DiscardParent(a) ==
    /\ pc[a] = "settle"
    /\ IsContentEmpty(page[a]) /\ ParentOverAge(page[a], Trigger(a))
    /\ activePages' = Without(page[a].level)
    /\ nextPageId' = Reverted(page[a].id)
    /\ Hold(a, None)
    /\ Goto(a, "return")
    /\ UNCHANGED <<storage, lastFinalized, call, frames, worldVars>>

ParentDone(a) ==
    /\ ~IsContentEmpty(page[a])
    /\ ~HasSpace(page[a]) \/ ParentOverAge(page[a], Trigger(a))

FinalizeParent(a) ==
    /\ pc[a] = "settle"
    /\ ParentDone(a)
    /\ activePages' = Without(page[a].level)
    /\ SetTop(a, "resume", "return")
    /\ Goto(a, "store")
    /\ UNCHANGED <<storage, nextPageId, lastFinalized, call, page, worldVars>>

KeepParent(a) ==
    /\ pc[a] = "settle"
    /\ ~ParentDone(a)
    /\ ~(IsContentEmpty(page[a]) /\ ParentOverAge(page[a], Trigger(a)))
    /\ activePages' = WithActive(page[a])
    /\ Hold(a, None)
    /\ Goto(a, "return")
    /\ UNCHANGED <<storage, nextPageId, lastFinalized, call, frames, worldVars>>

(* Mutant: the activation that returns is not popped. *)
ReturnInPlace(a) ==
    /\ pc[a] = "return"
    /\ Len(frames[a]) > 1
    /\ Goto(a, frames[a][Len(frames[a]) - 1].resume)
    /\ UNCHANGED <<managerVars, call, page, frames, worldVars>>

(***************************************************************************)
(* perform_rollup returns Ok: to the activation that called it, or to      *)
(* whoever finalized the leaf page.                                        *)
(***************************************************************************)
ReturnToParent(a) ==
    /\ pc[a] = "return"
    /\ Len(frames[a]) > 1
    /\ frames' = [frames EXCEPT ![a] = SubSeq(@, 1, Len(@) - 1)]
    /\ Goto(a, frames[a][Len(frames[a]) - 1].resume)
    /\ UNCHANGED <<managerVars, call, page, worldVars>>

ReturnToAddLeaf(a) ==
    /\ pc[a] = "return"
    /\ Len(frames[a]) = 1
    /\ \/ /\ call[a].after = "done"
          /\ ReturnOk(a)
       \/ /\ call[a].after = "create"
          /\ Goto(a, "create")
          /\ frames' = [frames EXCEPT ![a] = <<>>]
          /\ UNCHANGED <<call, page, accepted>>
       \/ /\ call[a].after = "retake"
          /\ Goto(a, "take")
          /\ frames' = [frames EXCEPT ![a] = <<>>]
          /\ call' = [call EXCEPT ![a].retaken = TRUE]
          /\ UNCHANGED <<page, accepted>>
    /\ UNCHANGED <<managerVars, leafCount, newest, storeFailures, restarts>>

----------------------------------------------------------------------------
(* store_page, load_page_by_hash, or load_page of the last finalized page. *)
CallsStorage(a) ==
    \/ pc[a] \in {"store", "load"}
    \/ pc[a] = "create" /\ lastFinalized[0] # None
    \/ /\ pc[a] = "parent" /\ SuitableActive(a) = {}
       /\ lastFinalized[ParentLevel(a)] # None

(* The storage returns an error: it goes up through every caller. *)
StorageFails(a) ==
    /\ CallsStorage(a)
    /\ storeFailures < MaxStoreFailures
    /\ storeFailures' = storeFailures + 1
    /\ Leave(a)
    /\ UNCHANGED <<managerVars, leafCount, newest, accepted, restarts>>

(***************************************************************************)
(* The process stops and TimeHierarchyManager::new starts over on the same *)
(* storage: no active page, no last finalized page, page ids from 0.       *)
(***************************************************************************)
Restart ==
    /\ restarts < MaxRestarts
    /\ restarts' = restarts + 1
    /\ activePages' = {}
    /\ nextPageId' = 0
    /\ lastFinalized' = [l \in Levels |-> None]
    /\ pc' = [a \in Appenders |-> "idle"]
    /\ call' = [a \in Appenders |-> None]
    /\ page' = [a \in Appenders |-> None]
    /\ frames' = [a \in Appenders |-> <<>>]
    /\ UNCHANGED <<storage, leafCount, newest, accepted, storeFailures>>

Step(a) ==
    \/ TakeActivePage(a) \/ RetireActivePage(a) \/ FindNoActivePage(a)
    \/ CreatePage(a) \/ PreFinalize(a) \/ AppendLeaf(a) \/ KeepActivePage(a)
    \/ StorePage(a) \/ StorageFails(a) \/ TrackFinalized(a)
    \/ LoadChild(a) \/ ChildMissing(a)
    \/ RetireStaleParent(a) \/ ParentNotStale(a)
    \/ ReuseParent(a) \/ ReopenParent(a) \/ CreateParent(a)
    \/ DiscardParent(a) \/ FinalizeParent(a) \/ KeepParent(a)
    \/ ReturnToParent(a) \/ ReturnToAddLeaf(a)

Next ==
    \/ \E a \in Appenders : CallAddLeaf(a) \/ Step(a)
    \/ Restart

Spec == Init /\ [][Next]_vars

(* The runtime polls a task that can go on. *)
FairSpec == Spec /\ \A a \in Appenders : WF_vars(Step(a))
=============================================================================
