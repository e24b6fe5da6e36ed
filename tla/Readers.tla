------------------------------ MODULE Readers ------------------------------
(***************************************************************************)
(* Reads of the journal while leaves are being added: the queries of       *)
(* QueryEngine (src/query/engine.rs) and SnapshotManager::create_snapshot  *)
(* (src/core/snapshot_manager.rs), over TimeManager.                       *)
(*                                                                         *)
(* A reader holds no lock across an await: it lists the store, asks the    *)
(* manager for its active page, and loads one page after the other.  Each  *)
(* of these is a step, and add_leaf may go on in between.                  *)
(*                                                                         *)
(* A query is made through the asynchronous Journal, whose manager the     *)
(* leaves are added to, or through a synchronous one: a journal on the     *)
(* same files with a manager of its own, which never has an active page.   *)
(***************************************************************************)
EXTENDS TimeManager, Merkle, SequencesExt

CONSTANTS
    Queries,          \* the calls a reader may make
    ContainerOf,      \* [Objects -> container]: whose field the object is
    DirectoryOrder,   \* TRUE for FileStorage: a listing is in any order;
                      \* FALSE for MemoryStorage: by page id
    MaxQueries,       \* bound: calls
    MaxFaults         \* bound: failing reads, pages deleted by another
                      \* task, and restarts together

(* The queries of each Journal: api/sync_api.rs, api/async_api.rs. *)
SyncCalls == {"proof", "state", "report", "integrity"}

AsyncCalls == SyncCalls \cup {"snapshot"}

ASSUME ReaderAssumption ==
    /\ DOMAIN ContainerOf = Objects
    /\ DirectoryOrder \in BOOLEAN
    /\ MaxQueries \in Nat /\ MaxFaults \in Nat
    /\ \A q \in Queries :
          \/ q.api = "async" /\ q.kind \in AsyncCalls
          \/ q.api = "sync" /\ q.kind \in SyncCalls /\ DirectoryOrder
    /\ \A q \in Queries :
          /\ q.kind = "integrity" => q.level \in Nat
          /\ q.kind \in {"state", "report"} => q.from \in Int /\ q.to \in Int

VARIABLES
    reader,         \* the call going on, or the last one with its answer
    snapshots,      \* snapshot pages on the dedicated level
    nextSnapshotId, \* NEXT_PAGE_ID, a counter of the process
    queries, readFailures,
    deleted         \* pages deleted from the store

readerVars == <<reader, snapshots, nextSnapshotId, queries, readFailures, deleted>>
dvars      == <<vars, readerVars>>

----------------------------------------------------------------------------
(* What a reader gets to see of a page. *)

LeavesIn(pages) == UNION {{p.leaves[i] : i \in DOMAIN p.leaves} : p \in pages}

(* Mutant: all of them, in the time asked for or not. *)
UpToEnd(leaves, to) == leaves

(* The leaves before the first one that is too late. *)
UpTo(leaves, to) ==
    LET late == SelectInSeq(leaves, LAMBDA leaf : leaf.ts > to)
    IN IF late = 0 THEN leaves ELSE SubSeq(leaves, 1, late - 1)

Concerns(leaf, container) == leaf.obj # None /\ ContainerOf[leaf.obj] = container

(* The leaves of a list that are to be kept, in its order. *)
Only(leaves, keep) ==
    LET kept[n \in 0 .. Len(leaves)] ==
            IF n = 0 THEN <<>>
            ELSE IF leaves[n] \in keep THEN Append(kept[n - 1], leaves[n])
            ELSE kept[n - 1]
    IN kept[Len(leaves)]

Matches(leaves, q) ==
    Only(UpTo(leaves, q.to),
         {leaf \in ToSet(leaves) : leaf.ts >= q.from /\ Concerns(leaf, q.of)})

(* A stable sort by timestamp. *)
ByTime(leaves) ==
    LET Rank(i) == Cardinality({j \in DOMAIN leaves :
                        \/ leaves[j].ts < leaves[i].ts
                        \/ leaves[j].ts = leaves[i].ts /\ j <= i})
    IN [k \in DOMAIN leaves |-> leaves[CHOOSE i \in DOMAIN leaves : Rank(i) = k]]

(* JournalPageSummary; added tells the one made of the active page. *)
PageSummary(p, added) ==
    [id |-> p.id, level |-> p.level, start |-> p.start, added |-> added]

Listing(level) == {PageSummary(p, FALSE) : p \in {q \in storage : q.level = level}}

(* The active page as the manager behind the reader has it. *)
ActiveSeen(level) == IF reader.query.api = "sync" THEN {} ELSE ActiveAt(level)

ActiveSummary(level) == {PageSummary(p, TRUE) : p \in ActiveSeen(level)}

(***************************************************************************)
(* Which page is loaded next: proofs and integrity checks go by id, the    *)
(* others by start of the window, pages of one window as they were listed; *)
(* the active page was put at the end.                                     *)
(***************************************************************************)
Before(s, t, kind) ==
    IF kind \in {"proof", "integrity"}
    THEN s.id < t.id \/ (s.id = t.id /\ ~s.added /\ t.added)
    ELSE IF kind = "snapshot" THEN ~DirectoryOrder /\ s.id < t.id
    ELSE \/ s.start < t.start
         \/ s.start = t.start /\ ~s.added /\ t.added
         \/ s.start = t.start /\ s.added = t.added /\ ~DirectoryOrder /\ s.id < t.id

NextPages ==
    {s \in reader.todo : \A t \in reader.todo \ {s} : ~Before(t, s, reader.query.kind)}

----------------------------------------------------------------------------
(* Calls and answers. *)

DInit ==
    /\ Init
    /\ reader = None
    /\ snapshots = {}
    /\ nextSnapshotId = 0
    /\ queries = 0
    /\ readFailures = 0
    /\ deleted = {}

At(step, kinds) == reader # None /\ reader.at = step /\ reader.query.kind \in kinds

Becomes(r) == reader' = r

GoOn(step) == Becomes([reader EXCEPT !.at = step])

(* What a query is refused with; StorageError is that of a snapshot. *)
QueryErrors ==
    {"CoreError", "LeafNotFound", "LeafDataNotFound", "ContainerNotFound",
     "InvalidParameters"}

(* Ok(a) and Err(e). *)
Result(ok, is) == [ok |-> ok, is |-> is]

Answer(a) == Becomes([reader EXCEPT !.at = "done", !.answer = Result(TRUE, a)])

Refuse(e) == Becomes([reader EXCEPT !.at = "done", !.answer = Result(FALSE, e)])

OnlyReads == UNCHANGED <<vars, snapshots, nextSnapshotId, queries, readFailures, deleted>>

FirstStep(q) ==
    IF q.kind = "proof" THEN (IF q.hint = None THEN "active" ELSE "hint")
    ELSE "list"

(* Refused at once: a range that ends before it starts. *)
EmptyRange(q) ==
    /\ q.kind \in {"report", "integrity"}
    /\ q.from # None /\ q.to # None /\ q.from > q.to

(***************************************************************************)
(* The call.  seen is history: what the store held and what had been       *)
(* accepted when it began, and whether it was alone ever since.            *)
(***************************************************************************)
Ask ==
    /\ reader # None => reader.at = "done"
    /\ queries < MaxQueries
    /\ queries' = queries + 1
    /\ \E q \in Queries :
          Becomes(
            [query |-> q,
             at |-> IF EmptyRange(q) \/ (q.kind = "report" /\ q.limit = 0)
                    THEN "done" ELSE FirstStep(q),
             answer |-> IF EmptyRange(q) THEN Result(FALSE, "InvalidParameters")
                        ELSE Result(TRUE, <<>>),
             level |-> IF q.kind = "integrity" THEN q.level ELSE 0,
             todo |-> {}, held |-> None, pages |-> {}, leaves |-> <<>>,
             prev |-> None, valid |-> <<>>,
             seen |-> [pages |-> storage,
                       accepted |-> {r.leaf : r \in accepted},
                       alone |-> \A a \in Appenders : pc[a] = "idle"]])
    /\ UNCHANGED <<vars, snapshots, nextSnapshotId, readFailures, deleted>>

----------------------------------------------------------------------------
(* Listing the store and asking for the active page. *)

(* list_finalized_pages_summary; a snapshot takes pages that began in time. *)
List ==
    /\ reader # None /\ reader.at = "list"
    /\ LET q == reader.query
           listed == {s \in Listing(reader.level) :
                         q.kind = "snapshot" => s.start <= q.to}
       IN Becomes([reader EXCEPT
                     !.todo = @ \cup (IF q.kind = "proof"
                                      THEN {[s EXCEPT !.start = 0] : s \in listed}
                                      ELSE listed),
                     !.at = IF q.kind \in {"proof", "snapshot"} THEN "load" ELSE "active"])
    /\ OnlyReads

(* get_active_page: its summary is put at the end of the list. *)
ListActive ==
    /\ At("active", {"report", "integrity"})
    /\ Becomes([reader EXCEPT
                  !.todo = @ \cup ActiveSummary(reader.level),
                  !.at = IF reader.query.kind = "report" THEN "again" ELSE "load"])
    /\ OnlyReads

(* The second get_active_page of a report: the page leaves are taken from. *)
HoldActive ==
    /\ At("again", {"report"})
    /\ Becomes([reader EXCEPT
                  !.held = IF ActiveSeen(0) = {} THEN None
                           ELSE CHOOSE p \in ActiveSeen(0) : TRUE,
                  !.at = "load"])
    /\ OnlyReads

(* get_current_active_page_id *)
ActiveId ==
    /\ At("active", {"proof", "state"})
    /\ Becomes([reader EXCEPT
                  !.todo = @ \cup (IF reader.query.kind = "state" THEN {}
                                   ELSE {[id |-> p.id, level |-> 0, start |-> 0,
                                          added |-> FALSE] : p \in ActiveSeen(0)}),
                  !.held = IF ActiveSeen(0) = {} THEN None
                           ELSE (CHOOSE p \in ActiveSeen(0) : TRUE).id,
                  !.at = IF reader.query.kind = "state" THEN "again" ELSE "list"])
    /\ OnlyReads

(* The state is rebuilt from the store: the active page is looked up there. *)
FindActiveInStore ==
    /\ At("again", {"state"})
    /\ Becomes([reader EXCEPT
                  !.todo = @ \cup (IF reader.held = None THEN {}
                                   ELSE {PageSummary(p, TRUE) :
                                            p \in Stored(0, reader.held)}),
                  !.at = "load"])
    /\ OnlyReads

(* get_active_l0_leaves_up_to, after all levels have been read. *)
InTime(leaves) == Only(leaves, {leaf \in ToSet(leaves) : leaf.ts <= reader.query.to})

ActiveLeaves ==
    /\ At("active", {"snapshot"})
    /\ Becomes([reader EXCEPT
                  !.leaves = IF ActiveSeen(0) = {} THEN <<>>
                             ELSE InTime((CHOOSE p \in ActiveSeen(0) : TRUE).leaves),
                  !.at = "store"])
    /\ OnlyReads

----------------------------------------------------------------------------
(* Inclusion proofs. *)

PositionIn(p, id) == SelectInSeq(p.leaves, LAMBDA leaf : leaf.id = id)

LeafHashes(p) == [i \in DOMAIN p.leaves |-> Digest(p.leaves[i].id)]

Proof(p, id) ==
    [page |-> p.id, leaf |-> id, proof |-> MerkleProof(LeafHashes(p), PositionIn(p, id)),
     root |-> MerkleRoot(LeafHashes(p))]

TryHint ==
    /\ At("hint", {"proof"})
    /\ LET q == reader.query
           holding == {p \in Stored(q.hint.level, q.hint.id) : PositionIn(p, q.leaf) # 0}
       IN \/ \E p \in holding : Answer(Proof(p, q.leaf))
          \/ holding = {} /\ GoOn("active")
    /\ OnlyReads

(***************************************************************************)
(* The page is loaded, and if it has the leaf the leaf itself is looked up *)
(* in the store once more (load_leaf_by_hash).                             *)
(***************************************************************************)
LoadForProof ==
    /\ At("load", {"proof"})
    /\ \E s \in NextPages :
          LET holding == {p \in Stored(0, s.id) : PositionIn(p, reader.query.leaf) # 0}
          IN \/ \E p \in holding : Becomes([reader EXCEPT !.held = p, !.at = "leaf"])
             \/ holding = {} /\ Becomes([reader EXCEPT !.todo = @ \ {s}])
    /\ OnlyReads

LoadLeaf ==
    /\ At("leaf", {"proof"})
    /\ IF \E leaf \in LeavesIn(storage) : leaf.id = reader.query.leaf
       THEN Answer(Proof(reader.held, reader.query.leaf))
       ELSE Refuse("LeafDataNotFound")
    /\ OnlyReads

NoProof ==
    /\ At("load", {"proof"})
    /\ reader.todo = {}
    /\ Refuse("LeafNotFound")
    /\ OnlyReads

----------------------------------------------------------------------------
(* The state of a container, and reports of its changes. *)

Window(s) == [level |-> s.level, start |-> s.start]

(* Pages are in order of their start: the first that is too late ends it. *)
LoadForState ==
    /\ At("load", {"state"})
    /\ \E s \in NextPages :
          /\ s.start <= reader.query.to
          /\ LET found == FlattenSeq(SetToSeq({Matches(p.leaves, reader.query) :
                                                   p \in Stored(0, s.id)}))
             IN Becomes([reader EXCEPT !.todo = @ \ {s}, !.leaves = @ \o found])
    /\ OnlyReads

(* Applying the deltas one after the other: the last write of a field wins. *)
StateRebuilt ==
    /\ At("load", {"state"})
    /\ \A s \in reader.todo : s.start > reader.query.to
    /\ IF reader.leaves = <<>> THEN Refuse("ContainerNotFound")
       ELSE Answer(LeafPatches(reader.leaves))
    /\ OnlyReads

Enough(q) == q.limit # None /\ Len(reader.leaves) >= q.offset + q.limit

Overlaps(s, q) == EndTime(Window(s)) >= q.from /\ s.start <= q.to

(* Mutant: the page read first is the one that counts. *)
ActiveFirst(s) ==
    IF reader.held # None /\ reader.held.id = s.id THEN {reader.held} ELSE Stored(0, s.id)

(* From the store; if it is not there, the active page read before. *)
StoredOrActive(s) ==
    IF Stored(0, s.id) # {} THEN Stored(0, s.id)
    ELSE IF reader.held # None /\ reader.held.id = s.id THEN {reader.held} ELSE {}

LoadForReport ==
    /\ At("load", {"report"})
    /\ ~Enough(reader.query)
    /\ \E s \in NextPages :
          LET found == IF Overlaps(s, reader.query)
                       THEN {Matches(p.leaves, reader.query) : p \in StoredOrActive(s)}
                       ELSE {}
          IN Becomes([reader EXCEPT !.todo = @ \ {s},
                                    !.leaves = @ \o FlattenSeq(SetToSeq(found))])
    /\ OnlyReads

Least(m, n) == IF m < n THEN m ELSE n

(* Mutant: one too many is skipped. *)
SliceAfter(leaves, q) ==
    IF q.limit = None THEN leaves
    ELSE SubSeq(leaves, q.offset + 2, Least(Len(leaves), q.offset + q.limit))

(* The slice that was asked for, of what was found in this order. *)
Slice(leaves, q) ==
    IF q.limit = None THEN leaves
    ELSE SubSeq(leaves, q.offset + 1, Least(Len(leaves), q.offset + q.limit))

ReportDone ==
    /\ At("load", {"report"})
    /\ reader.todo = {} \/ Enough(reader.query)
    /\ IF reader.leaves = <<>> THEN Refuse("ContainerNotFound")
       ELSE Answer(ByTime(Slice(reader.leaves, reader.query)))
    /\ OnlyReads

----------------------------------------------------------------------------
(* The integrity of the chain of a level. *)

InRange(id, q) == (q.from = None \/ id >= q.from) /\ (q.to = None \/ id <= q.to)

(* page_hash of an active page: of leaf pages that of the empty page. *)
ActiveHash(p) ==
    IF p.level = 0 THEN Hash(NewPage(p.id, 0, p.prev, p.start)) ELSE Hash(p)

PageIntegrityReport(s, valid) == [page |-> s.id, valid |-> valid]

Reported(s, valid, prev) ==
    Becomes([reader EXCEPT !.todo = @ \ {s}, !.at = "load", !.held = None,
                           !.valid = Append(@, PageIntegrityReport(s, valid)),
                           !.prev = prev])

(* Mutant: a page missing before is not noticed. *)
FollowsIfLinked(p) == reader.prev = None \/ p.prev = None \/ p.prev = reader.prev

FollowsPrevious(p) == reader.prev = None \/ p.prev = reader.prev

(* The page is loaded, its hashes are recomputed and its link is compared. *)
LoadForIntegrity ==
    /\ At("load", {"integrity"})
    /\ \E s \in NextPages :
          IF ~InRange(s.id, reader.query)
          THEN Becomes([reader EXCEPT !.todo = @ \ {s}])
          ELSE LET found == Stored(reader.level, s.id)
               IN \/ \E p \in found : Reported(s, FollowsPrevious(p), Hash(p))
                  \/ found = {} /\ Becomes([reader EXCEPT !.held = s, !.at = "peek"])
    /\ OnlyReads

(* Not in the store: get_active_page_by_id. *)
PeekActive ==
    /\ At("peek", {"integrity"})
    /\ LET active == {p \in ActiveSeen(reader.level) : p.id = reader.held.id}
       IN \/ \E p \in active : Reported(reader.held, TRUE, ActiveHash(p))
          \/ active = {} /\ Reported(reader.held, FALSE, None)
    /\ OnlyReads

IntegrityDone ==
    /\ At("load", {"integrity"})
    /\ reader.todo = {}
    /\ Answer(reader.valid)
    /\ OnlyReads

----------------------------------------------------------------------------
(* Snapshots. *)

LoadForSnapshot ==
    /\ At("load", {"snapshot"})
    /\ \E s \in NextPages :
          Becomes([reader EXCEPT !.todo = @ \ {s},
                                 !.pages = @ \cup Stored(reader.level, s.id)])
    /\ OnlyReads

LevelRead ==
    /\ At("load", {"snapshot"})
    /\ reader.todo = {}
    /\ IF reader.level < Top
       THEN Becomes([reader EXCEPT !.level = @ + 1, !.at = "list"])
       ELSE GoOn("active")
    /\ OnlyReads

Belongs(o, container) == ContainerOf[o] = container

LeafBefore(l, m) == l.ts < m.ts \/ (l.ts = m.ts /\ l.id < m.id)

(* The leaves of a container up to the time asked for, in order. *)
SnapshotLeaves(container) ==
    SetToSortSeq({l \in LeavesIn(reader.pages) \cup ToSet(reader.leaves) :
                    l.ts <= reader.query.to /\ Concerns(l, container)}, LeafBefore)

(* Pages that hold patches and nothing else, and ended in time. *)
PatchPages == {p \in reader.pages : UsesNetPatches(p.level)
                                     /\ EndTime(p) <= reader.query.to}

Containers ==
    IF reader.query.of # None THEN reader.query.of
    ELSE {ContainerOf[o] : o \in
            {l.obj : l \in {m \in LeavesIn(reader.pages) \cup ToSet(reader.leaves) :
                               m.obj # None /\ m.ts <= reader.query.to}}
            \cup UNION {DOMAIN p.patches : p \in PatchPages}}

(***************************************************************************)
(* The baseline of a container: the page of patches that ended last of     *)
(* those that have it, the finer level first among equals.                 *)
(***************************************************************************)
Baselines(container) ==
    LET having == {p \in PatchPages : \E o \in DOMAIN p.patches : Belongs(o, container)}
    IN {p \in having : \A q \in having \ {p} :
            \/ EndTime(p) > EndTime(q)
            \/ EndTime(p) = EndTime(q) /\ p.level < q.level
            \/ EndTime(p) = EndTime(q) /\ p.level = q.level
                 /\ (DirectoryOrder \/ p.id < q.id)}

(* Mutant: the leaves the baseline covers are not left out. *)
WithLeavesFrom(container, base) ==
    LET later == LeafPatches(SnapshotLeaves(container))
        own == {o \in DOMAIN base.patches : Belongs(o, container)}
    IN [o \in own |-> base.patches[o]] @@ later

(* The fields of the baseline, and what leaves after its end wrote. *)
StateFrom(container, base) ==
    LET all == SnapshotLeaves(container)
        later == LeafPatches(Only(all, {l \in ToSet(all) : l.ts > EndTime(base)}))
        own == {o \in DOMAIN base.patches : Belongs(o, container)}
    IN later @@ [o \in own |-> base.patches[o]]

StatesOf(container) ==
    IF Baselines(container) = {} THEN {LeafPatches(SnapshotLeaves(container))}
    ELSE {StateFrom(container, base) : base \in Baselines(container)}

LastLeaf(container) ==
    LET leaves == SnapshotLeaves(container)
    IN IF leaves = <<>> THEN None ELSE leaves[Len(leaves)].id

(* The page that ended last before the time asked for, of any level. *)
Preceding ==
    LET ended == {p \in reader.pages : EndTime(p) <= reader.query.to}
        EndsLater(p, q) ==
            \/ EndTime(p) > EndTime(q)
            \/ EndTime(p) = EndTime(q) /\ p.level > q.level
            \/ EndTime(p) = EndTime(q) /\ p.level = q.level /\ p.id >= q.id
    IN IF ended = {} THEN None
       ELSE Hash(CHOOSE p \in ended : \A q \in ended : EndsLater(p, q))

(* The snapshot made last; the call's number stands for Utc::now(). *)
PreviousSnapshot ==
    IF snapshots = {} THEN None
    ELSE (CHOOSE s \in snapshots : \A t \in snapshots : t.created <= s.created).created

Snapshot(states, previous) ==
    [id |-> nextSnapshotId, created |-> queries, asOf |-> reader.query.to,
     states |-> states, last |-> [c \in Containers |-> LastLeaf(c)],
     preceding |-> Preceding, previous |-> previous]

WriteSnapshot(previous) ==
    /\ At("store", {"snapshot"})
    /\ \E states \in [Containers -> UNION {StatesOf(c) : c \in Containers}] :
          /\ \A c \in Containers : states[c] \in StatesOf(c)
          /\ snapshots' = {s \in snapshots : s.id # nextSnapshotId}
                            \cup {Snapshot(states, previous)}
          /\ Answer(states)
    /\ nextSnapshotId' = nextSnapshotId + 1
    /\ UNCHANGED <<vars, queries, deleted>>

StoreSnapshot == WriteSnapshot(PreviousSnapshot) /\ UNCHANGED readFailures

----------------------------------------------------------------------------
(* Reads and writes that fail. *)

MayFail == readFailures + Cardinality(deleted) + restarts < MaxFaults

(* A listing fails: a snapshot goes on without the level. *)
ListFails ==
    /\ reader # None /\ reader.at = "list"
    /\ MayFail
    /\ readFailures' = readFailures + 1
    /\ IF reader.query.kind = "snapshot" THEN GoOn("load") ELSE Refuse("CoreError")
    /\ UNCHANGED <<vars, snapshots, nextSnapshotId, queries, deleted>>

(* A page cannot be read: only the integrity check gives up. *)
LoadFails ==
    /\ reader # None /\ reader.at \in {"load", "hint", "leaf"}
    /\ MayFail
    /\ readFailures' = readFailures + 1
    /\ \/ reader.at = "hint" /\ GoOn("active")
       \/ reader.at = "leaf" /\ Refuse("CoreError")
       \/ /\ reader.at = "load"
          /\ \E s \in NextPages :
                IF reader.query.kind = "integrity" THEN Refuse("CoreError")
                ELSE Becomes([reader EXCEPT !.todo = @ \ {s}])
    /\ UNCHANGED <<vars, snapshots, nextSnapshotId, queries, deleted>>

(* The snapshots before it cannot be listed: it is stored without a link. *)
StoreUnlinkedSnapshot ==
    /\ MayFail
    /\ WriteSnapshot(None)
    /\ readFailures' = readFailures + 1

StoreSnapshotFails ==
    /\ At("store", {"snapshot"})
    /\ MayFail
    /\ readFailures' = readFailures + 1
    /\ nextSnapshotId' = nextSnapshotId + 1
    /\ Refuse("StorageError")
    /\ UNCHANGED <<vars, snapshots, queries, deleted>>

----------------------------------------------------------------------------
(* What goes on beside the reader. *)

(* An answer is used when it is given, and forgotten. *)
Disturbed ==
    reader' = IF reader = None \/ reader.at = "done" THEN None
              ELSE [reader EXCEPT !.seen.alone = FALSE]

AddLeafStep ==
    /\ \E a \in Appenders : CallAddLeaf(a) \/ Step(a)
    /\ Disturbed
    /\ UNCHANGED <<snapshots, nextSnapshotId, queries, readFailures, deleted>>

(* delete_page, as a sweep of the retention policies calls it. *)
DeletePage ==
    /\ MayFail
    /\ \E p \in storage :
          /\ storage' = storage \ {p}
          /\ deleted' = deleted \cup {p}
    /\ Disturbed
    /\ UNCHANGED <<activePages, nextPageId, lastFinalized, callVars, worldVars,
                   snapshots, nextSnapshotId, queries, readFailures>>

(* The process starts over: both page counters do, the store is kept. *)
RestartAll ==
    /\ MayFail
    /\ Restart
    /\ reader' = None
    /\ nextSnapshotId' = 0
    /\ UNCHANGED <<snapshots, queries, readFailures, deleted>>

ReadStep ==
    \/ List \/ ListActive \/ HoldActive \/ ActiveId \/ FindActiveInStore \/ ActiveLeaves
    \/ TryHint \/ LoadForProof \/ LoadLeaf \/ NoProof
    \/ LoadForState \/ StateRebuilt \/ LoadForReport \/ ReportDone
    \/ LoadForIntegrity \/ PeekActive \/ IntegrityDone
    \/ LoadForSnapshot \/ LevelRead \/ StoreSnapshot \/ StoreUnlinkedSnapshot
    \/ ListFails \/ LoadFails \/ StoreSnapshotFails

DNext == Ask \/ ReadStep \/ AddLeafStep \/ DeletePage \/ RestartAll

DSpec == DInit /\ [][DNext]_dvars
=============================================================================
