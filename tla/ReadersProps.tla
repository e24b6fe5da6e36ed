---------------------------- MODULE ReadersProps ----------------------------
(***************************************************************************)
(* What a reader may rely on while leaves are being added.  seen is what   *)
(* was there when it asked; alone says that nothing moved since.           *)
(***************************************************************************)
EXTENDS Readers, TimeManagerProps

Answered(kind) == reader # None /\ reader.at = "done" /\ reader.query.kind = kind

(* ContainerNotFound is the answer of nothing. *)
AnswerOr(nothing) == IF reader.answer.ok THEN reader.answer.is ELSE nothing

(* What the store held when the call began and still holds. *)
StoredAllAlong == LeavesIn(reader.seen.pages) \cap LeavesIn(storage)

Asked(leaf) ==
    /\ Concerns(leaf, reader.query.of)
    /\ reader.query.from <= leaf.ts /\ leaf.ts <= reader.query.to

Quiet == reader.seen.alone /\ readFailures = 0 /\ deleted = {} /\ restarts = 0

(***************************************************************************)
(* Whether the pages of a window are read in the order they were made.  A  *)
(* directory is listed in any order, and the sort by start leaves pages of *)
(* one window as they were listed.                                         *)
(***************************************************************************)
ListedInOrder ==
    \/ ~DirectoryOrder /\ restarts = 0
    \/ \A p, q \in {r \in storage \cup reader.seen.pages \cup deleted : r.level = 0} :
          p.start = q.start => p = q

(* The last write of every field among leaves that were asked for. *)
LastWrites(leaves) ==
    LET asked == {l \in leaves : Asked(l)}
        ids(o) == {l.id : l \in {m \in asked : m.obj = o}}
    IN [o \in {l.obj : l \in asked} |-> CHOOSE i \in ids(o) : \A j \in ids(o) : j <= i]

----------------------------------------------------------------------------
(* Type invariant. *)
Steps == {"hint", "list", "active", "again", "load", "leaf", "peek", "store", "done"}

IsSummary(s) ==
    /\ s = [id |-> s.id, level |-> s.level, start |-> s.start, added |-> s.added]
    /\ s.id \in Nat /\ s.level \in Levels /\ s.start \in Nat /\ s.added \in BOOLEAN

ReaderTypeOK ==
    /\ TypeOK
    /\ reader # None =>
          /\ reader.query \in Queries
          /\ reader.at \in Steps
          /\ reader.level \in Nat
          /\ \A s \in reader.todo : IsSummary(s)
          /\ \A p \in reader.pages : IsPage(p)
          /\ reader.leaves \in Seq(Leaf)
          /\ ~reader.answer.ok => reader.answer.is \in QueryErrors \cup {"StorageError"}
    /\ \A s \in snapshots : s.id < nextSnapshotId \/ restarts > 0
    /\ queries \in 0 .. MaxQueries
    /\ readFailures \in 0 .. MaxFaults
    /\ \A p \in deleted : IsPage(p)

----------------------------------------------------------------------------
(***************************************************************************)
(* A report has every leaf asked for that was in the store when the call   *)
(* began, whatever add_leaf stores, retires and rolls up between the       *)
(* listing, the two looks at the active page, and the loads.               *)
(***************************************************************************)
ReportHasStoredLeaves ==
    Answered("report") /\ reader.query.limit = None /\ readFailures = 0 =>
        {l \in StoredAllAlong : Asked(l)} \subseteq ToSet(AnswerOr(<<>>))

(***************************************************************************)
(* A report made while nothing moves is the slice asked for of the         *)
(* accepted leaves in their order, from active and stored pages alike,     *)
(* each one once; through a synchronous journal, of the stored leaves: if  *)
(* the pages of each window were listed in order.                          *)
(***************************************************************************)
Visible == IF reader.query.api = "sync" THEN LeavesIn(storage) ELSE {r.leaf : r \in accepted}

LeavesInOrder == SetToSortSeq({l \in Visible : Asked(l)}, LeafBefore)

QuietReportExact ==
    Answered("report") /\ Quiet /\ ListedInOrder
      /\ ~EmptyRange(reader.query) /\ reader.query.limit # 0 =>
        LET q == reader.query
            due == IF q.limit = None THEN DOMAIN LeavesInOrder
                   ELSE DOMAIN LeavesInOrder \cap (q.offset + 1 .. q.offset + q.limit)
        IN /\ reader.answer.ok <=> LeavesInOrder # <<>>
           /\ Len(AnswerOr(<<>>)) = Cardinality(due)
           /\ \A i \in DOMAIN AnswerOr(<<>>) :
                 reader.answer.is[i] = LeavesInOrder[i + (IF q.limit = None THEN 0 ELSE q.offset)]

(***************************************************************************)
(* A rebuilt state is never older than the store was when the call began:  *)
(* of every field it has the last write stored by then or a later one, and *)
(* exactly the last stored write when nothing moves: if the pages of each  *)
(* window were listed in order.                                            *)
(***************************************************************************)
StateFollowsStore ==
    Answered("state") /\ readFailures = 0 /\ ListedInOrder =>
        LET state == AnswerOr(NoPatches)
            atLeast == LastWrites(StoredAllAlong)
        IN /\ \A o \in DOMAIN atLeast : o \in DOMAIN state /\ state[o] >= atLeast[o]
           /\ Quiet => state = LastWrites(LeavesIn(storage))

(***************************************************************************)
(* A leaf that is in the store all along is proved: the proof names a page *)
(* of the store that has it, verifies against the root of that page, and   *)
(* verifies for no other leaf.                                             *)
(***************************************************************************)
StoredLeafProved ==
    Answered("proof") /\ readFailures = 0 =>
        LET answer == reader.answer.is
        IN \/ /\ ~reader.answer.ok
              /\ \A l \in StoredAllAlong : l.id # reader.query.leaf
           \/ reader.answer.ok /\ \E p \in storage :
                /\ p.id = answer.page /\ p.level = 0
                /\ answer.root = MerkleRoot(LeafHashes(p))
                /\ \A id \in 0 .. leafCount :
                      ProofVerifies(Digest(id), answer.proof, answer.root)
                        <=> id = reader.query.leaf

(***************************************************************************)
(* While nothing moves, the check of a whole level calls the chain intact  *)
(* exactly if no page was taken out from between two that are stored.      *)
(***************************************************************************)
TakenFromBetween(level) ==
    \E d \in deleted : \E p, q \in StoredAt(level) :
        d.level = level /\ p.id < d.id /\ d.id < q.id

ChainChecked ==
    Answered("integrity") /\ reader.seen.alone /\ readFailures = 0 /\ restarts = 0
      /\ reader.query.from = None /\ reader.query.to = None =>
        ((\E i \in DOMAIN AnswerOr(<<>>) : ~reader.answer.is[i].valid)
            <=> TakenFromBetween(reader.level))

(***************************************************************************)
(* A snapshot has, for every field of its containers, a write no older     *)
(* than the last one the store held when the call began, and exactly the   *)
(* last accepted one when nothing moves: provided that every page of       *)
(* patches it builds on has all that was written in time before the page's *)
(* end, which is what create_snapshot takes for granted.  One kind of      *)
(* write may be missing even then: one dated exactly at the end of that    *)
(* page.  It belongs to the next window, but create_snapshot adds to its   *)
(* baseline only the leaves that are later (snapshot_manager.rs:280).      *)
(***************************************************************************)
StateIn(states, container) ==
    IF container \in DOMAIN states THEN states[container] ELSE NoPatches

Known == LeavesIn(storage) \cup {r.leaf : r \in accepted}

Writes(leaves, o, to) == {l.id : l \in {m \in leaves : m.obj = o /\ m.ts <= to}}

IsLast(i, ids) == i \in ids /\ \A j \in ids : j <= i

BaselineIsWhole ==
    \A p \in PatchPages : \A o \in Objects :
        LET written == Writes(Known, o, EndTime(p) - 1)
        IN IF o \in DOMAIN p.patches THEN IsLast(p.patches[o], written) ELSE written = {}

(* The state a snapshot answered with for the object, with no entry for none. *)
Shown(o) == StateIn(reader.answer.is, ContainerOf[o])

(* Dated at the end of the page of patches that the snapshot starts from. *)
AtTheEdge(o) ==
    {l.id : l \in {m \in Known : /\ m.obj = o
                                /\ \E b \in Baselines(ContainerOf[o]) : m.ts = EndTime(b)}}

NotOlder(o, unless) ==
    \A i \in Writes(StoredAllAlong, o, reader.query.to) \ unless :
        o \in DOMAIN Shown(o) /\ Shown(o)[o] >= i

Exact(o, unless) ==
    LET written == Writes({r.leaf : r \in accepted}, o, reader.query.to) \ unless
    IN IF o \in DOMAIN Shown(o) THEN IsLast(Shown(o)[o], written) ELSE written = {}

Snapped(o) == reader.query.of = None \/ ContainerOf[o] \in reader.query.of

SnapshotFollowsStore ==
    Answered("snapshot") /\ readFailures = 0 /\ BaselineIsWhole =>
        \A o \in Objects : Snapped(o) =>
            /\ NotOlder(o, AtTheEdge(o))
            /\ Quiet => Exact(o, AtTheEdge(o))

(***************************************************************************)
(* A snapshot made while nothing moves reflects the state at its time      *)
(* (SNAPSHOT.md:273), whatever the pages of patches hold.                  *)
(***************************************************************************)
SnapshotReflectsState ==
    Answered("snapshot") /\ Quiet => \A o \in Objects : Snapped(o) => Exact(o, {})
=============================================================================
