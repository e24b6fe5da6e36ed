-------------------------- MODULE TimeManagerProps --------------------------
(***************************************************************************)
(* What TimeHierarchyManager promises.  The hazards named here are those   *)
(* of PROJECT.json.                                                        *)
(***************************************************************************)
EXTENDS TimeManager, SequencesExt

InHand == {page[a] : a \in {b \in Appenders : page[b] # None}}

(* Every page a leaf or a child hash can be in. *)
Pages == activePages \cup storage \cup InHand

LeavesOf(p) == {p.leaves[i] : i \in DOMAIN p.leaves}
KidsOf(p)   == {p.kids[i] : i \in DOMAIN p.kids}

StoredAt(level) == {p \in storage : p.level = level}

Labels == {"idle", "take", "create", "have", "insert", "store", "track", "load",
           "stale", "parent", "settle", "return"}

----------------------------------------------------------------------------
(* Type invariant. *)
IsCall(c) ==
    /\ c = [leaf |-> c.leaf, op |-> c.op, pageId |-> c.pageId,
            retaken |-> c.retaken, after |-> c.after]
    /\ c.leaf \in Leaf /\ c.leaf.ts \in Times
    /\ c.op \in Times
    /\ c.pageId \in Nat \cup {None}
    /\ c.retaken \in BOOLEAN
    /\ c.after \in {"create", "retake", "done"}

IsFrame(f) ==
    /\ f = [level |-> f.level, hash |-> f.hash, child |-> f.child,
            resume |-> f.resume]
    /\ f.level \in Levels
    /\ f.child # None => IsPage(f.child)
    /\ f.resume \in {"parent", "return"}

HoldsPage == {"have", "insert", "store", "track", "settle"}
InRollup  == {"load", "stale", "parent", "settle", "return"}

ManagerTypeOK ==
    /\ \A p \in activePages \cup storage : IsPage(p)
    /\ nextPageId \in Nat
    /\ DOMAIN lastFinalized = Levels
    /\ \A l \in Levels : lastFinalized[l] # None =>
          /\ lastFinalized[l] = [id |-> lastFinalized[l].id,
                                 hash |-> lastFinalized[l].hash]
          /\ lastFinalized[l].id \in Nat

CallTypeOK(a) ==
    /\ pc[a] # "idle" => IsCall(call[a])
    /\ pc[a] \in HoldsPage => IsPage(page[a])
    /\ IsList(frames[a])
    /\ \A i \in 1 .. Len(frames[a]) : IsFrame(frames[a][i])
    /\ pc[a] \in InRollup => Len(frames[a]) > 0

CountersTypeOK ==
    /\ leafCount \in 0 .. MaxLeaves
    /\ newest \in Nat
    /\ storeFailures \in 0 .. MaxStoreFailures
    /\ restarts \in 0 .. MaxRestarts

TypeOK ==
    /\ ManagerTypeOK
    /\ pc \in [Appenders -> Labels]
    /\ DOMAIN call = Appenders /\ DOMAIN page = Appenders /\ DOMAIN frames = Appenders
    /\ \A a \in Appenders : CallTypeOK(a)
    /\ CountersTypeOK

----------------------------------------------------------------------------
(* Pages. *)

(***************************************************************************)
(* Wherever a page is (active, stored, or in the hands of a call), its     *)
(* leaves lie inside its window and it holds no more leaves or child       *)
(* hashes than its level allows; a page left active still has space.  Four *)
(* tests of the code decide it together: the window and space tests when a *)
(* page is reused, and the size tests after an insertion, one for leaf     *)
(* pages and one for parents.                                              *)
(***************************************************************************)
WithinBounds(p) ==
    /\ \A i \in DOMAIN p.leaves : InWindow(p, p.leaves[i].ts)
    /\ ~UsesNetPatches(p.level) => ContentLen(p) <= MaxItems[p.level]

PageBounds ==
    /\ \A p \in Pages : WithinBounds(p)
    /\ \A p \in activePages : HasSpace(p)

(***************************************************************************)
(* The field patches a level 1 page carries are those of its children: for *)
(* every object the last write, in the order the children were rolled up.  *)
(***************************************************************************)
NetPatchesFollowChildren ==
    \A p \in Pages :
        p.level = 1 /\ ContentType[1] = "ChildHashesAndNetPatches" =>
            p.patches = LeafPatches(FlattenSeq(
                            [i \in DOMAIN p.kids |-> p.kids[i].leaves]))

----------------------------------------------------------------------------
(* Leaves. *)

Undisturbed == storeFailures = 0 /\ restarts = 0

(***************************************************************************)
(* A leaf add_leaf returned Ok for is in exactly one leaf page, once, as   *)
(* long as no store failed and the process kept running: the clone, the    *)
(* removal from the map and the write never lose or copy it.               *)
(***************************************************************************)
Occurrences(leaf, p) == {i \in DOMAIN p.leaves : p.leaves[i] = leaf}

AcceptedLeafHeldOnce ==
    Undisturbed =>
        \A r \in accepted :
            LET holders == {p \in Pages : r.leaf \in LeavesOf(p)}
            IN /\ Cardinality({p.id : p \in holders}) = 1
               /\ \A p \in holders : Cardinality(Occurrences(r.leaf, p)) = 1

(***************************************************************************)
(* Whatever happens (concurrent calls of add_leaf, failing stores,         *)
(* restarts), a leaf may get lost but is never recorded twice: its pages   *)
(* all have the same id, and it is in each of them once.                   *)
(***************************************************************************)
LeafNeverDuplicated ==
    \A p, q \in Pages : \A i \in DOMAIN p.leaves, j \in DOMAIN q.leaves :
        p.leaves[i] = q.leaves[j] => p.id = q.id /\ i = j

(***************************************************************************)
(* A leaf that reached the store stays in the store (README.md: data       *)
(* cannot be modified or deleted): no later call writes its page away.     *)
(***************************************************************************)
StoredLeaves == UNION {LeavesOf(p) : p \in storage}

StoredLeavesStay == [][StoredLeaves \subseteq StoredLeaves']_vars

(***************************************************************************)
(* A finalized page is read-only (ROLLUP.md, rollup step 1): the store     *)
(* only ever gains pages.                                                  *)
(***************************************************************************)
FinalizedPagesReadOnly == [][storage \subseteq storage']_vars

----------------------------------------------------------------------------
(* The hierarchy. *)

HashRollup(level) == level < Top /\ ~UsesNetPatches(level + 1)

RollupPending(p) ==
    \E a \in Appenders :
        \/ pc[a] = "track" /\ page[a] = p
        \/ \E i \in DOMAIN frames[a] : frames[a][i].hash = Hash(p)

(***************************************************************************)
(* Every finalized page is rolled up: unless its rollup is still going on, *)
(* a page of the next level carries its hash, and only one does.           *)
(***************************************************************************)
EveryPageRolledUp ==
    Undisturbed =>
        \A p \in storage : HashRollup(p.level) =>
            LET parents == {q.id : q \in {r \in Pages : r.level = p.level + 1 /\
                                                        Hash(p) \in KidsOf(r)}}
            IN RollupPending(p) \/ Cardinality(parents) = 1

(***************************************************************************)
(* A parent never refers to a page the store does not have: not when a     *)
(* store fails in the middle of a cascade, and not after its child changed.*)
(***************************************************************************)
ChildHashesResolve ==
    \A p \in Pages : \A h \in KidsOf(p) : StoredWithHash(h) # {}

(***************************************************************************)
(* The stored pages of a level form one chain: prev_page_hash is the hash  *)
(* of a stored page of the level, and no two pages follow the same one.    *)
(***************************************************************************)
LinkedChain(level) ==
    /\ \A p \in StoredAt(level) : p.prev # None =>
          \E q \in StoredAt(level) : Hash(q) = p.prev /\ q.id < p.id
    /\ \A p, q \in StoredAt(level) : p.prev = q.prev => p = q

PageChains == \A l \in Levels : LinkedChain(l)

LeafPageChain == LinkedChain(0)

----------------------------------------------------------------------------
(* Calls. *)

(***************************************************************************)
(* The recursion of perform_rollup is no deeper than the hierarchy         *)
(* (ROLLUP.md section 11.2): each activation works one level above its     *)
(* caller, also when a stale parent is finalized on the way.               *)
(***************************************************************************)
RecursionBounded ==
    \A a \in Appenders :
        /\ Len(frames[a]) <= Top + 1
        /\ \A i \in DOMAIN frames[a] : frames[a][i].level = i - 1

(* A call returns, whatever the cascade and whether or not a store fails. *)
CallsReturn == \A a \in Appenders : pc[a] # "idle" ~> pc[a] = "idle"
=============================================================================
