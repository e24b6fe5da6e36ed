------------------------------- MODULE Pages -------------------------------
(***************************************************************************)
(* Journal pages and the operations on one page: src/core/page.rs, the     *)
(* window arithmetic of src/core/time_manager.rs and the merge of a child  *)
(* into a parent done by perform_rollup.  No variables: TimeManager builds *)
(* its state from these operators.                                         *)
(*                                                                         *)
(* Time is counted in seconds from the epoch, as naturals.                 *)
(***************************************************************************)
EXTENDS Integers, Sequences, FiniteSets

CONSTANTS
    Top,          \* index of the coarsest level; level 0 holds the leaves
    Duration,     \* [Levels -> seconds], TimeLevel::duration_seconds
    MaxItems,     \* [Levels -> max_items_per_page]
    MaxAge,       \* [Levels -> max_page_age_seconds]
    ContentType,  \* [Levels -> RollupContentType]
    Objects,      \* container ids whose payload is a JSON object
    None          \* Option::None

Levels == 0 .. Top

ContentTypes == {"ChildHashes", "NetPatches", "ChildHashesAndNetPatches"}

(***************************************************************************)
(* What config/validation.rs accepts: at least one level, positive and     *)
(* strictly increasing durations, positive page sizes, any age (0 is meant *)
(* to disable the age trigger).                                            *)
(***************************************************************************)
ASSUME ConfigAssumption ==
    /\ Top \in Nat
    /\ Duration \in [Levels -> Nat \ {0}]
    /\ \A l \in Levels \ {0} : Duration[l - 1] < Duration[l]
    /\ MaxItems \in [Levels -> Nat \ {0}]
    /\ MaxAge \in [Levels -> Nat]
    /\ ContentType \in [Levels -> ContentTypes]

ASSUME NoneAssumption == None \notin Objects /\ None \notin Nat

(***************************************************************************)
(* A leaf: its id stands for its hash (JournalLeaf::new draws a fresh id   *)
(* for every leaf), obj is its container, None when the payload is not a   *)
(* JSON object and so carries no field patches.  The payload of an object  *)
(* is one field: a patch is identified with the leaf that wrote it.        *)
(***************************************************************************)
Leaf == [id : Nat, ts : Nat, obj : Objects \cup {None}]

NoPatches == [o \in {} |-> 0]

IsList(s) == Len(s) \in Nat /\ s = [i \in 1 .. Len(s) |-> s[i]]

(***************************************************************************)
(* PageContent is one of leaves, kids (thrall hashes) and patches, by      *)
(* level and content type; the fields a page does not use stay empty.      *)
(***************************************************************************)
IsPage(p) ==
    /\ p = [id |-> p.id, level |-> p.level, start |-> p.start,
            prev |-> p.prev, leaves |-> p.leaves, kids |-> p.kids,
            patches |-> p.patches, first |-> p.first, last |-> p.last]
    /\ p.id \in Nat
    /\ p.level \in Levels
    /\ p.start \in Nat
    /\ p.leaves \in Seq(Leaf)
    /\ IsList(p.kids)
    /\ DOMAIN p.patches \subseteq Objects
    /\ p.first \in Nat \cup {None}
    /\ p.last \in Nat \cup {None}

(* Mutant: a window holds its end and not its start. *)
WindowBefore(level, ts) == ((ts - 1) \div Duration[level]) * Duration[level]

WindowStart(level, ts) == (ts \div Duration[level]) * Duration[level]

EndTime(p) == p.start + Duration[p.level]

InWindow(p, ts) == p.start <= ts /\ ts < EndTime(p)

NewPage(id, level, prev, start) ==
    [id |-> id, level |-> level, start |-> start, prev |-> prev,
     leaves |-> <<>>, kids |-> <<>>, patches |-> NoPatches,
     first |-> None, last |-> None]

UsesNetPatches(level) == level > 0 /\ ContentType[level] = "NetPatches"

ContentLen(p) ==
    IF p.level = 0 THEN Len(p.leaves)
    ELSE IF UsesNetPatches(p.level) THEN Cardinality(DOMAIN p.patches)
    ELSE Len(p.kids)

IsContentEmpty(p) ==
    p.leaves = <<>> /\ p.kids = <<>> /\ DOMAIN p.patches = {}

HasSpace(p) == ContentLen(p) < MaxItems[p.level]

(***************************************************************************)
(* page_hash after recalculate_merkle_root_and_page_hash: a term that      *)
(* holds what the digest covers (SHA-256 taken as injective).  Patches are *)
(* covered only when they are the whole content.                           *)
(***************************************************************************)
Hash(p) ==
    [p EXCEPT !.patches = IF UsesNetPatches(p.level) THEN @ ELSE NoPatches]

----------------------------------------------------------------------------
(* Growing a page. *)

Earlier(opt, ts) == IF opt = None \/ ts < opt THEN ts ELSE opt
Later(opt, ts)   == IF opt = None \/ ts > opt THEN ts ELSE opt
OrElse(opt, ts)  == IF opt = None THEN ts ELSE opt

AddLeaf(p, leaf) ==
    [p EXCEPT !.leaves = Append(@, leaf),
              !.first = Earlier(@, leaf.ts),
              !.last = Later(@, leaf.ts)]

AddThrallHash(p, hash, ts) ==
    [p EXCEPT !.kids = Append(@, hash),
              !.first = OrElse(@, ts),
              !.last = Later(@, ts)]

(* Mutant: entry().or_insert(), the first write wins. *)
MergeNewPatches(p, patches, ts) ==
    [p EXCEPT !.patches = [o \in DOMAIN @ \cup DOMAIN patches |->
                              IF o \in DOMAIN @ THEN @[o] ELSE patches[o]],
              !.first = OrElse(@, ts),
              !.last = Later(@, ts)]

MergeNetPatches(p, patches, ts) ==
    [p EXCEPT !.patches = [o \in DOMAIN @ \cup DOMAIN patches |->
                              IF o \in DOMAIN patches THEN patches[o] ELSE @[o]],
              !.first = OrElse(@, ts),
              !.last = Later(@, ts)]

(* Last write wins per object among the leaves of one page. *)
LeafPatches(leaves) ==
    LET Writes(o) == {i \in DOMAIN leaves : leaves[i].obj = o}
        LastWrite(o) == CHOOSE i \in Writes(o) : \A j \in Writes(o) : j <= i
    IN [o \in {o \in Objects : Writes(o) # {}} |-> leaves[LastWrite(o)].id]

PatchesOf(child) ==
    IF child.level = 0 THEN LeafPatches(child.leaves) ELSE child.patches

(* Mutant: a child without patches is taken for an empty one. *)
RollPatchedInto(parent, child) ==
    IF DOMAIN PatchesOf(child) = {} THEN parent
    ELSE AddThrallHash(parent, Hash(child), EndTime(child))

(***************************************************************************)
(* What perform_rollup puts into the parent.  A ThrallHashes child has no  *)
(* patches, so a NetPatches parent gets nothing from it.                   *)
(***************************************************************************)
RollInto(parent, child) ==
    LET ts == EndTime(child)
        type == ContentType[parent.level]
        hashed == IF type = "NetPatches" THEN parent
                  ELSE AddThrallHash(parent, Hash(child), ts)
    IN IF type = "ChildHashes" \/ DOMAIN PatchesOf(child) = {}
       THEN hashed
       ELSE MergeNetPatches(hashed, PatchesOf(child), ts)

----------------------------------------------------------------------------
(* When a page is done. *)

(* JournalPage::should_finalize, first component; an age of 0 is None here. *)
FullOrOverAge(p, opTime) ==
    \/ ContentLen(p) >= MaxItems[p.level]
    \/ /\ MaxAge[p.level] > 0
       /\ opTime - OrElse(p.first, p.start) >= MaxAge[p.level]

(* Second component. *)
OutsideWindow(p, ts) == ts >= EndTime(p)

(* The age test of perform_rollup: from the window start, 0 not special. *)
ParentOverAge(p, trigger) == trigger - p.start >= MaxAge[p.level]
=============================================================================
