----------------------------- MODULE LeafProofs -----------------------------
(***************************************************************************)
(* Proofs about leaves: where the leaf of a call of add_leaf is, from the  *)
(* call to the store.  Nothing is assumed of the order of the timestamps,  *)
(* the configuration or the failing stores.  That a leaf is never recorded *)
(* twice holds for overlapping calls and restarts too; that it is never    *)
(* lost needs what Journal::append_leaf provides, one call at a time.      *)
(***************************************************************************)
EXTENDS TimeManagerProofs

----------------------------------------------------------------------------
(***************************************************************************)
(* LeafNeverDuplicated.  A leaf that has not been appended yet is in no    *)
(* page, the ids of leaves are never used again, and a page passed from    *)
(* the map to a call, and from there to the store, keeps its id and the    *)
(* places of its leaves.                                                   *)
(***************************************************************************)

(* Every page, by where the code has it. *)
Around ==
    activePages \cup storage
        \cup {page[a] : a \in {b \in Appenders : pc[b] \in HoldsPage}}

HandsOK == \A a \in Appenders : pc[a] \notin HoldsPage => page[a] = None

(* The leaf of this call has not been appended. *)
Pending(a) ==
    \/ pc[a] \in {"take", "create", "have"}
    \/ pc[a] # "idle" /\ call[a].after # "done"

FreshIds == \A p \in Around : \A i \in DOMAIN p.leaves : p.leaves[i].id < leafCount

CallsDistinct ==
    \A a \in Appenders : pc[a] # "idle" =>
        /\ call[a].leaf.id < leafCount
        /\ \A b \in Appenders \ {a} :
              pc[b] # "idle" => call[a].leaf.id # call[b].leaf.id

PendingAway ==
    \A a \in Appenders : Pending(a) =>
        \A p \in Around : \A i \in DOMAIN p.leaves :
            p.leaves[i].id # call[a].leaf.id

OnePlace ==
    \A p, q \in Around : \A i \in DOMAIN p.leaves, j \in DOMAIN q.leaves :
        p.leaves[i].id = q.leaves[j].id => p.id = q.id /\ i = j

LInv == HandsOK /\ FreshIds /\ CallsDistinct /\ PendingAway /\ OnePlace

(* A page new to the system has no leaves, and its id from the generator. *)
Fresh(p) == p.leaves = <<>> /\ p.id = nextPageId

(* The page was there, with the leaves it has, if not in the same place. *)
WasThere(p) ==
    \E q \in Around : /\ q.id = p.id /\ q.level = p.level
                      /\ q.start = p.start /\ q.leaves = p.leaves

(* No page has got a leaf, and one at most is new. *)
Inherits ==
    /\ \A p \in Around' : Fresh(p) \/ WasThere(p)
    /\ \A p, q \in Around' : p \notin Around /\ q \notin Around => p = q

(* A call goes on with its leaf, which does not become pending again. *)
SameLeaf(a) ==
    /\ pc[a] # "idle"
    /\ leafCount' = leafCount
    /\ \/ pc'[a] = "idle"
       \/ /\ call'[a].leaf = call[a].leaf
          /\ Pending(a)' => Pending(a)

(* What Around is made of. *)
LEMMA AroundParts ==
    /\ activePages \subseteq Around /\ storage \subseteq Around
    /\ \A a \in Appenders : pc[a] \in HoldsPage => page[a] \in Around
    /\ \A p \in Around : \/ p \in activePages \/ p \in storage
                         \/ \E a \in Appenders : pc[a] \in HoldsPage /\ p = page[a]
BY DEF Around

(* Pages are pages, wherever they are. *)
LEMMA AroundArePages ==
    ASSUME IInv
    PROVE  \A p \in Around : IsPage(p)
BY DEF Around, IInv, TypeOK, ManagerTypeOK, CallTypeOK

(* The pages properties speak of are among those. *)
LEMMA PagesAround ==
    ASSUME HandsOK
    PROVE  Pages \subseteq Around
BY DEF Pages, InHand, Around, HandsOK

(* After a step of a call, a page is where it was, or in one of three places. *)
LEMMA AroundAfter ==
    ASSUME NEW a \in Appenders, Mine(a)
    PROVE  \A p \in Around' : \/ p \in Around
                              \/ p \in activePages' \/ p \in storage'
                              \/ pc'[a] \in HoldsPage /\ p = page'[a]
BY DEF Around, Mine

(* If the three places hold pages known before, no page has got a leaf. *)
LEMMA MapsInherit ==
    ASSUME NEW a \in Appenders, Mine(a),
           activePages' \subseteq Around, storage' \subseteq Around,
           pc'[a] \in HoldsPage => Fresh(page'[a]) \/ WasThere(page'[a])
    PROVE  Inherits
BY AroundAfter DEF Inherits, WasThere

(* The hands of the others are as they were. *)
LEMMA HandsStay ==
    ASSUME HandsOK, NEW a \in Appenders, Mine(a),
           pc'[a] \notin HoldsPage => page'[a] = None
    PROVE  HandsOK'
BY DEF HandsOK, Mine

(* Every step but the one that appends the leaf: pages only change places. *)
LEMMA StepInherits ==
    ASSUME IInv, HandsOK, NEW a \in Appenders, Step(a), ~AppendLeaf(a)
    PROVE  Inherits /\ HandsOK'
<1>0. Mine(a) /\ pc[a] \in Labels
  BY CallStepOK DEF IInv, TypeOK
<1>1. ASSUME activePages' \subseteq Around, storage' \subseteq Around,
             \/ page'[a] = None /\ pc'[a] \notin HoldsPage
             \/ page'[a] = page[a] /\ (pc'[a] \in HoldsPage <=> pc[a] \in HoldsPage)
             \/ page'[a] \in Around /\ pc'[a] \in HoldsPage
             \/ pc'[a] \in HoldsPage /\ (Fresh(page'[a]) \/ WasThere(page'[a]))
      PROVE  Inherits /\ HandsOK'
  <2>1. pc'[a] \in HoldsPage => Fresh(page'[a]) \/ WasThere(page'[a])
    BY <1>1, AroundParts DEF WasThere
  <2>2. pc'[a] \notin HoldsPage => page'[a] = None
    BY <1>1 DEF HandsOK
  <2> QED
    BY <1>0, <1>1, <2>1, <2>2, MapsInherit, HandsStay
<1>2. activePages \subseteq Around /\ storage \subseteq Around
  BY AroundParts
<1>3. CASE TakeActivePage(a)
  <2>1. PICK p \in ActiveAt(0) : Obtain(a, p)
    BY <1>3 DEF TakeActivePage
  <2>2. page'[a] = p /\ pc'[a] = "have" /\ p \in Around
    BY <1>2, <1>3, <2>1 DEF TakeActivePage, Obtain, Hold, Goto, ActiveAt, IInv, TypeOK
  <2> QED
    BY <1>1, <1>2, <1>3, <2>2 DEF TakeActivePage, managerVars, HoldsPage
<1>4. CASE RetireActivePage(a)
  <2>1. PICK p \in ActiveAt(0) :
           /\ activePages' = Without(0)
           /\ \/ Goto(a, "create") /\ UNCHANGED page
              \/ Hold(a, p) /\ Goto(a, "store")
    BY <1>4 DEF RetireActivePage
  <2>2. activePages' \subseteq Around /\ storage' \subseteq Around /\ p \in Around
    BY <1>2, <1>4, <2>1 DEF RetireActivePage, Without, ActiveAt
  <2>3. \/ pc'[a] = "create" /\ page'[a] = page[a] /\ pc[a] = "take"
        \/ pc'[a] = "store" /\ page'[a] = p
    BY <1>4, <2>1 DEF RetireActivePage, Hold, Goto, IInv, TypeOK
  <2> QED
    BY <1>1, <2>2, <2>3 DEF HoldsPage
<1>5. CASE FindNoActivePage(a)
  BY <1>1, <1>2, <1>5 DEF FindNoActivePage, managerVars, Goto, HoldsPage, IInv, TypeOK
<1>6. CASE CreatePage(a)
  <2> DEFINE prev == PrevHash(0)
             start == WindowStart(0, Trigger(a))
             p == NewPage(nextPageId, 0, prev, start)
  <2>1. Obtain(a, p) /\ UNCHANGED <<activePages, storage>>
    BY <1>6 DEF CreatePage
  <2>2. Fresh(p)
    BY DEF NewPage, Fresh
  <2> HIDE DEF p
  <2>3. page'[a] = p /\ pc'[a] = "have"
    BY <2>1 DEF Obtain, Hold, Goto, IInv, TypeOK
  <2> QED
    BY <1>1, <1>2, <2>1, <2>2, <2>3 DEF HoldsPage
<1>7. CASE PreFinalize(a)
  BY <1>1, <1>2, <1>7 DEF PreFinalize, managerVars, Goto, HoldsPage, IInv, TypeOK
<1>8. CASE KeepActivePage(a)
  <2>1. page'[a] = None /\ pc'[a] = "idle" /\ storage' = storage
    BY <1>8 DEF KeepActivePage, ReturnOk, Leave, Hold, Goto, IInv, TypeOK
  <2>2. activePages' \subseteq Around
    BY <1>2, <1>8, AroundParts DEF KeepActivePage, WithActive, Without, HoldsPage
  <2> QED
    BY <1>1, <1>2, <2>1, <2>2 DEF HoldsPage
<1>9. CASE StorePage(a)
  <2>1. page'[a] = page[a] /\ pc[a] = "store" /\ pc'[a] = "track"
    BY <1>9 DEF StorePage, Goto, IInv, TypeOK
  <2>2. storage' \subseteq Around /\ activePages' = activePages
    BY <1>2, <1>9, <2>1, AroundParts DEF StorePage, HoldsPage
  <2> QED
    BY <1>1, <1>2, <2>1, <2>2 DEF HoldsPage
<1>10. ASSUME Leave(a) PROVE page'[a] = None /\ pc'[a] = "idle"
  BY <1>10 DEF Leave, Hold, Goto, IInv, TypeOK
<1>11. CASE StorageFails(a) \/ ChildMissing(a)
  BY <1>1, <1>2, <1>10, <1>11 DEF StorageFails, ChildMissing, managerVars, HoldsPage
<1>12. CASE TrackFinalized(a)
  BY <1>1, <1>2, <1>12 DEF TrackFinalized, Without, Hold, Goto, HoldsPage, IInv, TypeOK
<1>13. CASE LoadChild(a)
  BY <1>1, <1>2, <1>13 DEF LoadChild, managerVars, Goto, HoldsPage, IInv, TypeOK
<1>14. CASE ParentNotStale(a)
  BY <1>1, <1>2, <1>14 DEF ParentNotStale, managerVars, Goto, HoldsPage, IInv, TypeOK
<1>15. CASE RetireStaleParent(a)
  <2>1. PICK p \in ActiveAt(ParentLevel(a)) :
           /\ activePages' = Without(p.level)
           /\ \/ Goto(a, "parent") /\ UNCHANGED page
              \/ Goto(a, "store") /\ Hold(a, p)
    BY <1>15 DEF RetireStaleParent
  <2>2. activePages' \subseteq Around /\ storage' \subseteq Around /\ p \in Around
    BY <1>2, <1>15, <2>1 DEF RetireStaleParent, Without, ActiveAt
  <2>3. \/ pc'[a] = "parent" /\ page'[a] = page[a] /\ pc[a] = "stale"
        \/ pc'[a] = "store" /\ page'[a] = p
    BY <1>15, <2>1 DEF RetireStaleParent, Hold, Goto, IInv, TypeOK
  <2> QED
    BY <1>1, <2>2, <2>3 DEF HoldsPage
<1>16. ASSUME NEW p, pc[a] = "parent", IsPage(p), MergeInto(a, p),
              UNCHANGED <<activePages, storage>>, p \in Around \/ Fresh(p)
       PROVE  Inherits /\ HandsOK'
  <2> DEFINE merged == RollInto(p, TopFrame(a).child)
  <2>1. /\ merged.id = p.id /\ merged.leaves = p.leaves
        /\ merged.level = p.level /\ merged.start = p.start
    BY <1>16, AtParent, RollIntoIsPage
  <2>2. page' = [page EXCEPT ![a] = merged] /\ Goto(a, "settle")
    BY <1>16 DEF MergeInto, Hold
  <2> HIDE DEF merged
  <2>3. page'[a] = merged /\ pc'[a] = "settle"
    BY <2>2 DEF Goto, IInv, TypeOK
  <2>4. Fresh(merged) \/ WasThere(merged)
    BY <1>16, <2>1 DEF Fresh, WasThere
  <2> QED
    BY <1>1, <1>2, <1>16, <2>3, <2>4 DEF HoldsPage
<1>17. CASE ReuseParent(a)
  BY <1>2, <1>16, <1>17 DEF ReuseParent, SuitableActive, ActiveAt, managerVars, IInv,
     TypeOK, ManagerTypeOK
<1>18. CASE ReopenParent(a)
  BY <1>2, <1>16, <1>18 DEF ReopenParent, Reopenable, LastStored, Stored, managerVars,
     IInv, TypeOK, ManagerTypeOK
<1>19. CASE CreateParent(a)
  <2> DEFINE level == ParentLevel(a)
             start == WindowStart(ParentLevel(a), Trigger(a))
             prev == PrevHash(ParentLevel(a))
  <2>1. level \in Levels /\ start \in Nat /\ nextPageId \in Nat /\ pc[a] = "parent"
    BY <1>19, AtParent, WindowHolds DEF CreateParent, IInv, TypeOK, ManagerTypeOK
  <2>2. MergeInto(a, NewPage(nextPageId, level, prev, start))
        /\ UNCHANGED <<activePages, storage>>
    BY <1>19 DEF CreateParent
  <2> HIDE DEF start, prev
  <2>3. /\ IsPage(NewPage(nextPageId, level, prev, start))
        /\ Fresh(NewPage(nextPageId, level, prev, start))
    BY <2>1, NewPageIsPage DEF Fresh
  <2> QED
    BY <1>16, <2>1, <2>2, <2>3
<1>20. CASE DiscardParent(a)
  BY <1>1, <1>2, <1>20 DEF DiscardParent, Without, Hold, Goto, HoldsPage, IInv, TypeOK
<1>21. CASE FinalizeParent(a)
  BY <1>1, <1>2, <1>21 DEF FinalizeParent, Without, Goto, HoldsPage, IInv, TypeOK
<1>22. CASE KeepParent(a)
  <2>1. page'[a] = None /\ pc'[a] = "return" /\ storage' = storage
    BY <1>22 DEF KeepParent, Hold, Goto, IInv, TypeOK
  <2>2. activePages' \subseteq Around
    BY <1>2, <1>22, AroundParts DEF KeepParent, WithActive, Without, HoldsPage
  <2> QED
    BY <1>1, <1>2, <2>1, <2>2 DEF HoldsPage
<1>23. CASE ReturnToParent(a)
  <2>1. pc'[a] \in {"parent", "return"}
    <3>1. IsFrame(frames[a][Len(frames[a]) - 1])
      BY <1>23 DEF ReturnToParent, IInv, TypeOK, CallTypeOK, IsList
    <3> QED
      BY <1>23, <3>1 DEF ReturnToParent, Goto, IsFrame, IInv, TypeOK
  <2> QED
    BY <1>1, <1>2, <1>23, <2>1 DEF ReturnToParent, managerVars, HoldsPage
<1>24. CASE ReturnToAddLeaf(a)
  <2>1. \/ Leave(a)
        \/ UNCHANGED page /\ pc'[a] \in {"create", "take"}
    BY <1>24 DEF ReturnToAddLeaf, ReturnOk, Goto, IInv, TypeOK
  <2> QED
    BY <1>1, <1>2, <1>10, <1>24, <2>1 DEF ReturnToAddLeaf, managerVars, HoldsPage
<1> QED
  BY <1>3, <1>4, <1>5, <1>6, <1>7, <1>8, <1>9, <1>11, <1>12, <1>13, <1>14, <1>15,
     <1>17, <1>18, <1>19, <1>20, <1>21, <1>22, <1>23, <1>24 DEF Step

(* A call keeps its leaf from step to step. *)
LEMMA StepSameLeaf ==
    ASSUME IInv, NEW a \in Appenders, Step(a)
    PROVE  SameLeaf(a)
<1>0. /\ pc \in [Appenders -> Labels] /\ DOMAIN call = Appenders
      /\ pc[a] # "idle" => IsCall(call[a])
  BY DEF IInv, TypeOK, CallTypeOK
<1>1. ASSUME pc[a] \in {"take", "create", "have"}, leafCount' = leafCount,
             \/ call' = call
             \/ \E v : call' = [call EXCEPT ![a].after = v]
             \/ \E v : call' = [call EXCEPT ![a].pageId = v]
      PROVE  SameLeaf(a)
  <2>1. IsCall(call[a])
    BY <1>0, <1>1
  <2>2. call'[a].leaf = call[a].leaf
    BY <1>0, <1>1, <2>1 DEF IsCall
  <2> QED
    BY <1>1, <2>2 DEF SameLeaf, Pending
<1>2. ASSUME pc[a] # "idle", pc'[a] \notin {"take", "create", "have"},
             call' = call, leafCount' = leafCount
      PROVE  SameLeaf(a)
  BY <1>2 DEF SameLeaf, Pending
<1>3. ASSUME pc[a] # "idle", Leave(a), leafCount' = leafCount
      PROVE  SameLeaf(a)
  BY <1>0, <1>3 DEF Leave, Goto, SameLeaf
<1>4. CASE TakeActivePage(a) \/ CreatePage(a)
  BY <1>1, <1>4 DEF TakeActivePage, CreatePage, Obtain, worldVars
<1>5. CASE RetireActivePage(a) \/ FindNoActivePage(a)
  BY <1>1, <1>5 DEF RetireActivePage, FindNoActivePage, worldVars
<1>6. CASE PreFinalize(a) \/ AppendLeaf(a)
  BY <1>1, <1>6 DEF PreFinalize, AppendLeaf, worldVars
<1>7. CASE KeepActivePage(a) \/ StorageFails(a) \/ ChildMissing(a)
  BY <1>3, <1>7 DEF KeepActivePage, ReturnOk, StorageFails, CallsStorage, ChildMissing,
                    worldVars
<1>8. CASE StorePage(a) \/ TrackFinalized(a) \/ LoadChild(a)
  BY <1>0, <1>2, <1>8 DEF StorePage, TrackFinalized, LoadChild, Goto, worldVars
<1>9. CASE RetireStaleParent(a) \/ ParentNotStale(a)
  BY <1>0, <1>2, <1>9 DEF RetireStaleParent, ParentNotStale, Goto, worldVars
<1>10. CASE ReuseParent(a) \/ ReopenParent(a) \/ CreateParent(a)
  BY <1>0, <1>2, <1>10 DEF ReuseParent, ReopenParent, CreateParent, MergeInto, Goto, worldVars
<1>11. CASE DiscardParent(a) \/ FinalizeParent(a) \/ KeepParent(a)
  BY <1>0, <1>2, <1>11 DEF DiscardParent, FinalizeParent, KeepParent, Goto, worldVars
<1>12. CASE ReturnToParent(a)
  <2>0. IsFrame(frames[a][Len(frames[a]) - 1])
    BY <1>12 DEF ReturnToParent, IInv, TypeOK, CallTypeOK, IsList
  <2>1. frames[a][Len(frames[a]) - 1].resume \in {"parent", "return"}
    BY <2>0 DEF IsFrame
  <2> QED
    BY <1>0, <1>2, <1>12, <2>1 DEF ReturnToParent, Goto, worldVars
<1>13. CASE ReturnToAddLeaf(a)
  <2>1. pc[a] = "return" /\ leafCount' = leafCount
    BY <1>13 DEF ReturnToAddLeaf
  <2>2. CASE ReturnOk(a)
    BY <1>3, <2>1, <2>2 DEF ReturnOk
  <2>3. CASE /\ call[a].after \in {"create", "retake"}
             /\ call' = call \/ call' = [call EXCEPT ![a].retaken = TRUE]
    <3>1. call'[a].leaf = call[a].leaf
      BY <1>0, <2>1, <2>3 DEF IsCall
    <3> QED
      BY <2>1, <2>3, <3>1 DEF SameLeaf, Pending
  <2> QED
    BY <1>13, <2>2, <2>3 DEF ReturnToAddLeaf
<1> QED
  BY <1>4, <1>5, <1>6, <1>7, <1>8, <1>9, <1>10, <1>11, <1>12, <1>13 DEF Step

(* A call that only moves pages keeps the leaves apart. *)
LEMMA LeavesApart ==
    ASSUME IInv, LInv, NEW a \in Appenders, Mine(a), SameLeaf(a), Inherits, HandsOK'
    PROVE  LInv'
<1> USE DEF LInv
<1>1. \A p \in Around' : \A i \in DOMAIN p.leaves :
         \E q \in Around : q.id = p.id /\ q.leaves = p.leaves
  BY DEF Inherits, Fresh, WasThere
<1>2. FreshIds'
  BY <1>1 DEF FreshIds, SameLeaf
<1>3. \A b \in Appenders : pc'[b] # "idle" =>
         /\ pc[b] # "idle" /\ call'[b].leaf = call[b].leaf
         /\ Pending(b)' => Pending(b)
  BY DEF SameLeaf, Mine, Pending
<1>4. CallsDistinct'
  BY <1>3 DEF CallsDistinct, SameLeaf
<1>5. \A b \in Appenders : Pending(b)' => Pending(b) /\ call'[b].leaf = call[b].leaf
  BY <1>3 DEF Pending
<1>6. PendingAway'
  BY <1>1, <1>5 DEF PendingAway
<1>7. OnePlace'
  BY <1>1 DEF OnePlace
<1> QED
  BY <1>2, <1>4, <1>6, <1>7

(* What appending the leaf does to the page in hand. *)
LEMMA AppendLeafEffect ==
    ASSUME IInv, NEW a \in Appenders, AppendLeaf(a)
    PROVE  /\ Mine(a) /\ pc[a] = "have" /\ pc'[a] \in {"store", "insert"}
           /\ IsPage(page[a]) /\ page[a].level = 0 /\ page[a] \in Around
           /\ IsPage(page'[a]) /\ page'[a].level = 0 /\ page'[a].id = page[a].id
           /\ page'[a].leaves = Append(page[a].leaves, call[a].leaf)
           /\ page'[a] = AddLeaf(page[a], call[a].leaf)
           /\ call[a].leaf \in Leaf /\ call'[a].leaf = call[a].leaf
           /\ call'[a].after = "done" /\ frames'[a] = frames[a]
           /\ UNCHANGED <<managerVars, worldVars>>
<1> DEFINE grown == AddLeaf(page[a], call[a].leaf)
<1>1. /\ IsPage(page[a]) /\ page[a].level = 0 /\ pc[a] = "have"
      /\ IsCall(call[a]) /\ page[a] \in Around
  BY DEF AppendLeaf, IInv, TypeOK, CallTypeOK, StackOK, InAddLeaf, HoldsPage, Around
<1>2. /\ page' = [page EXCEPT ![a] = grown]
      /\ call' = [call EXCEPT ![a].after = "done"]
      /\ Goto(a, "store") \/ Goto(a, "insert")
      /\ UNCHANGED <<managerVars, frames, worldVars>>
  BY DEF AppendLeaf, Hold
<1>3. /\ IsPage(grown) /\ grown.level = 0 /\ grown.id = page[a].id
      /\ grown.leaves = Append(page[a].leaves, call[a].leaf)
  BY <1>1, AddLeafIsPage DEF IsCall
<1> HIDE DEF grown
<1>4. Mine(a)
  BY CallStepOK DEF Step
<1>5. page'[a] = grown /\ pc'[a] \in {"store", "insert"}
      /\ call'[a].leaf = call[a].leaf /\ call'[a].after = "done"
  BY <1>1, <1>2 DEF Goto, IInv, TypeOK, IsCall
<1> QED
  BY <1>1, <1>2, <1>3, <1>4, <1>5 DEF grown, IsCall

(* The leaf appended was in no page, so the page that has it now is the only one. *)
LEMMA AppendApart ==
    ASSUME IInv, LInv, NEW a \in Appenders, AppendLeaf(a)
    PROVE  LInv'
<1> USE DEF LInv
<1> DEFINE g == page'[a]
           old == page[a].leaves
           leaf == call[a].leaf
<1>1. /\ Mine(a) /\ pc[a] = "have" /\ pc'[a] \in {"store", "insert"}
      /\ page[a] \in Around /\ g.id = page[a].id /\ g.leaves = Append(old, leaf)
      /\ call'[a].leaf = leaf /\ call'[a].after = "done"
      /\ UNCHANGED <<activePages, storage, leafCount>>
      /\ old \in Seq(Leaf) /\ leaf \in Leaf
  BY AppendLeafEffect DEF managerVars, worldVars, IsPage
<1>2. \A p \in Around' : p \in Around \/ p = g
  BY <1>1, AroundAfter, AroundParts
<1>3. DOMAIN g.leaves = 1 .. Len(old) + 1
      /\ \A i \in DOMAIN g.leaves :
            \/ i \in DOMAIN old /\ g.leaves[i] = old[i]
            \/ i = Len(old) + 1 /\ g.leaves[i] = leaf
  BY <1>1
<1> HIDE DEF g, old, leaf
<1>4. \A p \in Around : \A i \in DOMAIN p.leaves : p.leaves[i].id # leaf.id
  BY <1>1 DEF PendingAway, Pending, leaf
<1>5. leaf.id < leafCount /\ \A b \in Appenders \ {a} :
          pc[b] # "idle" => leaf.id # call[b].leaf.id
  BY <1>1 DEF CallsDistinct, leaf
<1>6. HandsOK'
  BY <1>1, HandsStay DEF HoldsPage
<1>7. FreshIds'
  BY <1>1, <1>2, <1>3, <1>5 DEF FreshIds, old
<1>8. CallsDistinct'
  BY <1>1 DEF CallsDistinct, Mine, leaf
<1>9. PendingAway'
  <2> SUFFICES ASSUME NEW b \in Appenders, Pending(b)', NEW p \in Around',
                      NEW i \in DOMAIN p.leaves
               PROVE  p.leaves[i].id # call'[b].leaf.id
    BY DEF PendingAway
  <2>1. b # a
    BY <1>1 DEF Pending
  <2>2. Pending(b) /\ call'[b] = call[b] /\ pc[b] # "idle"
    BY <1>1, <2>1 DEF Pending, Mine
  <2>3. \A q \in Around : \A j \in DOMAIN q.leaves : q.leaves[j].id # call[b].leaf.id
    BY <2>2 DEF PendingAway
  <2>4. leaf.id # call[b].leaf.id
    BY <1>5, <2>1, <2>2
  <2> QED
    BY <1>1, <1>2, <1>3, <2>2, <2>3, <2>4 DEF old
<1>10. OnePlace'
  <2> SUFFICES ASSUME NEW p \in Around', NEW q \in Around',
                      NEW i \in DOMAIN p.leaves, NEW j \in DOMAIN q.leaves,
                      p.leaves[i].id = q.leaves[j].id
               PROVE  p.id = q.id /\ i = j
    BY DEF OnePlace
  <2>1. \A x \in Around, y \in Around : \A k \in DOMAIN x.leaves, m \in DOMAIN y.leaves :
           x.leaves[k].id = y.leaves[m].id => x.id = y.id /\ k = m
    BY DEF OnePlace
  <2>2. \A x \in Around' : \A k \in DOMAIN x.leaves :
           \/ /\ x = g /\ k = Len(old) + 1 /\ x.leaves[k] = leaf
           \/ \E y \in Around : y.id = x.id /\ k \in DOMAIN y.leaves
                                 /\ y.leaves[k] = x.leaves[k]
    BY <1>1, <1>2, <1>3 DEF old
  <2> QED
    BY <1>4, <2>1, <2>2
<1> QED
  BY <1>6, <1>7, <1>8, <1>9, <1>10

(* A new call has a new leaf. *)
LEMMA CallApart ==
    ASSUME IInv, LInv, NEW a \in Appenders, CallAddLeaf(a)
    PROVE  LInv'
<1> USE DEF LInv
<1>1. /\ Mine(a) /\ pc[a] = "idle" /\ pc'[a] = "take" /\ page' = page
      /\ UNCHANGED <<activePages, storage>> /\ leafCount' = leafCount + 1
      /\ leafCount \in Nat
  <2>1. Mine(a)
    BY CallStepOK
  <2>2. leafCount \in Nat /\ pc \in [Appenders -> Labels]
    BY DEF IInv, TypeOK, CountersTypeOK
  <2> QED
    BY <2>1, <2>2 DEF CallAddLeaf, Goto, managerVars
<1>0. call'[a].leaf.id = leafCount
  <2>1. PICK ts, op, obj :
          call' = [call EXCEPT ![a] =
                        [leaf |-> [id |-> leafCount, ts |-> ts, obj |-> obj],
                         op |-> op, pageId |-> None, retaken |-> FALSE,
                         after |-> "done"]]
    BY DEF CallAddLeaf
  <2> QED
    BY <2>1 DEF IInv, TypeOK
<1>2. \A p \in Around' : p \in Around
  BY <1>1, AroundAfter, AroundParts DEF HoldsPage
<1>3. HandsOK'
  BY <1>1, HandsStay DEF HandsOK, HoldsPage
<1>4. \A p \in Around' : \A i \in DOMAIN p.leaves :
         p.leaves[i].id \in Nat /\ p.leaves[i].id < leafCount
  <2> SUFFICES ASSUME NEW p \in Around', NEW i \in DOMAIN p.leaves
               PROVE  p.leaves[i].id \in Nat /\ p.leaves[i].id < leafCount
    OBVIOUS
  <2>1. p \in Around /\ p.leaves \in Seq(Leaf)
    BY <1>2, AroundArePages DEF IsPage
  <2>2. p.leaves[i] \in Leaf
    BY <2>1
  <2> QED
    BY <2>1, <2>2 DEF FreshIds, Leaf
<1>5. \A b \in Appenders \ {a} : pc'[b] # "idle" =>
         /\ pc[b] # "idle" /\ call'[b] = call[b]
         /\ call[b].leaf.id \in Nat /\ call[b].leaf.id < leafCount
  BY <1>1 DEF Mine, CallsDistinct, IInv, TypeOK, CallTypeOK, IsCall, Leaf
<1>6. FreshIds'
  BY <1>1, <1>4 DEF FreshIds
<1>7. CallsDistinct'
  BY <1>0, <1>1, <1>5 DEF CallsDistinct
<1>8. PendingAway'
  <2> SUFFICES ASSUME NEW b \in Appenders, Pending(b)', NEW p \in Around',
                      NEW i \in DOMAIN p.leaves
               PROVE  p.leaves[i].id # call'[b].leaf.id
    BY DEF PendingAway
  <2>1. CASE b = a
    BY <1>0, <1>4, <2>1
  <2>2. CASE b # a
    <3>1. Pending(b) /\ call'[b] = call[b]
      BY <1>1, <2>2 DEF Pending, Mine
    <3> QED
      BY <1>2, <3>1 DEF PendingAway
  <2> QED
    BY <2>1, <2>2
<1>9. OnePlace'
  BY <1>2 DEF OnePlace
<1> QED
  BY <1>3, <1>6, <1>7, <1>8, <1>9

(* A step of a call keeps the leaves apart. *)
LEMMA CallStepApart ==
    ASSUME IInv, LInv, NEW a \in Appenders, CallAddLeaf(a) \/ Step(a)
    PROVE  LInv'
<1>1. CASE CallAddLeaf(a)
  BY <1>1, CallApart
<1>2. CASE AppendLeaf(a)
  BY <1>2, AppendApart
<1>3. CASE Step(a) /\ ~AppendLeaf(a)
  <2>1. Mine(a)
    BY <1>3, CallStepOK
  <2>2. Inherits /\ HandsOK' /\ SameLeaf(a)
    BY <1>3, StepInherits, StepSameLeaf DEF LInv
  <2> QED
    BY <2>1, <2>2, LeavesApart
<1> QED
  BY <1>1, <1>2, <1>3

(* So does every step, a restart too: the store is all it leaves. *)
LEMMA ApartOK == IInv /\ LInv /\ [Next]_vars => LInv'
<1> SUFFICES ASSUME IInv, LInv, [Next]_vars PROVE LInv'
  OBVIOUS
<1> USE DEF LInv
<1>1. CASE UNCHANGED vars
  <2>1. Around' = Around
    BY <1>1 DEF vars, managerVars, callVars, Around
  <2> QED
    BY <1>1, <2>1 DEF vars, managerVars, callVars, worldVars, HandsOK, FreshIds,
       CallsDistinct, PendingAway, Pending, OnePlace
<1>2. CASE Restart
  <2>1. Around' \subseteq Around
    BY <1>2 DEF Restart, Around, HoldsPage
  <2> QED
    BY <1>2, <2>1 DEF Restart, HandsOK, FreshIds, CallsDistinct, PendingAway, Pending,
       OnePlace, HoldsPage
<1> QED
  BY <1>1, <1>2, CallStepApart DEF Next

(* There are no leaves at first. *)
LEMMA ApartInit == Init => LInv
BY DEF Init, LInv, HandsOK, FreshIds, CallsDistinct, PendingAway, Pending, OnePlace,
       Around, HoldsPage

(* Two occurrences of a leaf are one. *)
LEMMA ApartNeverDuplicated ==
    ASSUME LInv
    PROVE  LeafNeverDuplicated
<1>1. Pages \subseteq Around
  BY PagesAround DEF LInv
<1> QED
  BY <1>1 DEF LInv, OnePlace, LeafNeverDuplicated

(***************************************************************************)
(* A leaf is never recorded twice (add_leaf and perform_rollup): for every *)
(* hierarchy and configuration, any number of overlapping calls of         *)
(* add_leaf, any order of timestamps, failing stores, restarts.            *)
(***************************************************************************)
THEOREM SpecLeafNeverDuplicated == Spec => []LeafNeverDuplicated
BY SpecInv, ApartInit, ApartOK, ApartNeverDuplicated, PTL DEF Spec

----------------------------------------------------------------------------
(***************************************************************************)
(* Pages deleted from the store by another task disturb nothing else: what *)
(* is said of the calls, and of every page there is, goes on to hold.      *)
(***************************************************************************)
LEMMA ShrinkOK ==
    ASSUME storage' \subseteq storage,
           UNCHANGED <<activePages, nextPageId, lastFinalized, callVars, worldVars>>
    PROVE  /\ Around' \subseteq Around
           /\ IInv => IInv'
           /\ BInv => BInv'
           /\ LInv => LInv'
<1>1. Around' \subseteq Around
  BY DEF Around, callVars
<1>2. IInv => IInv'
  BY DEF IInv, TypeOK, ManagerTypeOK, CallTypeOK, CountersTypeOK, StackOK, callVars,
     worldVars
<1>3. BInv => BInv'
  BY DEF BInv, MapsBounded, HandBounded, Trigger, callVars
<1>4. ASSUME LInv PROVE LInv'
  <2>1. HandsOK' /\ FreshIds' /\ CallsDistinct'
    BY <1>1, <1>4 DEF LInv, HandsOK, FreshIds, CallsDistinct, callVars, worldVars
  <2>2. PendingAway' /\ OnePlace'
    BY <1>1, <1>4 DEF LInv, PendingAway, Pending, OnePlace, callVars
  <2> QED
    BY <2>1, <2>2 DEF LInv
<1> QED
  BY <1>1, <1>2, <1>3, <1>4

----------------------------------------------------------------------------
(***************************************************************************)
(* What each step does, without the bookkeeping: where the call was and    *)
(* is, the page it has in hand, and what becomes of the maps.              *)
(***************************************************************************)
Depth(a) == Len(frames[a])

(* An empty list has no elements. *)
LEMMA EmptyList ==
    ASSUME NEW s, IsList(s)
    PROVE  s = <<>> <=> Len(s) = 0
BY DEF IsList

(* Outside perform_rollup the stack is empty, inside it is not. *)
LEMMA DepthOK ==
    ASSUME IInv, NEW a \in Appenders
    PROVE  /\ Depth(a) \in Nat /\ IsList(frames[a])
           /\ frames[a] = <<>> <=> Depth(a) = 0
           /\ pc[a] \in InAddLeaf => Depth(a) = 0
           /\ pc[a] \in InRollup => Depth(a) > 0
           /\ pc[a] \in HoldsPage => IsPage(page[a]) /\ page[a].level = Depth(a)
           /\ pc[a] # "idle" => IsCall(call[a])
BY EmptyList DEF IInv, TypeOK, CallTypeOK, StackOK, Depth, IsList, InAddLeaf, HoldsPage

(* A new call of add_leaf. *)
LEMMA CallEffect ==
    ASSUME IInv, NEW a \in Appenders, CallAddLeaf(a)
    PROVE  /\ Mine(a) /\ pc[a] = "idle" /\ pc'[a] = "take" /\ page' = page
           /\ frames' = frames
           /\ UNCHANGED <<managerVars, accepted, storeFailures, restarts>>
BY CallStepOK DEF CallAddLeaf, Goto, IInv, TypeOK

(* The active leaf page is cloned. *)
LEMMA TakeEffect ==
    ASSUME IInv, NEW a \in Appenders, TakeActivePage(a)
    PROVE  /\ pc[a] = "take" /\ pc'[a] = "have" /\ page'[a] \in ActiveAt(0)
           /\ frames' = frames /\ call'[a].after = call[a].after
           /\ UNCHANGED <<managerVars, worldVars>>
<1>1. PICK p \in ActiveAt(0) : Obtain(a, p)
  BY DEF TakeActivePage
<1>2. pc[a] = "take" /\ IsCall(call[a]) /\ UNCHANGED <<managerVars, frames, worldVars>>
  BY DEF TakeActivePage, IInv, TypeOK, CallTypeOK
<1>3. page'[a] = p /\ pc'[a] = "have"
  BY <1>1 DEF Obtain, Hold, Goto, IInv, TypeOK
<1>4. \E v : call' = [call EXCEPT ![a].pageId = v]
  BY <1>1 DEF Obtain
<1>5. call'[a].after = call[a].after
  BY <1>2, <1>4 DEF IInv, TypeOK, IsCall
<1> QED
  BY <1>2, <1>3, <1>5

(* The active leaf page is taken out of the map. *)
LEMMA RetireEffect ==
    ASSUME IInv, NEW a \in Appenders, RetireActivePage(a)
    PROVE  /\ pc[a] = "take" /\ frames' = frames /\ activePages' = Without(0)
           /\ UNCHANGED <<storage, lastFinalized, worldVars>>
           /\ \E p \in ActiveAt(0) :
                 \/ IsContentEmpty(p) /\ p.level = 0
                 \/ /\ ~IsContentEmpty(p)
                    /\ page'[a] = p /\ pc'[a] = "store"
                    /\ call'[a].after = "create" /\ nextPageId' = nextPageId
<1>1. PICK p \in ActiveAt(0) :
         /\ activePages' = Without(0)
         /\ ~IsContentEmpty(p) => /\ Hold(a, p)
                                  /\ call' = [call EXCEPT ![a].after = "create"]
                                  /\ Goto(a, "store")
                                  /\ UNCHANGED nextPageId
  BY DEF RetireActivePage
<1>2. /\ pc[a] = "take" /\ IsCall(call[a])
      /\ UNCHANGED <<storage, lastFinalized, frames, worldVars>>
  BY DEF RetireActivePage, IInv, TypeOK, CallTypeOK
<1>3. ~IsContentEmpty(p) => /\ page'[a] = p /\ pc'[a] = "store"
                            /\ call'[a].after = "create" /\ nextPageId' = nextPageId
  BY <1>1, <1>2 DEF Hold, Goto, IInv, TypeOK, IsCall
<1> QED
  BY <1>1, <1>2, <1>3 DEF ActiveAt

(* A page is created for the leaf. *)
LEMMA CreateEffect ==
    ASSUME IInv, NEW a \in Appenders, CreatePage(a)
    PROVE  /\ pc[a] = "create" /\ pc'[a] = "have"
           /\ IsPage(page'[a]) /\ page'[a].id = nextPageId /\ page'[a].level = 0
           /\ page'[a].leaves = <<>> /\ page'[a].prev = PrevHash(0)
           /\ frames' = frames /\ nextPageId \in Nat /\ nextPageId' = nextPageId + 1
           /\ UNCHANGED <<activePages, storage, lastFinalized, worldVars>>
<1> DEFINE prev == PrevHash(0)
           start == WindowStart(0, Trigger(a))
           p == NewPage(nextPageId, 0, prev, start)
<1>1. /\ pc[a] = "create" /\ Obtain(a, p)
      /\ frames' = frames /\ nextPageId' = nextPageId + 1
      /\ UNCHANGED <<activePages, storage, lastFinalized, worldVars>>
  BY DEF CreatePage
<1>2. nextPageId \in Nat /\ 0 \in Levels /\ Trigger(a) \in Nat
  BY <1>1, ConfigAssumption
     DEF IInv, TypeOK, ManagerTypeOK, CallTypeOK, IsCall, Leaf, Trigger, Levels
<1>3. start \in Nat
  BY <1>2, WindowHolds
<1> HIDE DEF prev, start
<1>4. IsPage(p) /\ p.id = nextPageId /\ p.level = 0 /\ p.leaves = <<>> /\ p.prev = prev
  BY <1>2, <1>3, NewPageIsPage DEF NewPage
<1> HIDE DEF p
<1>5. page'[a] = p /\ pc'[a] = "have"
  BY <1>1 DEF Obtain, Hold, Goto, IInv, TypeOK
<1> QED
  BY <1>1, <1>2, <1>4, <1>5 DEF prev

(* The page in hand is to be finalized before the leaf goes in. *)
LEMMA PreFinalizeEffect ==
    ASSUME IInv, NEW a \in Appenders, PreFinalize(a)
    PROVE  /\ pc[a] = "have" /\ pc'[a] = "store" /\ page' = page
           /\ ~IsContentEmpty(page[a]) /\ call'[a].after = "retake" /\ frames' = frames
           /\ UNCHANGED <<managerVars, worldVars>>
<1>1. pc[a] = "have" /\ IsCall(call[a])
  BY DEF PreFinalize, IInv, TypeOK, CallTypeOK
<1> QED
  BY <1>1 DEF PreFinalize, MustPreFinalize, Goto, IInv, TypeOK, IsCall

(* A call returns. *)
LEMMA LeaveEffect ==
    ASSUME IInv, NEW a \in Appenders, Leave(a)
    PROVE  /\ pc'[a] = "idle" /\ page'[a] = None /\ frames'[a] = <<>> /\ Len(frames'[a]) = 0
BY DEF Leave, Hold, Goto, IInv, TypeOK

(* The page with the leaf becomes the active one. *)
LEMMA KeepActiveEffect ==
    ASSUME IInv, NEW a \in Appenders, KeepActivePage(a)
    PROVE  /\ pc[a] = "insert" /\ Leave(a) /\ activePages' = WithActive(page[a])
           /\ UNCHANGED <<storage, nextPageId, lastFinalized, leafCount, storeFailures, restarts>>
           /\ accepted' = accepted \cup {[leaf |-> call[a].leaf, pageId |-> call[a].pageId]}
BY DEF KeepActivePage, ReturnOk

(* A page is written. *)
LEMMA StoreEffect ==
    ASSUME IInv, NEW a \in Appenders, StorePage(a)
    PROVE  /\ pc[a] = "store" /\ pc'[a] = "track" /\ page' = page /\ call' = call
           /\ frames' = frames
           /\ storage' = (storage \ Stored(page[a].level, page[a].id)) \cup {page[a]}
           /\ UNCHANGED <<activePages, nextPageId, lastFinalized, worldVars>>
BY DEF StorePage, Goto, IInv, TypeOK

(* A call of the storage fails. *)
LEMMA StorageFailsEffect ==
    ASSUME IInv, NEW a \in Appenders, StorageFails(a)
    PROVE  /\ pc[a] \in {"store", "load", "create", "parent"}
           /\ Leave(a) /\ storeFailures' = storeFailures + 1
           /\ UNCHANGED <<managerVars, leafCount, accepted, restarts>>
BY DEF StorageFails, CallsStorage

(* A finalized page is remembered. *)
LEMMA TrackEffect ==
    ASSUME IInv, NEW a \in Appenders, TrackFinalized(a)
    PROVE  /\ pc[a] = "track" /\ pc'[a] = "load" /\ page'[a] = None /\ call' = call
           /\ lastFinalized' = [lastFinalized EXCEPT ![page[a].level] =
                                  [id |-> page[a].id, hash |-> Hash(page[a])]]
           /\ activePages' = IF Depth(a) = 0 /\ call[a].after # "create"
                             THEN Without(0) ELSE activePages
           /\ Depth(a)' = Depth(a) + 1
           /\ \A i \in 1 .. Depth(a) : frames'[a][i] = frames[a][i]
           /\ frames'[a][Depth(a) + 1] =
                 [level |-> page[a].level, hash |-> Hash(page[a]), child |-> None,
                  resume |-> "return"]
           /\ UNCHANGED <<storage, nextPageId, worldVars>>
<1> DEFINE f == [level |-> page[a].level, hash |-> Hash(page[a]), child |-> None,
                 resume |-> "return"]
<1>1. /\ pc[a] = "track" /\ frames' = [frames EXCEPT ![a] = Append(@, f)]
      /\ Hold(a, None) /\ Goto(a, "load")
      /\ activePages' = IF frames[a] = <<>> /\ call[a].after # "create"
                        THEN Without(0) ELSE activePages
      /\ lastFinalized' = [lastFinalized EXCEPT ![page[a].level] =
                                  [id |-> page[a].id, hash |-> Hash(page[a])]]
      /\ UNCHANGED <<storage, nextPageId, call, worldVars>>
  BY DEF TrackFinalized
<1> HIDE DEF f
<1>2. frames'[a] = Append(frames[a], f) /\ page'[a] = None /\ pc'[a] = "load"
  BY <1>1 DEF Hold, Goto, IInv, TypeOK
<1>3. /\ Len(frames'[a]) = Len(frames[a]) + 1
      /\ \A i \in 1 .. Len(frames[a]) : frames'[a][i] = frames[a][i]
      /\ frames'[a][Len(frames[a]) + 1] = f
  BY <1>2, DepthOK, AppendList
<1> QED
  BY <1>1, <1>2, <1>3, DepthOK DEF Depth, f

(* perform_rollup goes on without touching a page or a map. *)
LEMMA RollupRestsEffect ==
    ASSUME IInv, NEW a \in Appenders,
           LoadChild(a) \/ ParentNotStale(a) \/ ReturnToParent(a)
    PROVE  /\ pc[a] \in {"load", "stale", "return"}
           /\ pc'[a] \in {"stale", "parent", "return"}
           /\ page' = page /\ call' = call /\ Depth(a) > 0 /\ Depth(a)' > 0
           /\ UNCHANGED <<managerVars, worldVars>>
<1>1. IInv' /\ Mine(a)
  BY CallStepOK DEF Step
<1>2. /\ pc[a] \in {"load", "stale", "return"}
      /\ page' = page /\ call' = call /\ UNCHANGED <<managerVars, worldVars>>
  BY DEF LoadChild, ParentNotStale, ReturnToParent
<1>3. pc'[a] \in {"stale", "parent", "return"}
  <2>1. CASE LoadChild(a) \/ ParentNotStale(a)
    BY <2>1 DEF LoadChild, ParentNotStale, Goto, IInv, TypeOK
  <2>2. CASE ReturnToParent(a)
    <3>1. IsFrame(frames[a][Len(frames[a]) - 1])
      BY <2>2 DEF ReturnToParent, IInv, TypeOK, CallTypeOK, IsList
    <3> QED
      BY <2>2, <3>1 DEF ReturnToParent, Goto, IsFrame, IInv, TypeOK
  <2> QED
    BY <2>1, <2>2
<1>4. Depth(a) > 0
  BY <1>2, DepthOK DEF InRollup
<1>5. Depth(a)' > 0
  BY <1>1, <1>3 DEF IInv, TypeOK, CallTypeOK, InRollup, Depth
<1> QED
  BY <1>2, <1>3, <1>4, <1>5

(* The child is not in the store. *)
LEMMA ChildMissingEffect ==
    ASSUME IInv, NEW a \in Appenders, ChildMissing(a)
    PROVE  pc[a] = "load" /\ Leave(a) /\ UNCHANGED <<managerVars, worldVars>>
BY DEF ChildMissing

(* A parent that has ended is taken out of the map. *)
LEMMA RetireStaleEffect ==
    ASSUME IInv, NEW a \in Appenders, RetireStaleParent(a)
    PROVE  /\ pc[a] = "stale" /\ call' = call /\ Depth(a) > 0 /\ Depth(a)' = Depth(a)
           /\ \E p \in activePages :
                 /\ p.level = Depth(a) /\ Trigger(a) >= EndTime(p)
                 /\ activePages' = Without(Depth(a))
                 /\ \/ IsContentEmpty(p) /\ page' = page /\ frames' = frames
                                          /\ pc'[a] = "parent"
                    \/ /\ ~IsContentEmpty(p) /\ page'[a] = p /\ pc'[a] = "store"
                       /\ SetTop(a, "resume", "parent")
           /\ UNCHANGED <<storage, nextPageId, lastFinalized, worldVars>>
<1>1. /\ pc[a] = "stale" /\ call' = call
      /\ UNCHANGED <<storage, nextPageId, lastFinalized, worldVars>>
  BY DEF RetireStaleParent
<1>2. PICK p \in ActiveAt(ParentLevel(a)) :
         /\ Trigger(a) >= EndTime(p)
         /\ activePages' = Without(p.level)
         /\ \/ IsContentEmpty(p) /\ Goto(a, "parent") /\ UNCHANGED <<page, frames>>
            \/ ~IsContentEmpty(p) /\ Goto(a, "store") /\ Hold(a, p)
                                  /\ SetTop(a, "resume", "parent")
  BY DEF RetireStaleParent
<1>3. p \in activePages /\ p.level = Depth(a) /\ Depth(a) > 0
  BY <1>1, <1>2, AtParent DEF ActiveAt, Depth
<1>4. \/ IsContentEmpty(p) /\ page' = page /\ frames' = frames /\ pc'[a] = "parent"
      \/ /\ ~IsContentEmpty(p) /\ page'[a] = p /\ pc'[a] = "store"
         /\ SetTop(a, "resume", "parent")
  BY <1>2 DEF Goto, Hold, IInv, TypeOK
<1>5. Depth(a)' = Depth(a)
  <2>1. CASE frames' = frames
    BY <2>1 DEF Depth
  <2>2. CASE SetTop(a, "resume", "parent")
    BY <1>3, <2>2, SetTopKept DEF Depth
  <2> QED
    BY <1>4, <2>1, <2>2
<1> QED
  BY <1>1, <1>2, <1>3, <1>4, <1>5

(* A parent is obtained, and takes what the child has for it. *)
Obtained(a, p) ==
    /\ pc[a] = "parent" /\ pc'[a] = "settle" /\ Depth(a) > 0
    /\ IsPage(p) /\ p.level = Depth(a)
    /\ page'[a] = RollInto(p, TopFrame(a).child) /\ IsPage(TopFrame(a).child)
    /\ UNCHANGED <<activePages, storage, lastFinalized, call, frames, worldVars>>

LEMMA ParentEffect ==
    ASSUME IInv, NEW a \in Appenders,
           ReuseParent(a) \/ ReopenParent(a) \/ CreateParent(a)
    PROVE  \/ \E p \in SuitableActive(a) : ReuseParent(a) /\ Obtained(a, p)
                                          /\ nextPageId' = nextPageId
           \/ /\ SuitableActive(a) = {}
              /\ \E p \in Reopenable(a) : ReopenParent(a) /\ Obtained(a, p)
                                         /\ nextPageId' = nextPageId
           \/ /\ SuitableActive(a) = {} /\ Reopenable(a) = {}
              /\ CreateParent(a)
              /\ nextPageId \in Nat /\ nextPageId' = nextPageId + 1
              /\ LET new == NewPage(nextPageId, ParentLevel(a), PrevHash(ParentLevel(a)),
                                    WindowStart(ParentLevel(a), Trigger(a)))
                 IN /\ Obtained(a, new) /\ new.id = nextPageId /\ new.leaves = <<>>
                    /\ IsContentEmpty(new)
<1>1. /\ pc[a] = "parent" /\ Depth(a) > 0 /\ ParentLevel(a) = Depth(a)
      /\ ParentLevel(a) \in Levels /\ Trigger(a) \in Nat
      /\ IsPage(TopFrame(a).child)
      /\ UNCHANGED <<activePages, storage, lastFinalized, call, frames, worldVars>>
  <2>1. /\ pc[a] = "parent"
        /\ UNCHANGED <<activePages, storage, lastFinalized, call, frames, worldVars>>
    BY DEF ReuseParent, ReopenParent, CreateParent, managerVars
  <2> QED
    BY <2>1, AtParent DEF Depth
<1>2. ASSUME NEW p, IsPage(p), p.level = ParentLevel(a), MergeInto(a, p)
      PROVE  Obtained(a, p)
  <2>1. page'[a] = RollInto(p, TopFrame(a).child) /\ pc'[a] = "settle"
    BY <1>2 DEF MergeInto, Hold, Goto, IInv, TypeOK
  <2> QED
    BY <1>1, <1>2, <2>1 DEF Obtained
<1>3. CASE ReuseParent(a)
  <2>1. PICK p \in SuitableActive(a) : MergeInto(a, p)
    BY <1>3 DEF ReuseParent
  <2>2. IsPage(p) /\ p.level = ParentLevel(a)
    BY DEF SuitableActive, ActiveAt, IInv, TypeOK, ManagerTypeOK
  <2> QED
    BY <1>2, <1>3, <2>1, <2>2 DEF ReuseParent, managerVars
<1>4. CASE ReopenParent(a)
  <2>1. PICK p \in Reopenable(a) : MergeInto(a, p)
    BY <1>4 DEF ReopenParent
  <2>2. IsPage(p) /\ p.level = ParentLevel(a)
    BY DEF Reopenable, LastStored, Stored, IInv, TypeOK, ManagerTypeOK
  <2> QED
    BY <1>2, <1>4, <2>1, <2>2 DEF ReopenParent, managerVars
<1>5. CASE CreateParent(a)
  <2> DEFINE level == ParentLevel(a)
             start == WindowStart(ParentLevel(a), Trigger(a))
             prev == PrevHash(ParentLevel(a))
             new == NewPage(nextPageId, level, prev, start)
  <2>1. level \in Levels /\ start \in Nat /\ nextPageId \in Nat
    BY <1>1, WindowHolds DEF IInv, TypeOK, ManagerTypeOK
  <2>2. /\ SuitableActive(a) = {} /\ Reopenable(a) = {}
        /\ MergeInto(a, new) /\ nextPageId' = nextPageId + 1
    BY <1>5 DEF CreateParent
  <2> HIDE DEF start, prev
  <2>3. IsPage(new) /\ new.level = level /\ new.id = nextPageId /\ new.leaves = <<>>
        /\ IsContentEmpty(new)
    BY <2>1, NewPageIsPage
  <2> HIDE DEF new
  <2>4. Obtained(a, new)
    BY <1>2, <2>2, <2>3
  <2> QED
    BY <1>5, <2>1, <2>2, <2>3, <2>4 DEF new, start, prev
<1> QED
  BY <1>3, <1>4, <1>5

(* The parent is dropped, finalized or kept. *)
LEMMA SettleEffect ==
    ASSUME IInv, NEW a \in Appenders,
           DiscardParent(a) \/ FinalizeParent(a) \/ KeepParent(a)
    PROVE  /\ pc[a] = "settle" /\ call' = call
           /\ IsPage(page[a]) /\ page[a].level = Depth(a) /\ Depth(a) > 0
           /\ Depth(a)' = Depth(a)
           /\ UNCHANGED <<storage, lastFinalized, worldVars>>
           /\ \/ /\ DiscardParent(a) /\ IsContentEmpty(page[a])
                 /\ activePages' = Without(Depth(a)) /\ nextPageId' = Reverted(page[a].id)
                 /\ page'[a] = None /\ pc'[a] = "return" /\ frames' = frames
              \/ /\ FinalizeParent(a) /\ ParentDone(a)
                 /\ activePages' = Without(Depth(a)) /\ nextPageId' = nextPageId
                 /\ page' = page /\ pc'[a] = "store" /\ SetTop(a, "resume", "return")
              \/ /\ KeepParent(a) /\ ~ParentDone(a)
                 /\ activePages' = WithActive(page[a]) /\ nextPageId' = nextPageId
                 /\ page'[a] = None /\ pc'[a] = "return" /\ frames' = frames
<1>1. pc[a] = "settle" /\ call' = call /\ UNCHANGED <<storage, lastFinalized, worldVars>>
  BY DEF DiscardParent, FinalizeParent, KeepParent
<1>2. IsPage(page[a]) /\ page[a].level = Depth(a) /\ Depth(a) > 0
  BY <1>1, AtParent, DepthOK DEF HoldsPage, Depth
<1>3. CASE DiscardParent(a)
  BY <1>1, <1>2, <1>3 DEF DiscardParent, Goto, Hold, IInv, TypeOK, Depth
<1>4. CASE KeepParent(a)
  BY <1>1, <1>2, <1>4 DEF KeepParent, Goto, Hold, IInv, TypeOK, Depth
<1>5. CASE FinalizeParent(a)
  <2>1. SetTop(a, "resume", "return")
    BY <1>5 DEF FinalizeParent
  <2>2. Depth(a)' = Depth(a)
    BY <1>2, <2>1, SetTopKept DEF Depth
  <2> QED
    BY <1>1, <1>2, <1>5, <2>1, <2>2 DEF FinalizeParent, Goto, IInv, TypeOK
<1> QED
  BY <1>3, <1>4, <1>5

(* perform_rollup returns to add_leaf. *)
LEMMA ReturnEffect ==
    ASSUME IInv, NEW a \in Appenders, ReturnToAddLeaf(a)
    PROVE  /\ pc[a] = "return" /\ Depth(a) > 0 /\ Depth(a)' = 0 /\ frames'[a] = <<>>
           /\ UNCHANGED <<managerVars, leafCount, storeFailures, restarts>>
           /\ \/ /\ Leave(a) /\ call[a].after = "done"
                 /\ accepted' = accepted \cup
                                   {[leaf |-> call[a].leaf, pageId |-> call[a].pageId]}
              \/ /\ page' = page /\ accepted' = accepted
                 /\ \/ pc'[a] = "create"
                    \/ pc'[a] = "take"
<1>1. /\ pc[a] = "return" /\ UNCHANGED <<managerVars, leafCount, storeFailures, restarts>>
      /\ \/ /\ Leave(a) /\ call[a].after = "done"
            /\ accepted' = accepted \cup
                              {[leaf |-> call[a].leaf, pageId |-> call[a].pageId]}
         \/ /\ page' = page /\ accepted' = accepted
            /\ Goto(a, "create") \/ Goto(a, "take")
            /\ frames' = [frames EXCEPT ![a] = <<>>]
  BY DEF ReturnToAddLeaf, ReturnOk
<1>2. Depth(a) > 0
  BY <1>1, DepthOK DEF InRollup
<1>3. frames'[a] = <<>>
  BY <1>1 DEF Leave, IInv, TypeOK
<1>4. Depth(a)' = 0
  BY <1>3 DEF Depth
<1> QED
  BY <1>1, <1>2, <1>3, <1>4 DEF Goto, IInv, TypeOK

(* Only a page that has just been written is tracked. *)
LEMMA NotToTrack ==
    ASSUME IInv, NEW a \in Appenders, Step(a), ~StorePage(a)
    PROVE  pc'[a] # "track"
<1>1. ASSUME NEW label, label # "track", Goto(a, label)
      PROVE  pc'[a] # "track"
  BY <1>1 DEF Goto, IInv, TypeOK
<1>2. ASSUME NEW b, NEW p, Obtain(b, p), b = a
      PROVE  pc'[a] # "track"
  BY <1>1, <1>2 DEF Obtain
<1>3. CASE Leave(a)
  BY <1>1, <1>3 DEF Leave
<1>4. CASE \/ TakeActivePage(a) \/ RetireActivePage(a) \/ FindNoActivePage(a)
           \/ CreatePage(a) \/ PreFinalize(a) \/ KeepActivePage(a)
  BY <1>1, <1>2, <1>3, <1>4 DEF TakeActivePage, RetireActivePage, FindNoActivePage,
     CreatePage, PreFinalize, KeepActivePage, ReturnOk
<1>5. CASE AppendLeaf(a)
  BY <1>5, AppendLeafEffect
<1>6. CASE StorageFails(a) \/ TrackFinalized(a) \/ LoadChild(a) \/ ChildMissing(a)
  BY <1>1, <1>3, <1>6 DEF StorageFails, TrackFinalized, LoadChild, ChildMissing
<1>7. CASE \/ RetireStaleParent(a) \/ ParentNotStale(a) \/ ReuseParent(a)
           \/ ReopenParent(a) \/ CreateParent(a)
  BY <1>1, <1>7 DEF RetireStaleParent, ParentNotStale, ReuseParent, ReopenParent,
     CreateParent, MergeInto
<1>8. CASE DiscardParent(a) \/ FinalizeParent(a) \/ KeepParent(a)
  BY <1>1, <1>8 DEF DiscardParent, FinalizeParent, KeepParent
<1>9. CASE ReturnToParent(a) \/ ReturnToAddLeaf(a)
  <2>1. ReturnToParent(a) => pc'[a] # "track"
    BY RollupRestsEffect
  <2>2. ReturnToAddLeaf(a) => Leave(a) \/ pc'[a] # "track"
    BY ReturnEffect
  <2> QED
    BY <1>3, <1>9, <2>1, <2>2
<1> QED
  BY <1>4, <1>5, <1>6, <1>7, <1>8, <1>9 DEF Step

----------------------------------------------------------------------------
(***************************************************************************)
(* One call at a time, as under the mutex of Journal::append_leaf, and no  *)
(* restart.  Page ids are then those of one page each, at one level; the   *)
(* page of a leaf is in one place, or passes from one to the next without  *)
(* losing a leaf; and no step writes a stored leaf page again.             *)
(***************************************************************************)
Alone(a) == \A b \in Appenders \ {a} : pc[b] = "idle"

(* The id generator runs ahead of the pages, and an id tells the level. *)
IdsOK ==
    /\ \A p \in Around : p.id < nextPageId
    /\ \A p, q \in Around : p.id = q.id => p.level = q.level
    /\ \A p, q \in storage : p.id = q.id => p = q
    /\ \A p, q \in activePages : p.level = q.level => p = q

(* What is stored has content; an empty page can give its id back. *)
ContentOK ==
    /\ \A p \in storage : ~IsContentEmpty(p)
    /\ \A p \in activePages : p.level = 0 => p.leaves # <<>>
    /\ \A p \in Around : p.level > 0 => p.leaves = <<>>
    /\ \A p \in Around, q \in storage : IsContentEmpty(p) => p.id # q.id

Unstored(id) == \A q \in storage : q.id # id

LeafPageInHand(a) == pc[a] \in {"have", "insert", "store", "track"} /\ Depth(a) = 0

(* The page of the leaf on its way through the call. *)
FlowOK(a) ==
    /\ pc[a] \in {"store", "track"} => ~IsContentEmpty(page[a])
    /\ pc[a] = "insert" => ~Pending(a)
    /\ pc[a] = "create" \/ Depth(a) > 0 => ActiveAt(0) = {}
    /\ pc[a] \in {"store", "track"} /\ (Depth(a) > 0 \/ call[a].after = "create") =>
          ActiveAt(page[a].level) = {}
    /\ LeafPageInHand(a) =>
          \A p \in ActiveAt(0) : p.id = page[a].id /\ LeavesOf(p) \subseteq LeavesOf(page[a])
    /\ LeafPageInHand(a) /\ pc[a] # "track" => Unstored(page[a].id)
    /\ pc[a] # "idle" /\ ~Pending(a) /\ Depth(a) = 0 => call[a].leaf \in LeavesOf(page[a])

(* An active leaf page is in the store only while its call has just written it. *)
LiveNotStored ==
    (\A a \in Appenders : pc[a] = "track" => Depth(a) > 0) =>
        \A p \in ActiveAt(0) : Unstored(p.id)

GInv == IdsOK /\ ContentOK /\ LiveNotStored /\ \A a \in Appenders : FlowOK(a)

(* The leaf is in the store once its page has been written. *)
LeafStored(a) ==
    /\ pc[a] = "track" /\ Depth(a) = 0 => page[a] \in storage
    /\ pc[a] # "idle" /\ ~Pending(a) /\ Depth(a) > 0 => call[a].leaf \in StoredLeaves

SInv == \A a \in Appenders : LeafStored(a)

(* The only page in hand is that of the call going on. *)
LEMMA OnlyHand ==
    ASSUME NEW a \in Appenders, Alone(a), Mine(a)
    PROVE  /\ Alone(a)'
           /\ \A p \in Around : \/ p \in activePages \/ p \in storage
                                \/ pc[a] \in HoldsPage /\ p = page[a]
           /\ \A p \in Around' : \/ p \in activePages' \/ p \in storage'
                                 \/ pc'[a] \in HoldsPage /\ p = page'[a]
           /\ activePages' \subseteq Around' /\ storage' \subseteq Around'
           /\ pc'[a] \in HoldsPage => page'[a] \in Around'
<1>1. Alone(a)'
  BY DEF Alone, Mine
<1>2. \A b \in Appenders \ {a} : pc[b] \notin HoldsPage /\ pc'[b] \notin HoldsPage
  BY <1>1 DEF Alone, HoldsPage
<1> QED
  BY <1>1, <1>2 DEF Around

(* An idle call asks for nothing. *)
LEMMA IdleFlow ==
    ASSUME IInv, NEW a \in Appenders, pc[a] = "idle"
    PROVE  FlowOK(a)
BY DepthOK DEF FlowOK, LeafPageInHand, InAddLeaf

(* So it is enough to look at the call going on. *)
LEMMA FlowOfOne ==
    ASSUME IInv, NEW a \in Appenders, Alone(a), FlowOK(a)
    PROVE  \A b \in Appenders : FlowOK(b)
BY IdleFlow DEF Alone

(* A merge into a parent takes nothing out of it. *)
LEMMA RollIntoEmpty ==
    ASSUME NEW parent, IsPage(parent), NEW child, IsPage(child),
           IsContentEmpty(RollInto(parent, child))
    PROVE  IsContentEmpty(parent)
<1> DEFINE ts == EndTime(child)
           hash == Hash(child)
           hashed == AddThrallHash(parent, hash, ts)
           patches == PatchesOf(child)
<1>0. ts \in Nat
  BY EndOfPage
<1> HIDE DEF ts, hash
<1>1. /\ IsPage(hashed) /\ Len(hashed.kids) = Len(parent.kids) + 1
      /\ Len(parent.kids) \in Nat
  <2>1. Len(parent.kids) \in Nat
    BY DEF IsPage, IsList
  <2> QED
    BY <1>0, <2>1, AddThrallHashIsPage
<1>2. DOMAIN patches \subseteq Objects
  BY DEF PatchesOf, LeafPatches, IsPage
<1> HIDE DEF hashed, patches
<1>3. hashed.kids # <<>>
  BY <1>1
<1>4. \A p : IsPage(p) => MergeNetPatches(p, patches, ts).kids = p.kids
  BY <1>0, <1>2, MergeNetPatchesIsPage
<1>5. \A p : IsPage(p) => DOMAIN p.patches \subseteq DOMAIN MergeNetPatches(p, patches, ts).patches
  BY <1>0, <1>2, MergeNetPatchesIsPage
<1>6. \/ RollInto(parent, child) = parent
      \/ RollInto(parent, child) = hashed
      \/ RollInto(parent, child) = MergeNetPatches(parent, patches, ts)
      \/ RollInto(parent, child) = MergeNetPatches(hashed, patches, ts)
  BY DEF RollInto, ts, hash, hashed, patches
<1>7. CASE RollInto(parent, child) = parent
  BY <1>7
<1>8. CASE RollInto(parent, child) = hashed
  BY <1>3, <1>8 DEF IsContentEmpty
<1>9. CASE RollInto(parent, child) = MergeNetPatches(hashed, patches, ts)
  BY <1>1, <1>3, <1>4, <1>9 DEF IsContentEmpty
<1>10. CASE RollInto(parent, child) = MergeNetPatches(parent, patches, ts)
  <2>1. parent.kids = <<>> /\ DOMAIN parent.patches = {}
    BY <1>4, <1>5, <1>10 DEF IsContentEmpty
  <2>2. parent.leaves = <<>>
    BY <1>10, RollIntoIsPage DEF IsContentEmpty
  <2> QED
    BY <2>1, <2>2 DEF IsContentEmpty
<1> QED
  BY <1>6, <1>7, <1>8, <1>9, <1>10

(* The parent after the merge, against the parent obtained. *)
LEMMA MergedPage ==
    ASSUME NEW a \in Appenders, NEW p, Obtained(a, p)
    PROVE  /\ IsPage(page'[a])
           /\ page'[a].id = p.id /\ page'[a].level = p.level /\ page'[a].leaves = p.leaves
           /\ page'[a].prev = p.prev
           /\ IsContentEmpty(page'[a]) => IsContentEmpty(p)
           /\ UNCHANGED <<activePages, storage, lastFinalized>>
<1> DEFINE child == TopFrame(a).child
<1>1. IsPage(p) /\ IsPage(child) /\ page'[a] = RollInto(p, child)
      /\ UNCHANGED <<activePages, storage, lastFinalized>>
  BY DEF Obtained
<1> HIDE DEF child
<1>2. /\ IsPage(RollInto(p, child))
      /\ RollInto(p, child).id = p.id /\ RollInto(p, child).level = p.level
      /\ RollInto(p, child).leaves = p.leaves /\ RollInto(p, child).prev = p.prev
  BY <1>1, RollIntoIsPage
<1>3. IsContentEmpty(RollInto(p, child)) => IsContentEmpty(p)
  BY <1>1, RollIntoEmpty
<1> QED
  BY <1>1, <1>2, <1>3

(* Steps that make no page and store none keep the ids and contents in order. *)
LEMMA FewerPages ==
    ASSUME IdsOK, ContentOK, Around' \subseteq Around, nextPageId' = nextPageId,
           storage' = storage, activePages' \subseteq activePages
    PROVE  IdsOK' /\ ContentOK'
<1>1. IdsOK'
  BY DEF IdsOK
<1>2. ContentOK'
  BY DEF ContentOK
<1> QED
  BY <1>1, <1>2

(* A leaf page that is active has leaves, so it is never given back. *)
LEMMA RetiredHasLeaves ==
    ASSUME IInv, ContentOK, NEW a \in Appenders, RetireActivePage(a)
    PROVE  \E p \in ActiveAt(0) :
              /\ ~IsContentEmpty(p)
              /\ page'[a] = p /\ pc'[a] = "store"
              /\ call'[a].after = "create" /\ nextPageId' = nextPageId
<1>1. \A p \in ActiveAt(0) : ~IsContentEmpty(p)
  BY DEF ActiveAt, ContentOK, IsContentEmpty
<1> QED
  BY <1>1, RetireEffect

(* Ids and contents stay in order: the steps of add_leaf on the leaf page. *)
LEMMA LeafPageIds ==
    ASSUME IInv, GInv, NEW a \in Appenders, Alone(a),
           \/ TakeActivePage(a) \/ RetireActivePage(a) \/ CreatePage(a)
           \/ PreFinalize(a) \/ AppendLeaf(a) \/ KeepActivePage(a)
    PROVE  IdsOK' /\ ContentOK'
<1> USE DEF GInv
<1>1. /\ Mine(a) /\ IInv'
  BY CallStepOK DEF Step
<1>2. /\ \A p \in Around' : \/ p \in activePages' \/ p \in storage'
                            \/ pc'[a] \in HoldsPage /\ p = page'[a]
      /\ activePages \subseteq Around /\ storage \subseteq Around
      /\ pc[a] \in HoldsPage => page[a] \in Around
  BY <1>1, OnlyHand, AroundParts
<1>3. CASE TakeActivePage(a)
  <2>1. /\ page'[a] \in activePages /\ UNCHANGED <<activePages, storage, nextPageId>>
    BY <1>3, TakeEffect DEF ActiveAt, managerVars
  <2>2. Around' \subseteq Around
    BY <1>2, <2>1
  <2> QED
    BY <2>1, <2>2, FewerPages
<1>4. CASE RetireActivePage(a)
  <2>1. /\ page'[a] \in activePages /\ storage' = storage /\ nextPageId' = nextPageId
        /\ activePages' \subseteq activePages
    BY <1>4, RetiredHasLeaves, RetireEffect DEF ActiveAt, Without
  <2>2. Around' \subseteq Around
    BY <1>2, <2>1
  <2> QED
    BY <2>1, <2>2, FewerPages
<1>5. CASE CreatePage(a)
  <2> DEFINE p == page'[a]
  <2>1. /\ p.id = nextPageId /\ p.level = 0 /\ p.leaves = <<>>
        /\ nextPageId \in Nat /\ nextPageId' = nextPageId + 1
        /\ activePages' = activePages /\ storage' = storage
    BY <1>5, CreateEffect
  <2> HIDE DEF p
  <2>2. \A q \in Around' : q \in Around \/ q = p
    BY <1>2, <2>1 DEF p
  <2>3. \A q \in Around : q.id \in Nat /\ q.id < nextPageId
    BY AroundArePages DEF IdsOK, IsPage
  <2>4. \A q \in Around : q.id # p.id /\ q.id < nextPageId + 1
    BY <2>1, <2>3
  <2>5. p.id < nextPageId + 1
    BY <2>1
  <2>6. IdsOK'
    BY <2>1, <2>2, <2>4, <2>5 DEF IdsOK
  <2>7. ContentOK'
    BY <1>2, <2>1, <2>2, <2>4 DEF ContentOK
  <2> QED
    BY <2>6, <2>7
<1>6. CASE PreFinalize(a)
  <2>1. /\ page' = page /\ pc[a] = "have" /\ UNCHANGED <<activePages, storage, nextPageId>>
    BY <1>6, PreFinalizeEffect DEF managerVars
  <2>2. Around' \subseteq Around
    BY <1>2, <2>1 DEF HoldsPage
  <2> QED
    BY <2>1, <2>2, FewerPages
<1>7. CASE AppendLeaf(a)
  <2> DEFINE p == page[a]
             g == page'[a]
  <2>1. /\ p \in Around /\ p.level = 0 /\ g.id = p.id /\ g.level = 0
        /\ p.leaves \in Seq(Leaf) /\ call[a].leaf \in Leaf
        /\ g.leaves = Append(p.leaves, call[a].leaf)
        /\ UNCHANGED <<activePages, storage, nextPageId>>
    BY <1>7, AppendLeafEffect DEF managerVars, IsPage
  <2>2. g.leaves # <<>>
    BY <2>1
  <2> HIDE DEF p, g
  <2>3. \A q \in Around' : q \in Around \/ q = g
    BY <1>2, <2>1 DEF g
  <2>4. IdsOK'
    BY <2>1, <2>3 DEF IdsOK
  <2>5. ContentOK'
    BY <2>1, <2>2, <2>3 DEF ContentOK, IsContentEmpty
  <2> QED
    BY <2>4, <2>5
<1>8. CASE KeepActivePage(a)
  <2>1. /\ pc[a] = "insert" /\ pc'[a] = "idle" /\ activePages' = WithActive(page[a])
        /\ storage' = storage /\ nextPageId' = nextPageId
    BY <1>8, KeepActiveEffect, LeaveEffect
  <2>2. /\ page[a] \in Around /\ page[a].level = 0 /\ page[a].leaves # <<>>
        /\ \A p \in activePages' : p = page[a] \/ (p \in activePages /\ p.level # 0)
    <3>1. page[a] \in Around /\ page[a].level = 0 /\ Depth(a) = 0
      BY <1>2, <2>1, DepthOK DEF HoldsPage, InAddLeaf
    <3>2. call[a].leaf \in LeavesOf(page[a])
      BY <2>1, <3>1 DEF FlowOK
    <3>3. page[a].leaves # <<>>
      BY <3>2 DEF LeavesOf
    <3> QED
      BY <2>1, <3>1, <3>3 DEF WithActive, Without
  <2>3. Around' \subseteq Around
    BY <1>2, <2>1, <2>2 DEF HoldsPage
  <2>4. IdsOK'
    BY <2>1, <2>2, <2>3 DEF IdsOK
  <2>5. ContentOK'
    BY <2>1, <2>2, <2>3 DEF ContentOK
  <2> QED
    BY <2>4, <2>5
<1> QED
  BY <1>3, <1>4, <1>5, <1>6, <1>7, <1>8

(* The steps that finalize a page, and those of perform_rollup. *)
LEMMA RollupIds ==
    ASSUME IInv, GInv, NEW a \in Appenders, Alone(a), Step(a),
           pc[a] \in {"store", "track"} \cup InRollup
    PROVE  IdsOK' /\ ContentOK'
<1> USE DEF GInv
<1>1. /\ Mine(a) /\ IInv'
  BY CallStepOK
<1>2. /\ \A p \in Around' : \/ p \in activePages' \/ p \in storage'
                            \/ pc'[a] \in HoldsPage /\ p = page'[a]
      /\ activePages \subseteq Around /\ storage \subseteq Around
      /\ pc[a] \in HoldsPage => page[a] \in Around
  BY <1>1, OnlyHand, AroundParts
<1>3. ASSUME UNCHANGED <<storage, nextPageId>>, activePages' \subseteq activePages,
             \/ pc'[a] \notin HoldsPage
             \/ page'[a] \in activePages
             \/ page'[a] = page[a] /\ pc[a] \in HoldsPage
      PROVE  IdsOK' /\ ContentOK'
  <2>1. Around' \subseteq Around
    BY <1>2, <1>3
  <2> QED
    BY <1>3, <2>1, FewerPages
<1>4. CASE StorePage(a)
  <2> DEFINE p == page[a]
  <2>1. /\ pc[a] = "store" /\ page' = page /\ pc'[a] = "track"
        /\ storage' = (storage \ Stored(p.level, p.id)) \cup {p}
        /\ UNCHANGED <<activePages, nextPageId>>
    BY <1>4, StoreEffect
  <2>2. /\ p \in Around /\ ~IsContentEmpty(p) /\ p.level = Depth(a)
        /\ Depth(a) \in Nat /\ (Depth(a) > 0 => ActiveAt(p.level) = {})
    BY <1>2, <2>1, DepthOK DEF FlowOK, HoldsPage
  <2>3. /\ Around' \subseteq Around
        /\ \A q \in storage' : q = p \/ (q \in storage /\ q.id # p.id)
    BY <1>2, <2>1, <2>2 DEF IdsOK, Stored
  <2>4. IdsOK'
    BY <2>1, <2>3 DEF IdsOK
  <2>5. \A q \in activePages : IsContentEmpty(q) => q.id # p.id
    <3> SUFFICES ASSUME NEW q \in activePages, IsContentEmpty(q), q.id = p.id
                 PROVE  FALSE
      OBVIOUS
    <3>1. q.level = p.level
      BY <1>2, <2>2 DEF IdsOK
    <3>2. Depth(a) = 0
      BY <2>2, <3>1 DEF ActiveAt
    <3>3. q.leaves # <<>>
      BY <2>2, <3>1, <3>2 DEF ContentOK
    <3> QED
      BY <3>3 DEF IsContentEmpty
  <2> HIDE DEF p
  <2>6. ContentOK'
    <3>1. \A x \in Around', q \in storage' : IsContentEmpty(x) => x.id # q.id
      <4> SUFFICES ASSUME NEW x \in Around', NEW q \in storage', IsContentEmpty(x)
                   PROVE  x.id # q.id
        OBVIOUS
      <4>1. CASE q # p
        BY <2>3, <4>1 DEF ContentOK
      <4>2. CASE q = p
        <5>1. x \in activePages
          BY <1>2, <2>1, <2>2, <2>3 DEF ContentOK, p
        <5> QED
          BY <2>5, <4>2, <5>1
      <4> QED
        BY <4>1, <4>2
    <3> QED
      BY <2>1, <2>2, <2>3, <3>1 DEF ContentOK
  <2> QED
    BY <2>4, <2>6
<1>5. CASE StorageFails(a)
  BY <1>3, <1>5, StorageFailsEffect, LeaveEffect DEF managerVars, HoldsPage
<1>6. CASE TrackFinalized(a)
  BY <1>3, <1>6, TrackEffect DEF Without, HoldsPage
<1>7. CASE ChildMissing(a)
  BY <1>3, <1>7, ChildMissingEffect, LeaveEffect DEF managerVars, HoldsPage
<1>8. CASE LoadChild(a) \/ ParentNotStale(a) \/ ReturnToParent(a)
  BY <1>3, <1>8, RollupRestsEffect DEF managerVars, HoldsPage
<1>9. CASE RetireStaleParent(a)
  BY <1>3, <1>9, RetireStaleEffect DEF Without, HoldsPage
<1>10. ASSUME NEW p \in Around, Obtained(a, p), nextPageId' = nextPageId
       PROVE  IdsOK' /\ ContentOK'
  <2> DEFINE m == page'[a]
  <2>1. /\ m.id = p.id /\ m.level = p.level /\ m.leaves = p.leaves
        /\ IsContentEmpty(m) => IsContentEmpty(p)
        /\ UNCHANGED <<activePages, storage>>
    BY <1>10, MergedPage
  <2> HIDE DEF m
  <2>2. \A q \in Around' : q \in Around \/ q = m
    BY <1>2, <2>1 DEF m
  <2>3. IdsOK'
    BY <1>10, <2>1, <2>2 DEF IdsOK
  <2>4. ContentOK'
    BY <1>10, <2>1, <2>2 DEF ContentOK
  <2> QED
    BY <2>3, <2>4
<1>11. CASE ReuseParent(a) \/ ReopenParent(a)
  <2>1. \E p \in Around : Obtained(a, p) /\ nextPageId' = nextPageId
    <3>1. SuitableActive(a) \subseteq Around /\ Reopenable(a) \subseteq Around
      BY <1>2 DEF SuitableActive, ActiveAt, Reopenable, LastStored, Stored
    <3>2. ~CreateParent(a) \/ ReuseParent(a) \/ ReopenParent(a)
      BY <1>11
    <3>3. CreateParent(a) /\ SuitableActive(a) = {} /\ Reopenable(a) = {} => FALSE
      BY <1>11 DEF ReuseParent, ReopenParent
    <3> QED
      BY <1>11, <3>1, <3>3, ParentEffect
  <2> QED
    BY <1>10, <2>1
<1>12. CASE CreateParent(a)
  <2> DEFINE new == NewPage(nextPageId, ParentLevel(a), PrevHash(ParentLevel(a)),
                            WindowStart(ParentLevel(a), Trigger(a)))
             m == page'[a]
  <2>1. /\ Obtained(a, new) /\ new.id = nextPageId /\ new.leaves = <<>>
        /\ nextPageId \in Nat /\ nextPageId' = nextPageId + 1
    <3>1. SuitableActive(a) = {} /\ Reopenable(a) = {}
      BY <1>12 DEF CreateParent
    <3> QED
      BY <1>12, <3>1, ParentEffect
  <2> HIDE DEF new
  <2>2. /\ m.id = nextPageId /\ m.leaves = <<>> /\ m.level > 0
        /\ UNCHANGED <<activePages, storage>>
    BY <2>1, RollIntoIsPage DEF Obtained
  <2> HIDE DEF m
  <2>3. \A q \in Around' : q \in Around \/ q = m
    BY <1>2, <2>2 DEF m
  <2>4. \A q \in Around : q.id \in Nat /\ q.id < nextPageId
    BY AroundArePages DEF IdsOK, IsPage
  <2>5. \A q \in Around : q.id # m.id /\ q.id < nextPageId + 1
    BY <2>1, <2>2, <2>4
  <2>6. m.id < nextPageId + 1
    BY <2>1, <2>2
  <2>7. IdsOK'
    BY <2>1, <2>2, <2>3, <2>5, <2>6 DEF IdsOK
  <2>8. ContentOK'
    BY <1>2, <2>2, <2>3, <2>5 DEF ContentOK
  <2> QED
    BY <2>7, <2>8
<1>13. CASE DiscardParent(a)
  <2> DEFINE p == page[a]
  <2>1. /\ IsContentEmpty(p) /\ p.level = Depth(a) /\ pc[a] = "settle" /\ pc'[a] = "return"
        /\ activePages' = Without(p.level) /\ nextPageId' = Reverted(p.id)
        /\ storage' = storage /\ IsPage(p)
    <3>1. ~FinalizeParent(a) /\ ~KeepParent(a)
      BY <1>13 DEF DiscardParent, FinalizeParent, KeepParent, ParentDone
    <3> QED
      BY <1>13, <3>1, SettleEffect
  <2>2. p \in Around
    BY <1>2, <2>1 DEF HoldsPage
  <2> HIDE DEF p
  <2>3. \A q \in Around' : q \in Around /\ (q \in storage \/ q.level # p.level)
    BY <1>2, <2>1 DEF HoldsPage, Without
  <2>4. \A q \in Around' : q.id # p.id
    BY <2>1, <2>2, <2>3 DEF IdsOK, ContentOK
  <2>5. \A q \in Around' : q.id \in Nat /\ q.id < nextPageId
    BY <2>3, AroundArePages DEF IdsOK, IsPage
  <2>6. \A q \in Around' : q.id < nextPageId'
    BY <2>1, <2>4, <2>5 DEF Reverted, IsPage, IInv, TypeOK, ManagerTypeOK
  <2>7. activePages' \subseteq activePages
    BY <2>1 DEF Without
  <2>8. IdsOK'
    BY <2>1, <2>3, <2>6, <2>7 DEF IdsOK
  <2>9. ContentOK'
    BY <2>1, <2>3, <2>7 DEF ContentOK
  <2> QED
    BY <2>8, <2>9
<1>14. CASE FinalizeParent(a)
  <2>1. /\ pc[a] = "settle" /\ page' = page /\ UNCHANGED <<storage, nextPageId>>
        /\ activePages' \subseteq activePages
    BY <1>14 DEF FinalizeParent, Without
  <2> QED
    BY <1>3, <2>1 DEF HoldsPage
<1>15. CASE KeepParent(a)
  <2> DEFINE p == page[a]
  <2>1. /\ activePages' = WithActive(p) /\ p.level > 0 /\ pc[a] = "settle"
        /\ pc'[a] = "return" /\ UNCHANGED <<storage, nextPageId>>
    <3>1. ~FinalizeParent(a) /\ ~DiscardParent(a)
      BY <1>15 DEF DiscardParent, FinalizeParent, KeepParent
    <3> QED
      BY <1>15, <3>1, SettleEffect
  <2>2. p \in Around
    BY <1>2, <2>1 DEF HoldsPage
  <2>3. \A q \in activePages' : q = p \/ (q \in activePages /\ q.level # p.level)
    BY <2>1 DEF WithActive, Without
  <2> HIDE DEF p
  <2>4. Around' \subseteq Around
    BY <1>2, <2>1, <2>2, <2>3 DEF HoldsPage
  <2>5. IdsOK'
    BY <2>1, <2>3, <2>4 DEF IdsOK
  <2>6. ContentOK'
    BY <2>1, <2>3, <2>4 DEF ContentOK
  <2> QED
    BY <2>5, <2>6
<1>16. CASE ReturnToAddLeaf(a)
  <2>1. pc'[a] \notin HoldsPage /\ UNCHANGED <<activePages, storage, nextPageId>>
    BY <1>16, ReturnEffect, LeaveEffect DEF managerVars, HoldsPage
  <2> QED
    BY <1>3, <2>1
<1>17. ~(TakeActivePage(a) \/ RetireActivePage(a) \/ FindNoActivePage(a)
         \/ CreatePage(a) \/ PreFinalize(a) \/ AppendLeaf(a) \/ KeepActivePage(a))
  BY DEF TakeActivePage, RetireActivePage, FindNoActivePage, CreatePage, PreFinalize,
         AppendLeaf, KeepActivePage, InRollup
<1> QED
  BY <1>4, <1>5, <1>6, <1>7, <1>8, <1>9, <1>11, <1>12, <1>13, <1>14, <1>15, <1>16, <1>17
     DEF Step

(* Only a write changes the store, and it takes no leaf out of it. *)
LEMMA StoreGrows ==
    ASSUME IInv, GInv, NEW a \in Appenders, Step(a)
    PROVE  /\ ~StorePage(a) => storage' = storage
           /\ StorePage(a) /\ Depth(a) = 0 => storage' = storage \cup {page[a]}
           /\ StoredLeaves \subseteq StoredLeaves'
<1>1. ~StorePage(a) => storage' = storage
  BY DEF Step, TakeActivePage, RetireActivePage, FindNoActivePage, CreatePage, PreFinalize,
     AppendLeaf, KeepActivePage, StorageFails, TrackFinalized, LoadChild, ChildMissing,
     RetireStaleParent, ParentNotStale, ReuseParent, ReopenParent, CreateParent,
     DiscardParent, FinalizeParent, KeepParent, ReturnToParent, ReturnToAddLeaf, managerVars
<1>2. CASE ~StorePage(a)
  BY <1>1, <1>2 DEF StoredLeaves
<1>3. CASE StorePage(a)
  <2> DEFINE p == page[a]
  <2>1. /\ pc[a] = "store" /\ storage' = (storage \ Stored(p.level, p.id)) \cup {p}
        /\ p.level = Depth(a) /\ p \in Around /\ storage \subseteq Around
        /\ Depth(a) \in Nat
    BY <1>3, StoreEffect, DepthOK, AroundParts DEF HoldsPage
  <2>2. Depth(a) = 0 => Unstored(p.id)
    BY <2>1 DEF GInv, FlowOK, LeafPageInHand
  <2> HIDE DEF p
  <2>3. Depth(a) = 0 => storage' = storage \cup {p}
    BY <2>1, <2>2 DEF Unstored, Stored
  <2>4. \A q \in storage : q \in storage' \/ LeavesOf(q) = {}
    <3>1. CASE Depth(a) = 0
      BY <2>3, <3>1
    <3>2. CASE Depth(a) # 0
      <4> SUFFICES ASSUME NEW q \in storage, q \notin storage'
                   PROVE  LeavesOf(q) = {}
        OBVIOUS
      <4>1. q.level = p.level /\ p.level > 0
        BY <2>1, <3>2 DEF Stored
      <4>2. q.leaves = <<>>
        BY <2>1, <4>1 DEF GInv, ContentOK
      <4> QED
        BY <4>2 DEF LeavesOf
    <3> QED
      BY <3>1, <3>2
  <2>5. StoredLeaves \subseteq StoredLeaves'
    BY <2>4 DEF StoredLeaves
  <2> QED
    BY <1>3, <2>3, <2>5 DEF p
<1> QED
  BY <1>1, <1>2, <1>3

(* The leaf page keeps its course: the steps of add_leaf on it. *)
LEMMA LeafPageFlow ==
    ASSUME IInv, GInv, NEW a \in Appenders, Alone(a),
           \/ TakeActivePage(a) \/ RetireActivePage(a) \/ FindNoActivePage(a)
           \/ CreatePage(a) \/ PreFinalize(a) \/ AppendLeaf(a) \/ KeepActivePage(a)
    PROVE  FlowOK(a)' /\ LiveNotStored'
<1> USE DEF GInv
<1>1. /\ Mine(a) /\ IInv' /\ Alone(a)'
      /\ \A b \in Appenders : pc[b] = "track" => b = a
      /\ \A b \in Appenders : pc'[b] = "track" => b = a
  <2>1. Mine(a) /\ IInv'
    BY CallStepOK DEF Step
  <2>2. Alone(a)'
    BY <2>1, OnlyHand
  <2> QED
    BY <2>1, <2>2 DEF Alone
<1>2. Depth(a) \in Nat /\ FlowOK(a)
  BY DepthOK
<1>3. ASSUME pc[a] # "track" PROVE \A p \in ActiveAt(0) : Unstored(p.id)
  BY <1>1, <1>3 DEF LiveNotStored
<1>4. ASSUME pc[a] # "track", ActiveAt(0)' \subseteq ActiveAt(0), storage' = storage
      PROVE  LiveNotStored'
  BY <1>3, <1>4 DEF LiveNotStored, Unstored
<1>5. CASE TakeActivePage(a)
  <2>1. /\ pc[a] = "take" /\ pc'[a] = "have" /\ page'[a] \in ActiveAt(0)
        /\ Depth(a) = 0 /\ Depth(a)' = 0
        /\ ActiveAt(0)' = ActiveAt(0) /\ storage' = storage
    BY <1>5, TakeEffect, DepthOK DEF Depth, ActiveAt, managerVars, InAddLeaf
  <2>2. \A p \in ActiveAt(0) : p = page'[a]
    BY <2>1 DEF IdsOK, ActiveAt
  <2>3. Unstored(page[a].id)'
    BY <1>3, <2>1 DEF Unstored
  <2>4. FlowOK(a)'
    BY <2>1, <2>2, <2>3 DEF FlowOK, LeafPageInHand, Pending
  <2> QED
    BY <1>4, <2>1, <2>4
<1>6. CASE RetireActivePage(a)
  <2>1. /\ pc[a] = "take" /\ pc'[a] = "store" /\ page'[a] \in ActiveAt(0)
        /\ ~IsContentEmpty(page'[a]) /\ page'[a].level = 0 /\ call'[a].after = "create"
        /\ Depth(a)' = 0 /\ ActiveAt(0)' = {} /\ storage' = storage
    BY <1>6, RetiredHasLeaves, RetireEffect, DepthOK
       DEF Depth, ActiveAt, Without, InAddLeaf
  <2>2. Unstored(page[a].id)'
    BY <1>3, <2>1 DEF Unstored
  <2>3. FlowOK(a)'
    BY <2>1, <2>2 DEF FlowOK, LeafPageInHand, Pending
  <2> QED
    BY <1>4, <2>1, <2>3
<1>7. CASE FindNoActivePage(a)
  <2>1. /\ pc[a] = "take" /\ pc'[a] = "create" /\ Depth(a)' = 0
        /\ ActiveAt(0)' = {} /\ storage' = storage
    BY <1>7, DepthOK DEF FindNoActivePage, Goto, ActiveAt, managerVars, InAddLeaf, Depth,
       IInv, TypeOK
  <2>2. FlowOK(a)'
    BY <2>1 DEF FlowOK, LeafPageInHand, Pending
  <2> QED
    BY <1>4, <2>1, <2>2
<1>8. CASE CreatePage(a)
  <2>1. /\ pc[a] = "create" /\ pc'[a] = "have" /\ page'[a].id = nextPageId
        /\ Depth(a)' = 0 /\ activePages' = activePages /\ storage' = storage
        /\ nextPageId \in Nat
    BY <1>8, CreateEffect, DepthOK DEF Depth, InAddLeaf
  <2>2. ActiveAt(0)' = {}
    BY <1>2, <2>1 DEF ActiveAt, FlowOK
  <2>3. Unstored(page[a].id)'
    BY <2>1, AroundParts, AroundArePages DEF Unstored, IdsOK, IsPage
  <2>4. FlowOK(a)'
    BY <2>1, <2>2, <2>3 DEF FlowOK, LeafPageInHand, Pending
  <2>5. ActiveAt(0)' \subseteq ActiveAt(0)
    BY <2>2
  <2> QED
    BY <1>4, <2>1, <2>4, <2>5
<1>9. CASE PreFinalize(a)
  <2>1. /\ pc[a] = "have" /\ pc'[a] = "store" /\ page'[a] = page[a]
        /\ ~IsContentEmpty(page[a]) /\ call'[a].after = "retake"
        /\ Depth(a)' = 0 /\ Depth(a) = 0
        /\ ActiveAt(0)' = ActiveAt(0) /\ storage' = storage
    BY <1>9, PreFinalizeEffect, DepthOK DEF Depth, ActiveAt, managerVars, InAddLeaf
  <2>2. /\ Unstored(page[a].id)
        /\ \A p \in ActiveAt(0) : p.id = page[a].id /\ LeavesOf(p) \subseteq LeavesOf(page[a])
    BY <1>2, <2>1 DEF FlowOK, LeafPageInHand
  <2>3. FlowOK(a)'
    BY <2>1, <2>2 DEF FlowOK, LeafPageInHand, Pending, Unstored
  <2>4. ActiveAt(0)' \subseteq ActiveAt(0)
    BY <2>1
  <2> QED
    BY <1>4, <2>1, <2>3, <2>4
<1>10. CASE AppendLeaf(a)
  <2> DEFINE p == page[a]
             g == page'[a]
             leaf == call[a].leaf
  <2>1. /\ pc[a] = "have" /\ pc'[a] \in {"store", "insert"} /\ g.id = p.id
        /\ p.leaves \in Seq(Leaf) /\ leaf \in Leaf /\ g.leaves = Append(p.leaves, leaf)
        /\ call'[a].leaf = leaf /\ call'[a].after = "done"
        /\ Depth(a)' = 0 /\ Depth(a) = 0
        /\ ActiveAt(0)' = ActiveAt(0) /\ storage' = storage
    BY <1>10, AppendLeafEffect, DepthOK DEF Depth, ActiveAt, managerVars, InAddLeaf, IsPage
  <2>2. /\ Unstored(p.id)
        /\ \A q \in ActiveAt(0) : q.id = p.id /\ LeavesOf(q) \subseteq LeavesOf(p)
    BY <1>2, <2>1 DEF FlowOK, LeafPageInHand
  <2> HIDE DEF p, g, leaf
  <2>3. LeavesOf(p) \subseteq LeavesOf(g) /\ leaf \in LeavesOf(g) /\ ~IsContentEmpty(g)
    <3>1. /\ \A i \in DOMAIN p.leaves : i \in DOMAIN g.leaves /\ g.leaves[i] = p.leaves[i]
          /\ Len(p.leaves) + 1 \in DOMAIN g.leaves /\ g.leaves[Len(p.leaves) + 1] = leaf
          /\ g.leaves # <<>>
      BY <2>1
    <3> QED
      BY <3>1 DEF LeavesOf, IsContentEmpty
  <2>4. FlowOK(a)'
    <3>1. ~Pending(a)'
      BY <2>1 DEF Pending
    <3>2. Unstored(page[a].id)'
      BY <2>1, <2>2 DEF Unstored, g
    <3> QED
      BY <2>1, <2>2, <2>3, <3>1, <3>2 DEF FlowOK, LeafPageInHand, g, leaf
  <2>5. ActiveAt(0)' \subseteq ActiveAt(0)
    BY <2>1
  <2> QED
    BY <1>4, <2>1, <2>4, <2>5
<1>11. CASE KeepActivePage(a)
  <2>1. /\ pc[a] = "insert" /\ pc'[a] = "idle" /\ activePages' = WithActive(page[a])
        /\ storage' = storage /\ Depth(a) = 0 /\ Depth(a)' = 0
    BY <1>11, KeepActiveEffect, LeaveEffect, DepthOK DEF InAddLeaf, Depth
  <2>2. FlowOK(a)'
    BY <2>1 DEF FlowOK, LeafPageInHand
  <2>3. page[a].level = 0 /\ Unstored(page[a].id)
    BY <1>2, <2>1, DepthOK DEF FlowOK, LeafPageInHand, HoldsPage
  <2>4. ActiveAt(0)' = {page[a]}
    BY <2>1, <2>3 DEF ActiveAt, WithActive, Without
  <2>5. LiveNotStored'
    BY <2>1, <2>3, <2>4 DEF LiveNotStored, Unstored
  <2> QED
    BY <2>2, <2>5
<1> QED
  BY <1>5, <1>6, <1>7, <1>8, <1>9, <1>10, <1>11

(* It keeps its course while pages are finalized and rolled up. *)
LEMMA RollupFlow ==
    ASSUME IInv, GInv, NEW a \in Appenders, Alone(a), Step(a),
           pc[a] \in {"store", "track"} \cup InRollup
    PROVE  FlowOK(a)' /\ LiveNotStored'
<1> USE DEF GInv
<1>1. /\ Mine(a) /\ IInv' /\ Alone(a)'
      /\ \A b \in Appenders : pc[b] = "track" => b = a
      /\ \A b \in Appenders : pc'[b] = "track" => b = a
  <2>1. Mine(a) /\ IInv'
    BY CallStepOK
  <2>2. Alone(a)'
    BY <2>1, OnlyHand
  <2> QED
    BY <2>1, <2>2 DEF Alone
<1>2. /\ Depth(a) \in Nat /\ FlowOK(a)
      /\ pc[a] \in InRollup => Depth(a) > 0
      /\ Depth(a) > 0 => ActiveAt(0) = {}
  BY DepthOK DEF FlowOK
<1>4. ASSUME ActiveAt(0)' = {} PROVE LiveNotStored'
  BY <1>4 DEF LiveNotStored
<1>5. ASSUME Depth(a) > 0, Depth(a)' > 0, ActiveAt(0)' \subseteq ActiveAt(0), call' = call,
             pc'[a] \in InRollup
      PROVE  FlowOK(a)' /\ LiveNotStored'
  <2>1. ActiveAt(0)' = {}
    BY <1>2, <1>5
  <2>2. FlowOK(a)'
    BY <1>5, <2>1 DEF FlowOK, LeafPageInHand, InRollup
  <2> QED
    BY <1>4, <2>1, <2>2
<1>6. ASSUME Leave(a), pc[a] # "track", UNCHANGED <<activePages, storage>>
      PROVE  FlowOK(a)' /\ LiveNotStored'
  <2>1. pc'[a] = "idle" /\ Depth(a)' = 0
    BY <1>6, LeaveEffect DEF Depth
  <2>2. FlowOK(a)'
    BY <2>1 DEF FlowOK, LeafPageInHand
  <2>3. \A p \in ActiveAt(0) : Unstored(p.id)
    BY <1>1, <1>6 DEF LiveNotStored
  <2>4. ActiveAt(0)' = ActiveAt(0) /\ storage' = storage
    BY <1>6 DEF ActiveAt
  <2>5. LiveNotStored'
    BY <2>3, <2>4 DEF LiveNotStored, Unstored
  <2> QED
    BY <2>2, <2>5
<1>7. CASE StorePage(a)
  <2> DEFINE p == page[a]
  <2>1. /\ pc[a] = "store" /\ pc'[a] = "track" /\ page' = page /\ call' = call
        /\ Depth(a)' = Depth(a) /\ p \in storage' /\ activePages' = activePages
        /\ p.level = Depth(a)
    BY <1>7, StoreEffect, DepthOK DEF Depth, HoldsPage
  <2>2. /\ \A q \in ActiveAt(0) : Depth(a) = 0 => q.id = p.id /\ LeavesOf(q) \subseteq LeavesOf(p)
        /\ ~IsContentEmpty(p)
        /\ Depth(a) > 0 \/ call[a].after = "create" => ActiveAt(p.level) = {}
    BY <1>2, <2>1 DEF FlowOK, LeafPageInHand
  <2>3. \A l : ActiveAt(l)' = ActiveAt(l)
    BY <2>1 DEF ActiveAt
  <2>4. ~Pending(a)' => ~Pending(a) /\ (Pending(a) <=> call[a].after # "done")
    BY <2>1 DEF Pending
  <2>5. ~Pending(a) /\ Depth(a) = 0 => call[a].leaf \in LeavesOf(p)
    BY <1>2, <2>1 DEF FlowOK
  <2> HIDE DEF p
  <2>6. ActiveAt(page[a].level)' = ActiveAt(p.level) /\ page'[a] = p
    BY <2>1, <2>3 DEF p
  <2>7. FlowOK(a)'
    BY <1>2, <2>1, <2>2, <2>3, <2>4, <2>5, <2>6 DEF FlowOK, LeafPageInHand
  <2>8. LiveNotStored'
    BY <1>1, <1>2, <2>1, <2>3 DEF LiveNotStored
  <2> QED
    BY <2>7, <2>8
<1>8. CASE StorageFails(a)
  <2>1. pc[a] # "track" /\ Leave(a) /\ UNCHANGED <<activePages, storage>>
    BY <1>8, StorageFailsEffect DEF managerVars
  <2> QED
    BY <1>6, <2>1
<1>9. CASE TrackFinalized(a)
  <2>1. /\ pc[a] = "track" /\ pc'[a] = "load" /\ call' = call /\ storage' = storage
        /\ activePages' = IF Depth(a) = 0 /\ call[a].after # "create"
                          THEN Without(0) ELSE activePages
        /\ Depth(a)' = Depth(a) + 1 /\ page[a].level = Depth(a)
    BY <1>9, TrackEffect, DepthOK DEF HoldsPage
  <2>2. ActiveAt(0)' = {}
    <3>1. CASE Depth(a) = 0 /\ call[a].after # "create"
      BY <2>1, <3>1 DEF ActiveAt, Without
    <3>2. CASE Depth(a) = 0 /\ call[a].after = "create"
      <4>1. ActiveAt(0) = {}
        BY <1>2, <2>1, <3>2 DEF FlowOK
      <4> QED
        BY <2>1, <3>2, <4>1 DEF ActiveAt
    <3>3. CASE Depth(a) # 0
      BY <1>2, <2>1, <3>3 DEF ActiveAt
    <3> QED
      BY <3>1, <3>2, <3>3
  <2>3. FlowOK(a)'
    BY <1>2, <2>1, <2>2 DEF FlowOK, LeafPageInHand
  <2> QED
    BY <1>4, <2>2, <2>3
<1>10. CASE ChildMissing(a)
  <2>1. pc[a] = "load" /\ Leave(a) /\ UNCHANGED <<activePages, storage>>
    BY <1>10, ChildMissingEffect DEF managerVars
  <2> QED
    BY <1>6, <2>1
<1>11. CASE LoadChild(a) \/ ParentNotStale(a) \/ ReturnToParent(a)
  <2>1. /\ pc'[a] \in InRollup /\ call' = call /\ Depth(a) > 0 /\ Depth(a)' > 0
        /\ ActiveAt(0)' = ActiveAt(0)
    BY <1>11, RollupRestsEffect DEF InRollup, managerVars, ActiveAt
  <2> QED
    BY <1>5, <2>1
<1>12. ASSUME NEW p, pc[a] \in InRollup, pc'[a] = "store", page'[a] = p,
              ~IsContentEmpty(p), p.level = Depth(a), Depth(a)' = Depth(a), Depth(a) > 0,
              call' = call, storage' = storage, activePages' = Without(Depth(a))
       PROVE  FlowOK(a)' /\ LiveNotStored'
  <2>1. ActiveAt(0)' = {} /\ ActiveAt(page[a].level)' = {}
    BY <1>2, <1>12 DEF ActiveAt, Without
  <2>2. FlowOK(a)'
    BY <1>12, <2>1 DEF FlowOK, LeafPageInHand
  <2> QED
    BY <1>4, <2>1, <2>2
<1>13. CASE RetireStaleParent(a)
  <2>1. PICK p \in activePages :
         /\ p.level = Depth(a)
         /\ \/ pc'[a] = "parent"
            \/ ~IsContentEmpty(p) /\ page'[a] = p /\ pc'[a] = "store"
    BY <1>13, RetireStaleEffect
  <2>2. /\ pc[a] = "stale" /\ call' = call /\ Depth(a) > 0 /\ Depth(a)' = Depth(a)
        /\ activePages' = Without(Depth(a)) /\ storage' = storage
    BY <1>13, RetireStaleEffect
  <2>3. ActiveAt(0)' \subseteq ActiveAt(0)
    BY <2>2 DEF ActiveAt, Without
  <2>4. CASE pc'[a] = "parent"
    BY <1>5, <2>2, <2>3, <2>4 DEF InRollup
  <2>5. CASE ~IsContentEmpty(p) /\ page'[a] = p /\ pc'[a] = "store"
    BY <1>12, <2>1, <2>2, <2>5 DEF InRollup
  <2> QED
    BY <2>1, <2>4, <2>5
<1>14. CASE ReuseParent(a) \/ ReopenParent(a) \/ CreateParent(a)
  <2>1. \E p : Obtained(a, p)
    BY <1>14, ParentEffect
  <2>2. /\ pc'[a] \in InRollup /\ call' = call /\ Depth(a) > 0 /\ Depth(a)' = Depth(a)
        /\ ActiveAt(0)' = ActiveAt(0)
    BY <2>1 DEF Obtained, InRollup, ActiveAt, Depth
  <2> QED
    BY <1>5, <2>2
<1>15. CASE DiscardParent(a) \/ FinalizeParent(a) \/ KeepParent(a)
  <2>1. /\ pc[a] = "settle" /\ call' = call /\ page[a].level = Depth(a) /\ Depth(a) > 0
        /\ Depth(a)' = Depth(a) /\ storage' = storage
    BY <1>15, SettleEffect
  <2>2. CASE activePages' = Without(Depth(a)) /\ pc'[a] = "return"
    BY <1>5, <2>1, <2>2 DEF InRollup, ActiveAt, Without
  <2>3. CASE activePages' = WithActive(page[a]) /\ pc'[a] = "return"
    <3>1. ActiveAt(0)' \subseteq ActiveAt(0)
      BY <2>1, <2>3 DEF ActiveAt, WithActive, Without
    <3> QED
      BY <1>5, <2>1, <2>3, <3>1 DEF InRollup
  <2>4. CASE /\ ParentDone(a) /\ activePages' = Without(Depth(a)) /\ page' = page
             /\ pc'[a] = "store"
    BY <1>12, <2>1, <2>4 DEF ParentDone, InRollup
  <2> QED
    BY <1>15, <2>2, <2>3, <2>4, SettleEffect
<1>16. CASE ReturnToAddLeaf(a)
  <2>1. pc[a] = "return" /\ Depth(a) > 0 /\ Depth(a)' = 0 /\ UNCHANGED <<activePages, storage>>
        /\ (Leave(a) \/ pc'[a] \in {"create", "take"})
    BY <1>16, ReturnEffect DEF managerVars
  <2>2. ActiveAt(0)' = {}
    BY <1>2, <2>1 DEF ActiveAt
  <2>3. CASE Leave(a)
    BY <1>6, <2>1, <2>3
  <2>4. CASE pc'[a] \in {"create", "take"}
    <3>1. FlowOK(a)'
      BY <2>1, <2>2, <2>4 DEF FlowOK, LeafPageInHand, Pending
    <3> QED
      BY <1>4, <2>2, <3>1
  <2> QED
    BY <2>1, <2>3, <2>4
<1>17. ~(TakeActivePage(a) \/ RetireActivePage(a) \/ FindNoActivePage(a)
         \/ CreatePage(a) \/ PreFinalize(a) \/ AppendLeaf(a) \/ KeepActivePage(a))
  BY DEF TakeActivePage, RetireActivePage, FindNoActivePage, CreatePage, PreFinalize,
         AppendLeaf, KeepActivePage, InRollup
<1> QED
  BY <1>7, <1>8, <1>9, <1>10, <1>11, <1>13, <1>14, <1>15, <1>16, <1>17 DEF Step

(* The calls that are not going on are where they were. *)
LEMMA IdleFlows ==
    ASSUME IInv, NEW a \in Appenders, Alone(a), Mine(a), NEW b \in Appenders \ {a}
    PROVE  FlowOK(b)'
<1>1. pc[b] = "idle" /\ pc'[b] = "idle" /\ frames'[b] = frames[b]
  BY DEF Alone, Mine
<1>2. Depth(b) = 0
  BY <1>1, DepthOK DEF InAddLeaf
<1>3. Depth(b)' = 0
  BY <1>1, <1>2 DEF Depth
<1> QED
  BY <1>1, <1>3 DEF FlowOK, LeafPageInHand

(* A step of the call going on. *)
LEMMA StepFlow ==
    ASSUME IInv, GInv, NEW a \in Appenders, Alone(a), Step(a)
    PROVE  GInv'
<1>1. Mine(a)
  BY CallStepOK
<1>2. CASE pc[a] \in {"store", "track"} \cup InRollup
  <2>1. IdsOK' /\ ContentOK' /\ FlowOK(a)' /\ LiveNotStored'
    BY <1>2, RollupIds, RollupFlow
  <2> QED
    BY <1>1, <2>1, IdleFlows DEF GInv
<1>3. CASE /\ pc[a] \notin {"store", "track"} \cup InRollup
           /\ ~FindNoActivePage(a) /\ ~StorageFails(a)
  <2>1. \/ TakeActivePage(a) \/ RetireActivePage(a)
        \/ CreatePage(a) \/ PreFinalize(a) \/ AppendLeaf(a) \/ KeepActivePage(a)
    BY <1>3 DEF Step, StorePage, TrackFinalized, LoadChild, ChildMissing,
       RetireStaleParent, ParentNotStale, ReuseParent, ReopenParent, CreateParent,
       DiscardParent, FinalizeParent, KeepParent, ReturnToParent, ReturnToAddLeaf, InRollup
  <2>2. IdsOK' /\ ContentOK' /\ FlowOK(a)' /\ LiveNotStored'
    BY <2>1, LeafPageIds, LeafPageFlow
  <2> QED
    BY <1>1, <2>2, IdleFlows DEF GInv
<1>4. CASE FindNoActivePage(a)
  <2>1. UNCHANGED managerVars /\ pc'[a] = "create"
    BY <1>4 DEF FindNoActivePage, Goto, IInv, TypeOK
  <2>2. Around' \subseteq Around
    BY <1>1, <2>1, OnlyHand, AroundParts DEF managerVars, HoldsPage
  <2>3. IdsOK' /\ ContentOK'
    BY <2>1, <2>2, FewerPages DEF GInv, managerVars
  <2>4. FlowOK(a)' /\ LiveNotStored'
    BY <1>4, LeafPageFlow
  <2> QED
    BY <1>1, <2>3, <2>4, IdleFlows DEF GInv
<1>5. CASE StorageFails(a)
  <2>1. UNCHANGED managerVars /\ pc'[a] = "idle" /\ Depth(a)' = 0 /\ pc[a] # "track"
    BY <1>5, StorageFailsEffect, LeaveEffect DEF Depth
  <2>2. Around' \subseteq Around
    BY <1>1, <2>1, OnlyHand, AroundParts DEF managerVars, HoldsPage
  <2>3. IdsOK' /\ ContentOK'
    BY <2>1, <2>2, FewerPages DEF GInv, managerVars
  <2>4. FlowOK(a)'
    BY <2>1 DEF FlowOK, LeafPageInHand
  <2>5. \A b \in Appenders : pc[b] # "track"
    BY <2>1 DEF Alone
  <2>6. LiveNotStored'
    BY <2>1, <2>5 DEF GInv, LiveNotStored, Unstored, ActiveAt, managerVars
  <2> QED
    BY <1>1, <2>3, <2>4, <2>6, IdleFlows DEF GInv
<1> QED
  BY <1>2, <1>3, <1>4, <1>5

(* A new call while no other one is going on. *)
LEMMA CallFlow ==
    ASSUME IInv, GInv, NEW a \in Appenders, Alone(a), CallAddLeaf(a)
    PROVE  GInv' /\ Around' \subseteq Around /\ activePages \subseteq Around'
           /\ storage \subseteq Around' /\ \A p \in Around : p \in activePages \/ p \in storage
<1>1. /\ Mine(a) /\ pc[a] = "idle" /\ pc'[a] = "take"
      /\ frames' = frames /\ UNCHANGED managerVars
  BY CallEffect
<1>2. /\ Alone(a)'
      /\ \A p \in Around : p \in activePages \/ p \in storage
      /\ \A p \in Around' : p \in activePages' \/ p \in storage'
      /\ activePages' \subseteq Around' /\ storage' \subseteq Around'
  BY <1>1, OnlyHand DEF HoldsPage
<1>3. /\ Around' \subseteq Around
      /\ activePages \subseteq Around' /\ storage \subseteq Around'
  BY <1>1, <1>2, AroundParts DEF managerVars
<1>4. IdsOK' /\ ContentOK'
  BY <1>1, <1>3, FewerPages DEF GInv, managerVars
<1>5. Depth(a)' = 0
  <2>1. Depth(a) = 0
    BY <1>1, DepthOK DEF InAddLeaf
  <2> QED
    BY <1>1, <2>1 DEF Depth
<1>6. FlowOK(a)'
  BY <1>1, <1>5 DEF FlowOK, LeafPageInHand, Pending
<1>7. LiveNotStored'
  <2>1. \A b \in Appenders : pc[b] # "track"
    BY <1>1 DEF Alone
  <2>2. \A p \in ActiveAt(0) : Unstored(p.id)
    BY <2>1 DEF GInv, LiveNotStored
  <2> QED
    BY <1>1, <2>2 DEF LiveNotStored, ActiveAt, Unstored, managerVars
<1> QED
  BY <1>1, <1>2, <1>3, <1>4, <1>6, <1>7, IdleFlows DEF GInv

(* Nothing changes. *)
LEMMA SameFlow ==
    ASSUME GInv, UNCHANGED <<managerVars, callVars>>
    PROVE  GInv'
<1>1. Around' = Around
  BY DEF managerVars, callVars, Around
<1>2. IdsOK' /\ ContentOK'
  BY <1>1, FewerPages DEF GInv, managerVars
<1>3. LiveNotStored'
  BY DEF GInv, LiveNotStored, ActiveAt, Unstored, Depth, managerVars, callVars
<1>4. \A a \in Appenders : FlowOK(a)'
  <2> SUFFICES ASSUME NEW a \in Appenders PROVE FlowOK(a)'
    OBVIOUS
  <2>1. FlowOK(a)
    BY DEF GInv
  <2> QED
    BY <2>1 DEF FlowOK, Pending, ActiveAt, Unstored, LeafPageInHand, Depth, managerVars,
       callVars
<1> QED
  BY <1>2, <1>3, <1>4 DEF GInv

(* The leaf of the call going on, and no other call has one to be stored. *)
LEMMA StoredOfOne ==
    ASSUME IInv', NEW a \in Appenders, Alone(a), Mine(a), LeafStored(a)'
    PROVE  SInv'
<1> SUFFICES ASSUME NEW b \in Appenders, b # a PROVE LeafStored(b)'
  BY DEF SInv
<1>1. pc'[b] = "idle"
  BY DEF Alone, Mine
<1> QED
  BY <1>1 DEF LeafStored

(* Nothing changes. *)
LEMMA SameStored ==
    ASSUME SInv, UNCHANGED <<storage, pc, call, page, frames>>
    PROVE  SInv'
<1> SUFFICES ASSUME NEW a \in Appenders PROVE LeafStored(a)'
  BY DEF SInv
<1>1. LeafStored(a) /\ StoredLeaves' = StoredLeaves
  BY DEF SInv, StoredLeaves
<1> QED
  BY <1>1 DEF LeafStored, Pending, Depth

(* A new call has a leaf to append. *)
LEMMA CallStored ==
    ASSUME IInv, NEW a \in Appenders, Alone(a), CallAddLeaf(a)
    PROVE  SInv'
<1>1. Mine(a) /\ pc'[a] = "take" /\ IInv'
  BY CallEffect, CallStepOK
<1> QED
  BY <1>1, StoredOfOne DEF LeafStored, Pending

(* A step of the call going on: its page is written, and then tracked. *)
LEMMA StepStored ==
    ASSUME IInv, GInv, SInv, NEW a \in Appenders, Alone(a), Step(a)
    PROVE  SInv'
<1>1. /\ Mine(a) /\ IInv' /\ FlowOK(a) /\ LeafStored(a) /\ Depth(a) \in Nat
      /\ StoredLeaves \subseteq StoredLeaves'
      /\ pc[a] \in InRollup => Depth(a) > 0
  BY CallStepOK, StoreGrows, DepthOK DEF GInv, SInv
<1>2. CASE StorePage(a)
  <2>1. /\ pc[a] = "store" /\ pc'[a] = "track" /\ page' = page /\ call' = call
        /\ Depth(a)' = Depth(a) /\ page[a] \in storage'
    BY <1>2, StoreEffect DEF Depth
  <2> QED
    BY <1>1, <2>1, StoredOfOne DEF LeafStored, Pending
<1>3. CASE TrackFinalized(a)
  <2>1. /\ pc[a] = "track" /\ pc'[a] = "load" /\ call' = call /\ storage' = storage
    BY <1>3, TrackEffect
  <2>2. ~Pending(a)' => ~Pending(a)
    BY <2>1 DEF Pending
  <2>3. ~Pending(a) /\ Depth(a) = 0 => call[a].leaf \in StoredLeaves
    BY <1>1, <2>1 DEF FlowOK, LeafStored, StoredLeaves
  <2>4. ~Pending(a) => call[a].leaf \in StoredLeaves
    BY <1>1, <2>1, <2>3 DEF LeafStored
  <2> QED
    BY <1>1, <2>1, <2>2, <2>4, StoredOfOne DEF LeafStored
<1>4. CASE ~StorePage(a) /\ ~TrackFinalized(a)
  <2>1. pc'[a] # "track"
    BY <1>4, NotToTrack
  <2>2. ASSUME pc'[a] # "idle", Depth(a)' > 0
        PROVE  pc[a] \in InRollup /\ (~Pending(a)' => ~Pending(a)) /\ call'[a].leaf = call[a].leaf
    <3>1. ~Leave(a)
      BY <2>2, LeaveEffect
    <3>2. Depth(a)' = Depth(a) \/ pc[a] \in InRollup
      BY <1>4, <3>1 DEF Step, TakeActivePage, RetireActivePage, FindNoActivePage, CreatePage,
         Obtain, PreFinalize, AppendLeaf, KeepActivePage, ReturnOk, StorageFails, Depth,
         LoadChild, ChildMissing, RetireStaleParent, ParentNotStale, ReuseParent,
         ReopenParent, CreateParent, DiscardParent, FinalizeParent, KeepParent,
         ReturnToParent, ReturnToAddLeaf, InRollup
    <3>3. pc[a] \in InRollup
      BY <1>4, <2>2, <3>1, <3>2, DepthOK DEF Step, TakeActivePage, RetireActivePage,
         FindNoActivePage, CreatePage, PreFinalize, AppendLeaf, KeepActivePage, ReturnOk,
         StorageFails, LoadChild, ChildMissing, RetireStaleParent, ParentNotStale, ReuseParent,
         ReopenParent, CreateParent, DiscardParent, FinalizeParent, KeepParent,
         ReturnToParent, ReturnToAddLeaf, InRollup, InAddLeaf
    <3>4. ~ReturnToAddLeaf(a)
      BY <1>1, <2>2, ReturnEffect
    <3>5. call' = call
      BY <1>4, <3>1, <3>3, <3>4 DEF Step, TakeActivePage, RetireActivePage, FindNoActivePage,
         CreatePage, PreFinalize, AppendLeaf, KeepActivePage, StorageFails, LoadChild,
         ChildMissing, RetireStaleParent, ParentNotStale, ReuseParent, ReopenParent,
         CreateParent, DiscardParent, FinalizeParent, KeepParent, ReturnToParent, InRollup
    <3> QED
      BY <2>2, <3>3, <3>5 DEF Pending, InRollup
  <2>3. LeafStored(a)'
    <3> SUFFICES ASSUME pc'[a] # "idle", ~Pending(a)', Depth(a)' > 0
                 PROVE  call'[a].leaf \in StoredLeaves'
      BY <2>1 DEF LeafStored
    <3> QED
      BY <1>1, <2>2 DEF LeafStored, InRollup
  <2> QED
    BY <1>1, <2>3, StoredOfOne
<1> QED
  BY <1>2, <1>3, <1>4

(* A leaf is on its way: it is still in a page. *)
Kept(p) == LeavesOf(p) = {} \/ \E q \in Around' : LeavesOf(p) \subseteq LeavesOf(q)

(* Only a failing store takes the leaves of the page in hand away. *)
LEMMA StepKeepsLeaves ==
    ASSUME IInv, GInv, SInv, NEW a \in Appenders, Alone(a), Step(a), ~StorageFails(a)
    PROVE  \A p \in Around : Kept(p)
<1> USE DEF GInv
<1>1. /\ Mine(a) /\ FlowOK(a) /\ LeafStored(a) /\ Depth(a) \in Nat
      /\ pc[a] \in HoldsPage => page[a].level = Depth(a)
  BY CallStepOK, DepthOK DEF SInv
<1>2. /\ \A p \in Around : \/ p \in activePages \/ p \in storage
                           \/ pc[a] \in HoldsPage /\ p = page[a]
      /\ activePages' \subseteq Around' /\ storage' \subseteq Around'
      /\ pc'[a] \in HoldsPage => page'[a] \in Around'
      /\ activePages \subseteq Around
      /\ pc[a] \in HoldsPage => page[a] \in Around
  BY <1>1, OnlyHand, AroundParts
<1>3. \A p \in Around : p.level # 0 => LeavesOf(p) = {}
  <2> SUFFICES ASSUME NEW p \in Around, p.level # 0 PROVE LeavesOf(p) = {}
    OBVIOUS
  <2>1. p.level > 0
    BY AroundArePages DEF IsPage, Levels
  <2>2. p.leaves = <<>>
    BY <2>1 DEF ContentOK
  <2> QED
    BY <2>2 DEF LeavesOf
<1>4. ASSUME storage \subseteq storage',
             \A p \in ActiveAt(0) : Kept(p),
             pc[a] \in HoldsPage /\ page[a].level = 0 => Kept(page[a])
      PROVE  \A p \in Around : Kept(p)
  BY <1>2, <1>3, <1>4 DEF Kept, ActiveAt
<1>5. ASSUME storage \subseteq storage', ActiveAt(0) \subseteq activePages',
             \/ pc[a] \notin HoldsPage
             \/ page[a].level # 0
             \/ pc'[a] \in HoldsPage /\ LeavesOf(page[a]) \subseteq LeavesOf(page'[a])
             \/ page[a] \in storage'
      PROVE  \A p \in Around : Kept(p)
  BY <1>2, <1>4, <1>5 DEF Kept
<1>6. CASE TakeActivePage(a)
  BY <1>5, <1>6, TakeEffect DEF managerVars, ActiveAt, HoldsPage
<1>7. CASE RetireActivePage(a)
  <2>1. /\ pc[a] = "take" /\ storage' = storage
        /\ page'[a] \in ActiveAt(0) /\ pc'[a] = "store"
    BY <1>7, RetiredHasLeaves, RetireEffect
  <2>2. \A p \in ActiveAt(0) : p = page'[a]
    BY <2>1 DEF ActiveAt, IdsOK
  <2>3. \A p \in ActiveAt(0) : Kept(p)
    BY <1>2, <2>1, <2>2 DEF Kept, HoldsPage
  <2> QED
    BY <1>4, <2>1, <2>3 DEF HoldsPage
<1>8. CASE FindNoActivePage(a)
  BY <1>5, <1>8 DEF FindNoActivePage, managerVars, ActiveAt, HoldsPage
<1>9. CASE CreatePage(a)
  BY <1>5, <1>9, CreateEffect DEF ActiveAt, HoldsPage
<1>10. CASE PreFinalize(a)
  BY <1>5, <1>10, PreFinalizeEffect DEF managerVars, ActiveAt, HoldsPage
<1>11. CASE AppendLeaf(a)
  <2>1. /\ page[a].leaves \in Seq(Leaf) /\ call[a].leaf \in Leaf
        /\ page'[a].leaves = Append(page[a].leaves, call[a].leaf)
        /\ pc'[a] \in HoldsPage /\ UNCHANGED <<storage, activePages>>
    BY <1>11, AppendLeafEffect DEF IsPage, managerVars, HoldsPage
  <2>2. LeavesOf(page[a]) \subseteq LeavesOf(page'[a])
    <3>1. \A i \in DOMAIN page[a].leaves : /\ i \in DOMAIN page'[a].leaves
                                           /\ page'[a].leaves[i] = page[a].leaves[i]
      BY <2>1
    <3> QED
      BY <3>1 DEF LeavesOf
  <2> QED
    BY <1>5, <2>1, <2>2 DEF ActiveAt
<1>12. CASE KeepActivePage(a)
  <2>1. pc[a] = "insert" /\ activePages' = WithActive(page[a]) /\ storage' = storage
        /\ Depth(a) = 0
    BY <1>12, KeepActiveEffect, DepthOK DEF InAddLeaf
  <2>2. page[a] \in Around'
    BY <1>2, <2>1 DEF WithActive
  <2>3. \A p \in ActiveAt(0) : LeavesOf(p) \subseteq LeavesOf(page[a])
    BY <1>1, <2>1 DEF FlowOK, LeafPageInHand
  <2> QED
    BY <1>4, <2>1, <2>2, <2>3 DEF Kept
<1>13. CASE StorePage(a)
  <2>1. /\ pc[a] = "store" /\ pc'[a] = "track" /\ page'[a] = page[a]
        /\ storage' = (storage \ Stored(page[a].level, page[a].id)) \cup {page[a]}
        /\ activePages' = activePages
    BY <1>13, StoreEffect
  <2>2. CASE Depth(a) = 0
    <3>1. storage' = storage \cup {page[a]}
      BY <1>13, <2>2, StoreGrows
    <3> QED
      BY <1>5, <2>1, <3>1 DEF ActiveAt
  <2>3. CASE Depth(a) # 0
    <3>1. page[a].level # 0
      BY <1>1, <2>1, <2>3 DEF HoldsPage
    <3>2. \A p \in Around : p.level = 0 => p \in activePages \/ p \in storage'
      BY <1>2, <2>1, <3>1 DEF Stored
    <3> QED
      BY <1>2, <1>3, <2>1, <3>2 DEF Kept
  <2> QED
    BY <2>2, <2>3
<1>14. CASE TrackFinalized(a)
  <2>1. /\ pc[a] = "track" /\ storage' = storage
        /\ activePages' = IF Depth(a) = 0 /\ call[a].after # "create"
                          THEN Without(0) ELSE activePages
    BY <1>14, TrackEffect
  <2>2. Depth(a) = 0 => page[a] \in storage /\ page[a] \in Around'
    BY <1>1, <1>2, <2>1 DEF LeafStored
  <2>3. CASE Depth(a) = 0
    <3>1. \A p \in ActiveAt(0) : LeavesOf(p) \subseteq LeavesOf(page[a])
      BY <1>1, <2>1, <2>3 DEF FlowOK, LeafPageInHand
    <3> QED
      BY <1>4, <2>1, <2>2, <2>3, <3>1 DEF Kept
  <2>4. CASE Depth(a) # 0
    <3>1. pc[a] \in HoldsPage
      BY <2>1 DEF HoldsPage
    <3>2. page[a].level # 0 /\ activePages' = activePages
      BY <1>1, <2>1, <2>4, <3>1
    <3> QED
      BY <1>5, <2>1, <3>2 DEF ActiveAt
  <2> QED
    BY <2>3, <2>4
<1>15. CASE LoadChild(a) \/ ParentNotStale(a) \/ ReturnToParent(a)
  BY <1>5, <1>15, RollupRestsEffect DEF managerVars, ActiveAt, HoldsPage
<1>16. CASE ChildMissing(a)
  BY <1>5, <1>16, ChildMissingEffect DEF managerVars, ActiveAt, HoldsPage
<1>17. CASE RetireStaleParent(a)
  BY <1>5, <1>17, RetireStaleEffect DEF ActiveAt, Without, HoldsPage
<1>18. CASE ReuseParent(a) \/ ReopenParent(a) \/ CreateParent(a)
  <2>1. \E p : Obtained(a, p)
    BY <1>18, ParentEffect
  <2> QED
    BY <1>5, <2>1 DEF Obtained, ActiveAt, HoldsPage
<1>19. CASE DiscardParent(a) \/ FinalizeParent(a) \/ KeepParent(a)
  <2>1. /\ page[a].level = Depth(a) /\ Depth(a) > 0 /\ storage' = storage
        /\ activePages' = Without(Depth(a)) \/ activePages' = WithActive(page[a])
    BY <1>19, SettleEffect
  <2>2. ActiveAt(0) \subseteq activePages'
    BY <2>1 DEF ActiveAt, Without, WithActive
  <2> QED
    BY <1>5, <2>1, <2>2
<1>20. CASE ReturnToAddLeaf(a)
  BY <1>5, <1>20, ReturnEffect DEF managerVars, ActiveAt, HoldsPage
<1> QED
  BY <1>6, <1>7, <1>8, <1>9, <1>10, <1>11, <1>12, <1>13, <1>14, <1>15, <1>16, <1>17,
     <1>18, <1>19, <1>20 DEF Step

(* What add_leaf returned Ok for is in a page, while no store fails. *)
AcceptedKept ==
    storeFailures = 0 => \A r \in accepted : \E p \in Around : r.leaf \in LeavesOf(p)

(* The leaf of a call that returns Ok is in a page. *)
LEMMA AcceptedIsKept ==
    ASSUME IInv, GInv, SInv, NEW a \in Appenders, Alone(a), Step(a),
           NEW r \in accepted' \ accepted
    PROVE  /\ \E p \in Around' : r.leaf \in LeavesOf(p)
           /\ r.leaf = call[a].leaf /\ pc[a] # "idle" /\ ~Pending(a)
<1>0. Mine(a) /\ FlowOK(a) /\ LeafStored(a)
  BY CallStepOK DEF GInv, SInv
<1>1. activePages' \subseteq Around' /\ storage' \subseteq Around'
  BY <1>0, OnlyHand
<1>2. KeepActivePage(a) \/ ReturnToAddLeaf(a)
  BY DEF Step, TakeActivePage, RetireActivePage, FindNoActivePage, CreatePage, PreFinalize,
     AppendLeaf, StorePage, StorageFails, TrackFinalized, LoadChild, ChildMissing,
     RetireStaleParent, ParentNotStale, ReuseParent, ReopenParent, CreateParent,
     DiscardParent, FinalizeParent, KeepParent, ReturnToParent, worldVars
<1>3. CASE KeepActivePage(a)
  <2>1. /\ pc[a] = "insert" /\ activePages' = WithActive(page[a])
        /\ r = [leaf |-> call[a].leaf, pageId |-> call[a].pageId] /\ Depth(a) = 0
    BY <1>3, KeepActiveEffect, DepthOK DEF InAddLeaf
  <2>2. r.leaf = call[a].leaf /\ ~Pending(a) /\ r.leaf \in LeavesOf(page[a])
    BY <1>0, <2>1 DEF FlowOK
  <2>3. page[a] \in Around'
    BY <1>1, <2>1 DEF WithActive
  <2> QED
    BY <2>1, <2>2, <2>3
<1>4. CASE ReturnToAddLeaf(a)
  <2>1. /\ pc[a] = "return" /\ Depth(a) > 0 /\ storage' = storage
        /\ call[a].after = "done"
        /\ r = [leaf |-> call[a].leaf, pageId |-> call[a].pageId]
    BY <1>4, ReturnEffect DEF managerVars
  <2>2. r.leaf = call[a].leaf /\ ~Pending(a) /\ r.leaf \in StoredLeaves
    BY <1>0, <2>1 DEF LeafStored, Pending
  <2>3. \E p \in storage : r.leaf \in LeavesOf(p)
    BY <2>2 DEF StoredLeaves
  <2> QED
    BY <1>1, <2>1, <2>2, <2>3
<1> QED
  BY <1>2, <1>3, <1>4

(* So it is after a step of the call going on. *)
LEMMA StepAccepted ==
    ASSUME IInv, GInv, SInv, AcceptedKept, NEW a \in Appenders, Alone(a), Step(a)
    PROVE  AcceptedKept'
<1>1. CASE StorageFails(a)
  <2>1. storeFailures' # 0
    BY <1>1 DEF StorageFails, IInv, TypeOK, CountersTypeOK
  <2> QED
    BY <2>1 DEF AcceptedKept
<1>2. CASE ~StorageFails(a)
  <2>1. storeFailures' = storeFailures
    BY <1>2 DEF Step, TakeActivePage, RetireActivePage, FindNoActivePage, CreatePage,
       PreFinalize, AppendLeaf, KeepActivePage, StorePage, TrackFinalized, LoadChild,
       ChildMissing, RetireStaleParent, ParentNotStale, ReuseParent, ReopenParent,
       CreateParent, DiscardParent, FinalizeParent, KeepParent, ReturnToParent,
       ReturnToAddLeaf, worldVars
  <2>2. \A p \in Around : Kept(p)
    BY <1>2, StepKeepsLeaves
  <2>3. \A r \in accepted' \ accepted : \E p \in Around' : r.leaf \in LeavesOf(p)
    BY AcceptedIsKept
  <2> QED
    BY <2>1, <2>2, <2>3 DEF AcceptedKept, Kept
<1> QED
  BY <1>1, <1>2

(* One call of add_leaf at a time. *)
Serial == \A a, b \in Appenders : pc[a] # "idle" /\ pc[b] # "idle" => a = b

(* What a call keeps while the process runs. *)
QInv == restarts = 0 => GInv /\ SInv /\ AcceptedKept

(* Whoever goes on is alone. *)
LEMMA SerialAlone ==
    ASSUME IInv, Serial, Serial', NEW a \in Appenders, CallAddLeaf(a) \/ Step(a)
    PROVE  Alone(a)
<1>1. CASE CallAddLeaf(a)
  <2>1. Mine(a) /\ pc'[a] = "take"
    BY <1>1, CallEffect
  <2> QED
    BY <2>1 DEF Serial, Alone, Mine
<1>2. CASE Step(a)
  BY <1>2, StepSameLeaf DEF SameLeaf, Serial, Alone
<1> QED
  BY <1>1, <1>2

(* A step while the process runs; a step that changes nothing; a restart. *)
LEMMA QuietOK == IInv /\ QInv /\ Serial /\ Serial' /\ [Next]_vars => QInv'
<1> SUFFICES ASSUME IInv, QInv, Serial, Serial', [Next]_vars, restarts' = 0
             PROVE  GInv' /\ SInv' /\ AcceptedKept'
  BY DEF QInv
<1>1. CASE Restart
  <2>1. restarts \in Nat /\ restarts' = restarts + 1
    BY <1>1 DEF Restart, IInv, TypeOK, CountersTypeOK
  <2> QED
    BY <2>1
<1>2. CASE UNCHANGED vars
  <2>1. GInv /\ SInv /\ AcceptedKept
    BY <1>2 DEF QInv, vars, worldVars
  <2>2. Around' = Around
    BY <1>2 DEF vars, managerVars, callVars, Around
  <2>3. GInv'
    BY <1>2, <2>1, SameFlow DEF vars
  <2>4. AcceptedKept'
    BY <1>2, <2>1, <2>2 DEF AcceptedKept, vars, worldVars
  <2>5. SInv'
    BY <1>2, <2>1, SameStored DEF vars, managerVars, callVars
  <2> QED
    BY <2>3, <2>4, <2>5
<1>3. CASE \E a \in Appenders : CallAddLeaf(a) \/ Step(a)
  <2>1. PICK a \in Appenders : CallAddLeaf(a) \/ Step(a)
    BY <1>3
  <2>2. Alone(a)
    BY <2>1, SerialAlone
  <2>3. restarts' = restarts
    BY <2>1 DEF CallAddLeaf, Step, TakeActivePage, RetireActivePage, FindNoActivePage,
       CreatePage, PreFinalize, AppendLeaf, KeepActivePage, StorePage, StorageFails,
       TrackFinalized, LoadChild, ChildMissing, RetireStaleParent, ParentNotStale,
       ReuseParent, ReopenParent, CreateParent, DiscardParent, FinalizeParent, KeepParent,
       ReturnToParent, ReturnToAddLeaf, worldVars
  <2>4. GInv /\ SInv /\ AcceptedKept
    BY <2>3 DEF QInv
  <2>5. CASE Step(a)
    BY <2>2, <2>4, <2>5, StepFlow, StepStored, StepAccepted
  <2>6. CASE CallAddLeaf(a)
    <3>1. /\ GInv' /\ \A p \in Around : p \in Around'
          /\ accepted' = accepted /\ storeFailures' = storeFailures
      BY <2>2, <2>4, <2>6, CallFlow, CallEffect
    <3>2. SInv'
      BY <2>2, <2>6, CallStored
    <3> QED
      BY <2>4, <3>1, <3>2 DEF AcceptedKept
  <2> QED
    BY <2>1, <2>5, <2>6
<1> QED
  BY <1>1, <1>2, <1>3 DEF Next

(* There is nothing to keep at first. *)
LEMMA QuietInit == Init => QInv
<1> SUFFICES ASSUME Init PROVE GInv /\ SInv /\ AcceptedKept
  BY DEF QInv
<1>1. Around = {}
  BY DEF Init, Around, HoldsPage
<1>2. \A a \in Appenders : FlowOK(a)
  BY DEF Init, FlowOK, LeafPageInHand, Depth
<1> QED
  BY <1>1, <1>2 DEF Init, GInv, SInv, LeafStored, IdsOK, ContentOK, LiveNotStored, ActiveAt,
     AcceptedKept

(* Neither a page nor what is remembered of the last page is Option::None. *)
NoneIsNoRecord ==
    /\ ~IsPage(None)
    /\ \A id, hash : [id |-> id, hash |-> hash] # None

(* An accepted leaf in a page is in the pages of one id only, once. *)
LEMMA KeptHeldOnce ==
    ASSUME NoneIsNoRecord, IInv, LInv, QInv
    PROVE  AcceptedLeafHeldOnce
<1> SUFFICES ASSUME Undisturbed, NEW r \in accepted
             PROVE  LET holders == {p \in Pages : r.leaf \in LeavesOf(p)}
                    IN /\ Cardinality({p.id : p \in holders}) = 1
                       /\ \A p \in holders : Cardinality(Occurrences(r.leaf, p)) = 1
  BY DEF AcceptedLeafHeldOnce
<1> DEFINE holders == {p \in Pages : r.leaf \in LeavesOf(p)}
<1>1. \A p \in Around : p \in Pages
  <2>1. \A a \in Appenders : pc[a] \in HoldsPage => page[a] # None
    BY DEF NoneIsNoRecord, IInv, TypeOK, CallTypeOK
  <2> QED
    BY <2>1 DEF Around, Pages, InHand
<1>2. Pages \subseteq Around
  BY PagesAround DEF LInv
<1>3. PICK p \in Around : r.leaf \in LeavesOf(p)
  BY DEF QInv, AcceptedKept, Undisturbed
<1>4. \A q \in holders : q.id = p.id
  BY <1>2, <1>3 DEF LInv, OnePlace, LeavesOf
<1>5. {q.id : q \in holders} = {p.id}
  BY <1>1, <1>3, <1>4
<1>6. \A q \in holders : Cardinality(Occurrences(r.leaf, q)) = 1
  <2> SUFFICES ASSUME NEW q \in holders
               PROVE  Cardinality(Occurrences(r.leaf, q)) = 1
    OBVIOUS
  <2>1. PICK i \in DOMAIN q.leaves : q.leaves[i] = r.leaf
    BY DEF LeavesOf
  <2>2. \A j \in DOMAIN q.leaves : q.leaves[j] = r.leaf => j = i
    BY <1>2, <2>1 DEF LInv, OnePlace
  <2>3. Occurrences(r.leaf, q) = {i}
    BY <2>1, <2>2 DEF Occurrences
  <2> QED
    BY <2>3, FS_Singleton
<1> QED
  BY <1>5, <1>6, FS_Singleton

(***************************************************************************)
(* A leaf add_leaf returned Ok for is in exactly one leaf page, once, when *)
(* calls come one at a time, until a store fails or the process restarts:  *)
(* through the clone of get_or_create_active_page_for_leaf, the removal    *)
(* from active_pages and the write, whatever the cascade in between.       *)
(***************************************************************************)
THEOREM SerialAcceptedLeafHeldOnce ==
    ASSUME NoneIsNoRecord
    PROVE  Spec /\ []Serial => []AcceptedLeafHeldOnce
<1>1. Init => LInv /\ QInv
  BY ApartInit, QuietInit
<1>2. IInv /\ LInv /\ QInv /\ Serial /\ Serial' /\ [Next]_vars => LInv' /\ QInv'
  BY ApartOK, QuietOK
<1>3. IInv /\ LInv /\ QInv => AcceptedLeafHeldOnce
  BY KeptHeldOnce
<1> QED
  BY <1>1, <1>2, <1>3, SpecInv, PTL DEF Spec

(* The process runs on: no restart. *)
NoRestart == restarts = 0

(***************************************************************************)
(* A leaf that reached the store stays in it, when calls come one at a     *)
(* time and the process keeps running, failing stores or not: no write of  *)
(* finalize_and_rollup_page or perform_rollup falls on a stored leaf page. *)
(***************************************************************************)
THEOREM SerialStoredLeavesStay ==
    Spec /\ []Serial /\ []NoRestart => StoredLeavesStay
<1>1. IInv /\ QInv /\ Serial /\ Serial' /\ NoRestart /\ NoRestart' /\ [Next]_vars
         => [StoredLeaves \subseteq StoredLeaves']_vars
  <2> SUFFICES ASSUME IInv, QInv, NoRestart, NoRestart', Next
               PROVE  StoredLeaves \subseteq StoredLeaves'
    OBVIOUS
  <2>1. CASE Restart
    BY <2>1 DEF Restart, NoRestart
  <2>2. CASE \E a \in Appenders : CallAddLeaf(a)
    BY <2>2 DEF CallAddLeaf, managerVars, StoredLeaves
  <2>3. CASE \E a \in Appenders : Step(a)
    BY <2>3, StoreGrows DEF QInv, NoRestart
  <2> QED
    BY <2>1, <2>2, <2>3 DEF Next
<1> QED
  BY <1>1, QuietInit, QuietOK, SpecInv, PTL DEF Spec, StoredLeavesStay

----------------------------------------------------------------------------
(***************************************************************************)
(* The chain of the leaf pages.  The page stored last and tracked is the   *)
(* tip: no stored page follows it, and every leaf page still open does, or *)
(* there is no stored page and an open one follows none.                   *)
(***************************************************************************)
Tracking(a) == pc[a] = "track" /\ Depth(a) = 0

(* The stored leaf pages last_finalized_page_ids has been set for. *)
Settled ==
    {p \in storage : p.level = 0 /\ \A a \in Appenders : Tracking(a) => page[a] # p}

(* The leaf pages still open. *)
Live == ActiveAt(0) \cup {page[a] : a \in {b \in Appenders : LeafPageInHand(b)}}

IsTip(t) == t \in Settled /\ t.id = lastFinalized[0].id

TipOK ==
    IF lastFinalized[0] = None THEN Settled = {}
    ELSE \E t \in Settled :
            IsTip(t) /\ \A s \in Settled : s.id <= t.id /\ s.prev # Hash(t)

LiveOK ==
    \A p \in Live :
        /\ \A s \in Settled : s.id < p.id
        /\ IF lastFinalized[0] = None THEN p.prev = None
           ELSE \E t \in Settled : IsTip(t) /\ p.prev = Hash(t)

CInv == TipOK /\ LiveOK /\ LinkedChain(0)

(* page_hash covers the page id and the level. *)
LEMMA HashKeepsId ==
    ASSUME NEW p, IsPage(p)
    PROVE  IsPage(Hash(p)) /\ Hash(p).id = p.id /\ Hash(p).level = p.level
<1> DEFINE patches == IF UsesNetPatches(p.level) THEN p.patches ELSE NoPatches
<1>1. Hash(p) = [p EXCEPT !.patches = patches]
  BY DEF Hash
<1>2. DOMAIN patches \subseteq Objects
  BY DEF NoPatches, IsPage
<1> HIDE DEF patches
<1>3. Hash(p) = [id |-> p.id, level |-> p.level, start |-> p.start, prev |-> p.prev,
                 leaves |-> p.leaves, kids |-> p.kids, patches |-> patches,
                 first |-> p.first, last |-> p.last]
  BY <1>1 DEF IsPage
<1> QED
  BY <1>2, <1>3 DEF IsPage

(* A page with one leaf more follows the same page. *)
LEMMA AddLeafPrev ==
    ASSUME NEW p, IsPage(p), NEW leaf
    PROVE  AddLeaf(p, leaf).prev = p.prev
<1> DEFINE first == Earlier(p.first, leaf.ts)
           last  == Later(p.last, leaf.ts)
           leaves == Append(p.leaves, leaf)
           p1 == [p EXCEPT !.leaves = leaves]
           p2 == [p1 EXCEPT !.first = first]
           p3 == [p2 EXCEPT !.last = last]
<1>1. AddLeaf(p, leaf) = p3
  BY DEF AddLeaf
<1> HIDE DEF first, last, leaves
<1>2. p1 = [id |-> p.id, level |-> p.level, start |-> p.start, prev |-> p.prev,
            leaves |-> leaves, kids |-> p.kids, patches |-> p.patches,
            first |-> p.first, last |-> p.last]
  BY DEF IsPage
<1> HIDE DEF p1
<1>3. p3.prev = p.prev
  BY <1>2
<1> QED
  BY <1>1, <1>3

(* A step after which no other leaf page is open, and the same are stored. *)
LEMMA ChainRests ==
    ASSUME CInv, Live' \subseteq Live, StoredAt(0)' = StoredAt(0),
           \A p : p \in Settled' <=> p \in Settled,
           lastFinalized'[0] = lastFinalized[0]
    PROVE  CInv'
<1>1. \A t : IsTip(t)' <=> IsTip(t)
  BY DEF IsTip
<1>2. TipOK'
  BY <1>1 DEF CInv, TipOK
<1>3. LiveOK'
  BY <1>1 DEF CInv, LiveOK
<1>4. LinkedChain(0)'
  BY DEF CInv, LinkedChain
<1> QED
  BY <1>2, <1>3, <1>4 DEF CInv

(* What is open and what is settled, by the call going on. *)
LEMMA ChainParts ==
    ASSUME IInv, NEW a \in Appenders, Alone(a), Mine(a)
    PROVE  /\ Live = ActiveAt(0) \cup {p \in {page[a]} : LeafPageInHand(a)}
           /\ Live' = ActiveAt(0)' \cup {p \in {page'[a]} : LeafPageInHand(a)'}
           /\ \A p : p \in Settled <=> p \in StoredAt(0) /\ (Tracking(a) => page[a] # p)
           /\ \A p : p \in Settled' <=> p \in StoredAt(0)' /\ (Tracking(a)' => page'[a] # p)
<1>1. \A b \in Appenders \ {a} : pc[b] = "idle" /\ pc'[b] = "idle"
  BY DEF Alone, Mine
<1>2. \A b \in Appenders : \/ b = a
                           \/ /\ ~LeafPageInHand(b) /\ ~LeafPageInHand(b)'
                              /\ ~Tracking(b) /\ ~Tracking(b)'
  BY <1>1 DEF LeafPageInHand, Tracking
<1>3. Live = ActiveAt(0) \cup {p \in {page[a]} : LeafPageInHand(a)}
  BY <1>2 DEF Live
<1>4. Live' = ActiveAt(0)' \cup {p \in {page'[a]} : LeafPageInHand(a)'}
  BY <1>2 DEF Live
<1>5. \A p : p \in Settled <=> p \in StoredAt(0) /\ (Tracking(a) => page[a] # p)
  BY <1>2 DEF Settled, StoredAt
<1>6. \A p : p \in Settled' <=> p \in StoredAt(0)' /\ (Tracking(a)' => page'[a] # p)
  BY <1>2 DEF Settled, StoredAt
<1> QED
  BY <1>3, <1>4, <1>5, <1>6

(* The page created for a leaf follows the tip. *)
LEMMA CreateFollows ==
    ASSUME IInv, GInv, CInv, NEW a \in Appenders, Alone(a), CreatePage(a)
    PROVE  CInv'
<1>1. /\ pc[a] = "create" /\ pc'[a] = "have" /\ Mine(a)
      /\ page'[a].id = nextPageId /\ page'[a].prev = PrevHash(0)
      /\ UNCHANGED <<activePages, storage, lastFinalized>>
      /\ Depth(a)' = 0 /\ ActiveAt(0) = {}
  BY CreateEffect, CallStepOK, DepthOK DEF Step, Depth, InAddLeaf, GInv, FlowOK
<1>2. /\ Live' = {page'[a]} /\ \A p : p \in Settled' <=> p \in Settled
      /\ StoredAt(0)' = StoredAt(0) /\ Settled \subseteq storage
  <2>1. /\ ActiveAt(0)' = {} /\ StoredAt(0)' = StoredAt(0)
        /\ LeafPageInHand(a)' /\ ~Tracking(a) /\ ~Tracking(a)'
    BY <1>1 DEF ActiveAt, StoredAt, LeafPageInHand, Tracking
  <2> QED
    BY <1>1, <2>1, ChainParts DEF Settled
<1>3. \A t : IsTip(t)' <=> IsTip(t)
  BY <1>1, <1>2 DEF IsTip
<1>4. \A s \in Settled : s.id < nextPageId
  BY <1>2, AroundParts DEF GInv, IdsOK
<1>5. IF lastFinalized[0] = None THEN PrevHash(0) = None
      ELSE \E t \in Settled : IsTip(t) /\ PrevHash(0) = Hash(t)
  <2>1. CASE lastFinalized[0] = None
    BY <2>1 DEF PrevHash, LastStored
  <2>2. CASE lastFinalized[0] # None
    <3>1. PICK t : IsTip(t)
      BY <2>2 DEF CInv, TipOK
    <3>2. t \in LastStored(0)
      BY <2>2, <3>1 DEF LastStored, Stored, IsTip, Settled
    <3>3. \A q \in LastStored(0) : q = t
      BY <2>2, <3>2 DEF LastStored, Stored, GInv, IdsOK
    <3>4. (CHOOSE p \in LastStored(0) : TRUE) = t
      BY <3>2, <3>3
    <3>5. PrevHash(0) = Hash(t)
      BY <3>2, <3>4 DEF PrevHash
    <3> QED
      BY <2>2, <3>1, <3>5 DEF IsTip
  <2> QED
    BY <2>1, <2>2
<1>6. LiveOK'
  BY <1>1, <1>2, <1>3, <1>4, <1>5 DEF LiveOK
<1>7. TipOK'
  BY <1>1, <1>2, <1>3 DEF CInv, TipOK
<1>8. LinkedChain(0)'
  BY <1>2 DEF CInv, LinkedChain
<1> QED
  BY <1>6, <1>7, <1>8 DEF CInv

(* A leaf page is written: it follows the tip, and nothing else does. *)
LEMMA StoreFollows ==
    ASSUME IInv, GInv, CInv, NEW a \in Appenders, Alone(a), StorePage(a), Depth(a) = 0
    PROVE  CInv'
<1> DEFINE p == page[a]
<1>1. /\ pc[a] = "store" /\ pc'[a] = "track" /\ Mine(a) /\ page' = page /\ Depth(a)' = 0
      /\ storage' = storage \cup {p} /\ Unstored(p.id) /\ p.level = 0
      /\ UNCHANGED <<activePages, lastFinalized>>
  <2>1. Mine(a) /\ FlowOK(a)
    BY CallStepOK DEF Step, GInv
  <2>2. storage' = storage \cup {p}
    BY StoreGrows DEF Step
  <2> QED
    BY <2>1, <2>2, StoreEffect, DepthOK DEF FlowOK, LeafPageInHand, HoldsPage, Depth
<1>2. /\ Live' = Live /\ p \in Live
      /\ \A q : q \in Settled' <=> q \in Settled
      /\ StoredAt(0)' = StoredAt(0) \cup {p} /\ Settled = StoredAt(0)
  <2>1. /\ ActiveAt(0)' = ActiveAt(0) /\ StoredAt(0)' = StoredAt(0) \cup {p}
        /\ LeafPageInHand(a) /\ LeafPageInHand(a)' /\ ~Tracking(a) /\ Tracking(a)'
        /\ p \notin StoredAt(0) /\ page'[a] = p
    BY <1>1 DEF ActiveAt, StoredAt, LeafPageInHand, Tracking, Unstored
  <2>2. /\ Live = ActiveAt(0) \cup {p}
        /\ Live' = ActiveAt(0) \cup {p}
    BY <1>1, <2>1, ChainParts
  <2>3. /\ \A q : q \in Settled <=> q \in StoredAt(0)
        /\ \A q : q \in Settled' <=> q \in StoredAt(0) \cup {p} /\ q # p
    BY <1>1, <2>1, ChainParts
  <2> QED
    BY <2>1, <2>2, <2>3
<1> HIDE DEF p
<1>3. \A t : IsTip(t)' <=> IsTip(t)
  BY <1>1, <1>2 DEF IsTip
<1>4. LiveOK' /\ TipOK'
  BY <1>1, <1>2, <1>3 DEF CInv, LiveOK, TipOK
<1>5. p.prev # None => \E q \in StoredAt(0) : Hash(q) = p.prev /\ q.id < p.id
  BY <1>2 DEF CInv, LiveOK, IsTip
<1>6. \A q \in StoredAt(0) : q.prev # p.prev
  <2>1. CASE lastFinalized[0] = None
    BY <1>2, <2>1 DEF CInv, TipOK
  <2>2. CASE lastFinalized[0] # None
    <3>1. PICK t : IsTip(t) /\ \A s \in Settled : s.id <= t.id /\ s.prev # Hash(t)
      BY <2>2 DEF CInv, TipOK
    <3>2. PICK u : IsTip(u) /\ p.prev = Hash(u)
      BY <1>2, <2>2 DEF CInv, LiveOK
    <3>3. t = u
      BY <3>1, <3>2 DEF IsTip, Settled, GInv, IdsOK
    <3> QED
      BY <1>2, <3>1, <3>2, <3>3
  <2> QED
    BY <2>1, <2>2
<1>7. LinkedChain(0)'
  BY <1>2, <1>5, <1>6 DEF CInv, LinkedChain
<1> QED
  BY <1>4, <1>7 DEF CInv

(* It becomes the tip. *)
LEMMA TrackFollows ==
    ASSUME NoneIsNoRecord, IInv, GInv, SInv, CInv, NEW a \in Appenders, Alone(a),
           TrackFinalized(a), Depth(a) = 0
    PROVE  CInv'
<1>0. PICK p : p = page[a]
  OBVIOUS
<1>1. /\ pc[a] = "track" /\ pc'[a] = "load" /\ Mine(a) /\ storage' = storage
      /\ lastFinalized'[0] = [id |-> p.id, hash |-> Hash(p)]
      /\ p \in storage /\ p.level = 0 /\ IsPage(p) /\ ActiveAt(0)' = {}
  <2>1. Mine(a) /\ LeafStored(a) /\ GInv'
    BY CallStepOK, StepFlow DEF Step, SInv
  <2>2. /\ pc[a] = "track" /\ pc'[a] = "load" /\ storage' = storage /\ Depth(a)' = 1
        /\ lastFinalized' = [lastFinalized EXCEPT ![p.level] =
                               [id |-> p.id, hash |-> Hash(p)]]
        /\ p.level = 0 /\ IsPage(p)
    <3>0. Depth(a)' = Depth(a) + 1
      BY TrackEffect
    <3>1. pc[a] = "track" /\ pc'[a] = "load" /\ storage' = storage /\ Depth(a)' = 1
      BY <3>0 DEF TrackFinalized, Goto, IInv, TypeOK
    <3>2. p.level = 0 /\ IsPage(p)
      BY <1>0, <3>1, DepthOK DEF HoldsPage
    <3>3. lastFinalized' = [lastFinalized EXCEPT ![p.level] =
                               [id |-> p.id, hash |-> Hash(p)]]
      BY <1>0 DEF TrackFinalized
    <3> QED
      BY <3>1, <3>2, <3>3
  <2>3. ActiveAt(0)' = {}
    BY <2>1, <2>2 DEF GInv, FlowOK
  <2>4. 0 \in DOMAIN lastFinalized
    BY <2>2 DEF IInv, TypeOK, ManagerTypeOK, IsPage
  <2> QED
    BY <1>0, <2>1, <2>2, <2>3, <2>4 DEF LeafStored
<1>2. /\ Live' = {} /\ p \in Live /\ StoredAt(0)' = StoredAt(0)
      /\ \A q : q \in Settled' <=> q \in StoredAt(0)
      /\ \A q : q \in Settled <=> q \in StoredAt(0) /\ q # p
  <2>1. /\ LeafPageInHand(a) /\ ~LeafPageInHand(a)' /\ Tracking(a) /\ ~Tracking(a)'
        /\ StoredAt(0)' = StoredAt(0)
    BY <1>1 DEF LeafPageInHand, Tracking, StoredAt
  <2> QED
    BY <1>0, <1>1, <2>1, ChainParts
<1>3. p \in StoredAt(0) /\ Hash(p) # None /\ Hash(p).id = p.id
  BY <1>1, HashKeepsId DEF StoredAt, NoneIsNoRecord
<1>4. lastFinalized'[0] # None /\ lastFinalized'[0].id = p.id
  BY <1>1 DEF NoneIsNoRecord
<1>5. \A s \in StoredAt(0) : s.id \in Nat /\ Hash(s).id = s.id
  BY HashKeepsId DEF StoredAt, IInv, TypeOK, ManagerTypeOK, IsPage
<1>6. \A s \in StoredAt(0) : s.id <= p.id
  BY <1>2, <1>3, <1>5 DEF CInv, LiveOK
<1>7. \A s \in StoredAt(0) : s.prev # Hash(p)
  <2> SUFFICES ASSUME NEW s \in StoredAt(0), s.prev = Hash(p) PROVE FALSE
    OBVIOUS
  <2>1. PICK q \in StoredAt(0) : Hash(q) = s.prev /\ q.id < s.id
    BY <1>3 DEF CInv, LinkedChain
  <2>2. q.id = p.id
    BY <1>3, <1>5, <2>1
  <2> QED
    BY <1>3, <1>5, <1>6, <2>1, <2>2
<1>8. TipOK'
  <2>1. IsTip(p)'
    BY <1>2, <1>3, <1>4 DEF IsTip
  <2>2. \A s \in Settled' : s.id <= p.id /\ s.prev # Hash(p)
    BY <1>2, <1>6, <1>7
  <2>3. p \in Settled'
    BY <1>2, <1>3
  <2> QED
    BY <1>4, <2>1, <2>2, <2>3 DEF TipOK
<1>9. LiveOK' /\ LinkedChain(0)'
  BY <1>2 DEF CInv, LiveOK, LinkedChain
<1> QED
  BY <1>8, <1>9 DEF CInv

(* Every step of the call going on leaves the chain linked. *)
LEMMA StepChain ==
    ASSUME NoneIsNoRecord, IInv, GInv, SInv, CInv, NEW a \in Appenders, Alone(a), Step(a)
    PROVE  CInv'
<1>1. /\ Mine(a) /\ FlowOK(a) /\ Depth(a) \in Nat
      /\ pc[a] \in HoldsPage => IsPage(page[a]) /\ page[a].level = Depth(a)
      /\ pc[a] \in InAddLeaf => Depth(a) = 0
      /\ Depth(a) > 0 => ActiveAt(0) = {}
  BY CallStepOK, DepthOK DEF GInv, FlowOK
<1>2. ASSUME storage' = storage, lastFinalized' = lastFinalized, ~Tracking(a), ~Tracking(a)',
             ActiveAt(0)' \subseteq Live, LeafPageInHand(a)' => page'[a] \in Live
      PROVE  CInv'
  <2>1. StoredAt(0)' = StoredAt(0) /\ Live' \subseteq Live
    BY <1>1, <1>2, ChainParts DEF StoredAt
  <2>2. \A p : p \in Settled' <=> p \in Settled
    BY <1>1, <1>2, <2>1, ChainParts
  <2> QED
    BY <1>2, <2>1, <2>2, ChainRests
<1>3. ActiveAt(0) \subseteq Live /\ (LeafPageInHand(a) => page[a] \in Live)
  BY DEF Live
<1>4. CASE TakeActivePage(a)
  BY <1>2, <1>3, <1>4, TakeEffect DEF managerVars, Tracking, ActiveAt
<1>5. CASE RetireActivePage(a)
  <2>1. /\ storage' = storage /\ lastFinalized' = lastFinalized
        /\ page'[a] \in ActiveAt(0) /\ pc[a] = "take" /\ pc'[a] = "store"
        /\ activePages' = Without(0)
    BY <1>5, RetireEffect, RetiredHasLeaves DEF GInv
  <2> QED
    BY <1>2, <1>3, <2>1 DEF Tracking, ActiveAt, Without
<1>6. CASE FindNoActivePage(a)
  <2>1. pc[a] = "take" /\ pc'[a] = "create" /\ UNCHANGED managerVars
    BY <1>6 DEF FindNoActivePage, Goto, IInv, TypeOK
  <2> QED
    BY <1>2, <1>3, <2>1 DEF managerVars, Tracking, ActiveAt, LeafPageInHand
<1>7. CASE CreatePage(a)
  BY <1>7, CreateFollows
<1>8. CASE PreFinalize(a)
  BY <1>1, <1>2, <1>3, <1>8, PreFinalizeEffect
     DEF managerVars, Tracking, ActiveAt, LeafPageInHand, InAddLeaf
<1>9. CASE AppendLeaf(a)
  <2> DEFINE p == page[a]
             g == page'[a]
  <2>1. /\ pc[a] = "have" /\ pc'[a] \in {"store", "insert"} /\ Depth(a) = 0
        /\ g.id = p.id /\ UNCHANGED managerVars
    BY <1>1, <1>9, AppendLeafEffect DEF InAddLeaf
  <2>2. g.prev = p.prev
    <3>1. IsPage(p) /\ g = AddLeaf(p, call[a].leaf)
      BY <1>9, AppendLeafEffect
    <3> QED
      BY <3>1, AddLeafPrev
  <2> HIDE DEF p, g
  <2>3. /\ p \in Live /\ \A x \in Live' : x \in Live \/ x = g
        /\ StoredAt(0)' = StoredAt(0) /\ \A x : x \in Settled' <=> x \in Settled
    <3>1. /\ LeafPageInHand(a) /\ ~Tracking(a) /\ ~Tracking(a)'
          /\ ActiveAt(0)' = ActiveAt(0) /\ StoredAt(0)' = StoredAt(0)
      BY <2>1 DEF LeafPageInHand, Tracking, ActiveAt, StoredAt, managerVars
    <3> QED
      BY <1>1, <3>1, ChainParts DEF p, g
  <2>4. \A t : IsTip(t)' <=> IsTip(t)
    BY <2>1, <2>3 DEF IsTip, managerVars
  <2>5. LiveOK'
    BY <2>1, <2>2, <2>3, <2>4 DEF CInv, LiveOK, managerVars
  <2>6. TipOK' /\ LinkedChain(0)'
    BY <2>1, <2>3, <2>4 DEF CInv, TipOK, LinkedChain, managerVars
  <2> QED
    BY <2>5, <2>6 DEF CInv
<1>10. CASE KeepActivePage(a)
  <2>1. /\ pc[a] = "insert" /\ pc'[a] = "idle" /\ activePages' = WithActive(page[a])
        /\ storage' = storage /\ lastFinalized' = lastFinalized
    BY <1>10, KeepActiveEffect, LeaveEffect
  <2>2. page[a] \in Live /\ page[a].level = 0
    BY <1>1, <1>3, <2>1 DEF LeafPageInHand, InAddLeaf, HoldsPage
  <2>3. ActiveAt(0)' \subseteq Live
    BY <2>1, <2>2 DEF ActiveAt, WithActive, Without
  <2> QED
    BY <1>2, <2>1, <2>3 DEF Tracking, LeafPageInHand
<1>11. CASE StorageFails(a) \/ ChildMissing(a)
  <2>1. /\ pc[a] \in {"store", "load", "create", "parent"} /\ pc'[a] = "idle"
        /\ UNCHANGED managerVars
    BY <1>11, StorageFailsEffect, ChildMissingEffect, LeaveEffect
  <2> QED
    BY <1>2, <1>3, <2>1 DEF managerVars, Tracking, ActiveAt, LeafPageInHand
<1>12. ASSUME Depth(a) > 0, ActiveAt(0)' = {}, ~LeafPageInHand(a)', ~Tracking(a)',
              StoredAt(0)' = StoredAt(0), lastFinalized'[0] = lastFinalized[0]
       PROVE  CInv'
  <2>1. Live' = {} /\ Live = {} /\ \A p : p \in Settled' <=> p \in Settled
    BY <1>1, <1>12, ChainParts DEF LeafPageInHand, Tracking
  <2> QED
    BY <1>12, <2>1, ChainRests
<1>13. CASE StorePage(a)
  <2>1. CASE Depth(a) = 0
    BY <1>13, <2>1, StoreFollows
  <2>2. CASE Depth(a) # 0
    <3>1. /\ pc[a] = "store" /\ pc'[a] = "track" /\ Depth(a)' = Depth(a)
          /\ storage' = (storage \ Stored(page[a].level, page[a].id)) \cup {page[a]}
          /\ UNCHANGED <<activePages, lastFinalized>>
      BY <1>13, StoreEffect DEF Depth
    <3>2. Depth(a) > 0 /\ page[a].level # 0
      BY <1>1, <2>2, <3>1 DEF HoldsPage
    <3>3. StoredAt(0)' = StoredAt(0) /\ ActiveAt(0)' = {}
      BY <1>1, <3>1, <3>2 DEF StoredAt, Stored, ActiveAt
    <3> QED
      BY <1>12, <3>1, <3>2, <3>3 DEF LeafPageInHand, Tracking
  <2> QED
    BY <2>1, <2>2
<1>14. CASE TrackFinalized(a)
  <2>1. CASE Depth(a) = 0
    BY <1>14, <2>1, TrackFollows
  <2>2. CASE Depth(a) # 0
    <3>1. /\ pc[a] = "track" /\ pc'[a] = "load"
          /\ UNCHANGED storage /\ activePages' \subseteq activePages
          /\ lastFinalized' = [lastFinalized EXCEPT ![page[a].level] =
                                  [id |-> page[a].id, hash |-> Hash(page[a])]]
      BY <1>14 DEF TrackFinalized, Without, Goto, IInv, TypeOK
    <3>2. Depth(a) > 0 /\ page[a].level # 0
      BY <1>1, <2>2, <3>1 DEF HoldsPage
    <3>3. lastFinalized'[0] = lastFinalized[0]
      <4>1. DOMAIN lastFinalized = Levels /\ 0 \in Levels
        BY ConfigAssumption DEF IInv, TypeOK, ManagerTypeOK, Levels
      <4> QED
        BY <3>1, <3>2, <4>1
    <3>4. StoredAt(0)' = StoredAt(0) /\ ActiveAt(0)' = {}
      BY <1>1, <3>1, <3>2 DEF StoredAt, ActiveAt
    <3> QED
      BY <1>12, <3>1, <3>2, <3>3, <3>4 DEF LeafPageInHand, Tracking
  <2> QED
    BY <2>1, <2>2
<1>15. ASSUME Depth(a) > 0, Depth(a)' > 0, storage' = storage, lastFinalized' = lastFinalized,
              ActiveAt(0)' \subseteq ActiveAt(0)
       PROVE  CInv'
  BY <1>1, <1>12, <1>15 DEF LeafPageInHand, Tracking, StoredAt
<1>16. CASE LoadChild(a) \/ ParentNotStale(a) \/ ReturnToParent(a)
  BY <1>15, <1>16, RollupRestsEffect DEF managerVars, ActiveAt
<1>17. CASE RetireStaleParent(a)
  BY <1>15, <1>17, RetireStaleEffect DEF ActiveAt, Without
<1>18. CASE ReuseParent(a) \/ ReopenParent(a) \/ CreateParent(a)
  <2>1. \E p : Obtained(a, p)
    BY <1>18, ParentEffect
  <2> QED
    BY <1>15, <2>1 DEF Obtained, ActiveAt, Depth
<1>19. CASE DiscardParent(a) \/ FinalizeParent(a) \/ KeepParent(a)
  <2>1. /\ page[a].level = Depth(a) /\ Depth(a) > 0 /\ Depth(a)' = Depth(a)
        /\ storage' = storage /\ lastFinalized' = lastFinalized
        /\ activePages' = Without(Depth(a)) \/ activePages' = WithActive(page[a])
    BY <1>19, SettleEffect
  <2>2. ActiveAt(0)' \subseteq ActiveAt(0)
    BY <2>1 DEF ActiveAt, Without, WithActive
  <2> QED
    BY <1>15, <2>1, <2>2
<1>20. CASE ReturnToAddLeaf(a)
  <2>1. /\ pc[a] = "return" /\ Depth(a) > 0 /\ UNCHANGED managerVars
        /\ pc'[a] \in {"idle", "create", "take"}
    BY <1>20, ReturnEffect, LeaveEffect
  <2>2. ActiveAt(0)' = {} /\ StoredAt(0)' = StoredAt(0)
    BY <1>1, <2>1 DEF ActiveAt, StoredAt, managerVars
  <2> QED
    BY <1>12, <2>1, <2>2 DEF LeafPageInHand, Tracking, managerVars
<1> QED
  BY <1>4, <1>5, <1>6, <1>7, <1>8, <1>9, <1>10, <1>11, <1>13, <1>14, <1>16, <1>17,
     <1>18, <1>19, <1>20 DEF Step

(* So does a new call, and a step that changes nothing. *)
LEMMA ChainOK ==
    ASSUME NoneIsNoRecord
    PROVE  IInv /\ QInv /\ CInv /\ Serial /\ Serial' /\ NoRestart /\ NoRestart'
              /\ [Next]_vars => CInv'
<1> SUFFICES ASSUME IInv, QInv, CInv, Serial, Serial', NoRestart, NoRestart', [Next]_vars
             PROVE  CInv'
  OBVIOUS
<1>0. GInv /\ SInv
  BY DEF QInv, NoRestart
<1>1. CASE Restart
  <2>1. restarts \in Nat /\ restarts' = restarts + 1
    BY <1>1 DEF Restart, IInv, TypeOK, CountersTypeOK
  <2> QED
    BY <2>1 DEF NoRestart
<1>2. CASE UNCHANGED vars
  <2>1. Live' = Live /\ StoredAt(0)' = StoredAt(0) /\ Settled' = Settled
    BY <1>2 DEF vars, managerVars, callVars, Live, StoredAt, Settled, ActiveAt,
       LeafPageInHand, Tracking, Depth
  <2> QED
    BY <1>2, <2>1, ChainRests DEF vars, managerVars
<1>3. ASSUME NEW a \in Appenders, CallAddLeaf(a)
      PROVE  CInv'
  <2>1. /\ Alone(a) /\ Mine(a) /\ pc[a] = "idle" /\ pc'[a] = "take" /\ UNCHANGED managerVars
    BY <1>3, SerialAlone, CallEffect
  <2>2. /\ ActiveAt(0)' = ActiveAt(0) /\ StoredAt(0)' = StoredAt(0)
        /\ ~LeafPageInHand(a)' /\ ~Tracking(a)' /\ ~Tracking(a)
    BY <2>1 DEF ActiveAt, StoredAt, managerVars, LeafPageInHand, Tracking
  <2>3. Live' \subseteq Live /\ \A p : p \in Settled' <=> p \in Settled
    BY <2>1, <2>2, ChainParts
  <2> QED
    BY <2>1, <2>2, <2>3, ChainRests DEF managerVars
<1>4. ASSUME NEW a \in Appenders, Step(a)
      PROVE  CInv'
  BY <1>0, <1>4, SerialAlone, StepChain
<1> QED
  BY <1>1, <1>2, <1>3, <1>4 DEF Next

(* There is no page at first. *)
LEMMA ChainInit == Init => CInv
<1> SUFFICES ASSUME Init PROVE CInv
  OBVIOUS
<1>1. Live = {} /\ Settled = {} /\ StoredAt(0) = {}
  BY DEF Init, Live, Settled, StoredAt, ActiveAt, LeafPageInHand
<1>2. lastFinalized[0] = None
  BY ConfigAssumption DEF Init, Levels
<1> QED
  BY <1>1, <1>2 DEF CInv, TipOK, LiveOK, LinkedChain

(***************************************************************************)
(* The stored leaf pages form one chain, when calls come one at a time and *)
(* the process keeps running, failing stores or not: prev_page_hash of     *)
(* each is the hash of a stored one with a smaller id, and no two follow   *)
(* the same page.  get_or_create_active_page_for_leaf reads the hash off   *)
(* the page tracked last; that page is still in the store and its last.    *)
(***************************************************************************)
THEOREM SerialLeafPageChain ==
    ASSUME NoneIsNoRecord
    PROVE  Spec /\ []Serial /\ []NoRestart => []LeafPageChain
<1>1. Init => QInv /\ CInv
  BY QuietInit, ChainInit
<1>2. IInv /\ QInv /\ CInv /\ Serial /\ Serial' /\ NoRestart /\ NoRestart'
         /\ [Next]_vars => QInv' /\ CInv'
  BY QuietOK, ChainOK
<1>3. CInv => LeafPageChain
  BY DEF CInv, LeafPageChain
<1> QED
  BY <1>1, <1>2, <1>3, SpecInv, PTL DEF Spec
=============================================================================
