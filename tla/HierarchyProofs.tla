-------------------------- MODULE HierarchyProofs --------------------------
(***************************************************************************)
(* Proofs about the hierarchy of pages: finalized pages are read-only,     *)
(* child hashes resolve, every page is rolled up once, the pages of each   *)
(* level chain.  All of it rests on no parent being reopened, which is so  *)
(* when leaves come in the order of time, one call after the other, and a  *)
(* parent's age is no less than its window.                                *)
(***************************************************************************)
EXTENDS LeafProofs

(* Leaves in time order, and parents that age with their windows or later. *)
InOrder ==
    /\ Lateness = 0
    /\ \A l \in Levels \ {0} : MaxAge[l] >= Duration[l]

----------------------------------------------------------------------------
(***************************************************************************)
(* No parent is written twice.  A parent is finalized when it is full or   *)
(* when its window has ended, and neither changes: PrevHash finds it, the  *)
(* test for reopening it (Reopenable) fails.                               *)
(***************************************************************************)
Closed(p) == ~HasSpace(p) \/ EndTime(p) <= newest

(* The parents an activation has retired, while it waits for their rollup. *)
RetiredAway(a) ==
    \A i \in 1 .. Depth(a) :
        i < Depth(a) /\ frames[a][i].resume = "parent" => ActiveAt(i) = {}

(* The parent in hand of a call, and those its cascade has left behind. *)
ParentInHandOK(a) ==
    /\ pc[a] = "settle" =>
          /\ InWindow(page[a], newest) /\ Unstored(page[a].id)
          /\ \A p \in ActiveAt(page[a].level) :
                /\ p.id = page[a].id
                /\ KidsOf(p) \subseteq KidsOf(page[a])
    /\ pc[a] = "store" /\ Depth(a) > 0 =>
          Closed(page[a]) /\ Unstored(page[a].id)
    /\ pc[a] = "parent" => \A p \in ActiveAt(Depth(a)) : newest < EndTime(p)
    /\ RetiredAway(a)

TriggersLatest == \A a \in Appenders : pc[a] # "idle" => Trigger(a) = newest

ActiveParentsOpen ==
    \A p \in activePages : p.level > 0 => p.start <= newest /\ Unstored(p.id)

StoredParentsClosed == \A p \in storage : p.level > 0 => Closed(p)

OInv ==
    /\ TriggersLatest /\ ActiveParentsOpen /\ StoredParentsClosed
    /\ \A a \in Appenders : ParentInHandOK(a)

(* The clock of the leaves moves with calls only. *)
LEMMA StepNewest ==
    ASSUME NEW a \in Appenders, Step(a)
    PROVE  newest' = newest
BY DEF Step, TakeActivePage, RetireActivePage, FindNoActivePage, CreatePage, PreFinalize,
   AppendLeaf, KeepActivePage, StorePage, StorageFails, TrackFinalized, LoadChild,
   ChildMissing, RetireStaleParent, ParentNotStale, ReuseParent, ReopenParent,
   CreateParent, DiscardParent, FinalizeParent, KeepParent, ReturnToParent,
   ReturnToAddLeaf, worldVars

(* The parent after the merge: the child's hash, and what else it had. *)
LEMMA MergedKids ==
    ASSUME NEW a \in Appenders, NEW p, Obtained(a, p)
    PROVE  /\ page'[a].start = p.start /\ page'[a].prev = p.prev
           /\ ContentType[p.level] = "NetPatches" => KidsOf(page'[a]) = KidsOf(p)
           /\ ContentType[p.level] # "NetPatches" =>
                 KidsOf(page'[a]) = KidsOf(p) \cup {Hash(TopFrame(a).child)}
<1> DEFINE child == TopFrame(a).child
<1>1. IsPage(p) /\ IsPage(child) /\ page'[a] = RollInto(p, child)
  BY DEF Obtained
<1> HIDE DEF child
<1>2. /\ page'[a].start = p.start /\ page'[a].prev = p.prev
      /\ page'[a].kids = IF ContentType[p.level] = "NetPatches" THEN p.kids
                         ELSE Append(p.kids, Hash(child))
  BY <1>1, RollIntoIsPage
<1>3. IsList(p.kids)
  BY <1>1 DEF IsPage
<1>4. ASSUME NEW h, page'[a].kids = Append(p.kids, h)
      PROVE  KidsOf(page'[a]) = KidsOf(p) \cup {h}
  <2>1. /\ DOMAIN page'[a].kids = 1 .. Len(p.kids) + 1 /\ Len(p.kids) \in Nat
        /\ page'[a].kids[Len(p.kids) + 1] = h /\ DOMAIN p.kids = 1 .. Len(p.kids)
        /\ \A i \in 1 .. Len(p.kids) : page'[a].kids[i] = p.kids[i]
    BY <1>3, <1>4, AppendList DEF IsList
  <2>2. \A k : k \in KidsOf(page'[a]) <=> k \in KidsOf(p) \/ k = h
    BY <2>1 DEF KidsOf
  <2> QED
    BY <2>2
<1> QED
  BY <1>2, <1>4 DEF KidsOf, child

(* It is enough to look at the call going on. *)
LEMMA ParentsSuffice ==
    ASSUME IInv, NEW a \in Appenders, Alone(a), Step(a), TriggersLatest,
           ActiveParentsOpen', StoredParentsClosed', ParentInHandOK(a)'
    PROVE  OInv'
<1>1. IInv' /\ Mine(a) /\ newest' = newest
  BY CallStepOK, StepNewest
<1>2. \A b \in Appenders \ {a} : pc'[b] = "idle"
  BY <1>1 DEF Alone, Mine
<1>3. TriggersLatest'
  BY <1>1, <1>2, StepSameLeaf DEF TriggersLatest, Trigger, SameLeaf
<1>4. ASSUME NEW b \in Appenders, b # a
      PROVE  ParentInHandOK(b)'
  <2>1. pc'[b] = "idle"
    BY <1>2, <1>4
  <2>2. Depth(b)' = 0
    BY <1>1, <2>1 DEF IInv, StackOK, InAddLeaf, Depth
  <2> QED
    BY <2>1, <2>2 DEF ParentInHandOK, RetiredAway
<1> QED
  BY <1>3, <1>4 DEF OInv

(* Fewer parents are active, and nothing is written. *)
LEMMA FewerParents ==
    ASSUME ActiveParentsOpen, StoredParentsClosed, newest' = newest, storage' = storage,
           \A p \in activePages' : p.level > 0 => p \in activePages
    PROVE  ActiveParentsOpen' /\ StoredParentsClosed'
BY DEF ActiveParentsOpen, StoredParentsClosed, Closed, Unstored

(* The steps of add_leaf on the leaf page leave the parents alone. *)
LEMMA LeafPageParents ==
    ASSUME IInv, OInv, NEW a \in Appenders, Alone(a),
           \/ TakeActivePage(a) \/ RetireActivePage(a) \/ FindNoActivePage(a)
           \/ CreatePage(a) \/ PreFinalize(a) \/ AppendLeaf(a) \/ KeepActivePage(a)
    PROVE  OInv'
<1>0. Step(a) /\ IInv' /\ Mine(a) /\ newest' = newest
  BY CallStepOK, StepNewest DEF Step
<1>1. pc[a] \in {"take", "create", "have", "insert"} /\ storage' = storage
      /\ pc'[a] \in {"have", "store", "create", "insert", "idle"}
  BY DEF TakeActivePage, RetireActivePage, FindNoActivePage, CreatePage, PreFinalize,
     AppendLeaf, KeepActivePage, Obtain, ReturnOk, Leave, Goto, managerVars, IInv, TypeOK
<1>2. Depth(a) = 0
  BY <1>1, DepthOK DEF InAddLeaf
<1>3. frames' = frames \/ Leave(a)
  BY DEF TakeActivePage, RetireActivePage, FindNoActivePage, CreatePage, PreFinalize,
     AppendLeaf, KeepActivePage, ReturnOk
<1>4. Depth(a)' = 0
  BY <1>2, <1>3, LeaveEffect DEF Depth
<1>5. \A p \in activePages' : p.level > 0 => p \in activePages
  <2>1. CASE KeepActivePage(a)
    <3>1. activePages' = WithActive(page[a]) /\ page[a].level = 0
      BY <1>2, <2>1, KeepActiveEffect, DepthOK DEF HoldsPage
    <3> QED
      BY <3>1 DEF WithActive, Without
  <2>2. CASE ~KeepActivePage(a)
    BY <2>2 DEF TakeActivePage, RetireActivePage, FindNoActivePage, CreatePage,
       PreFinalize, AppendLeaf, Without, managerVars
  <2> QED
    BY <2>1, <2>2
<1>6. ActiveParentsOpen' /\ StoredParentsClosed'
  BY <1>0, <1>1, <1>5, FewerParents DEF OInv
<1>7. ParentInHandOK(a)'
  BY <1>1, <1>4 DEF ParentInHandOK, RetiredAway
<1> QED
  BY <1>0, <1>6, <1>7, ParentsSuffice DEF OInv

(* A page is written: if a parent, a closed one, and in no other place. *)
LEMMA StoreParents ==
    ASSUME IInv, GInv, OInv, NEW a \in Appenders, Alone(a), StorePage(a)
    PROVE  OInv'
<1>0. Step(a) /\ Mine(a) /\ newest' = newest
  BY CallStepOK, StepNewest DEF Step
<1>1. /\ pc[a] = "store" /\ pc'[a] = "track" /\ page' = page /\ Depth(a)' = Depth(a)
      /\ frames' = frames /\ activePages' = activePages
      /\ storage' \subseteq storage \cup {page[a]}
  BY StoreEffect DEF Depth
<1>2. page[a].level = Depth(a) /\ page[a] \in Around /\ Depth(a) \in Nat
  BY <1>1, DepthOK, AroundParts DEF HoldsPage
<1>3. FlowOK(a) /\ IdsOK /\ ParentInHandOK(a)
  BY DEF GInv, OInv
<1>4. ASSUME NEW p \in activePages, p.level > 0
      PROVE  p.id # page[a].id
  <2> SUFFICES ASSUME p.id = page[a].id PROVE FALSE
    OBVIOUS
  <2>1. p.level = page[a].level
    BY <1>2, <1>3, AroundParts DEF IdsOK
  <2>2. ActiveAt(page[a].level) = {}
    BY <1>1, <1>2, <1>3, <1>4, <2>1 DEF FlowOK
  <2> QED
    BY <2>1, <2>2 DEF ActiveAt
<1>5. ActiveParentsOpen'
  BY <1>0, <1>1, <1>4 DEF OInv, ActiveParentsOpen, Unstored
<1>6. Depth(a) > 0 => Closed(page[a])
  BY <1>1, <1>3 DEF ParentInHandOK
<1>7. StoredParentsClosed'
  BY <1>0, <1>1, <1>2, <1>6 DEF OInv, StoredParentsClosed, Closed
<1>8. ParentInHandOK(a)'
  BY <1>1, <1>3 DEF ParentInHandOK, RetiredAway, ActiveAt
<1> QED
  BY <1>0, <1>5, <1>7, <1>8, ParentsSuffice DEF OInv

(* A call that fails, or goes on without touching a page or a map. *)
LEMMA RestParents ==
    ASSUME IInv, OInv, NEW a \in Appenders, Alone(a),
           \/ StorageFails(a) \/ ChildMissing(a) \/ ReturnToAddLeaf(a)
           \/ LoadChild(a) \/ ParentNotStale(a) \/ ReturnToParent(a)
    PROVE  OInv'
<1>0. Step(a) /\ Mine(a) /\ newest' = newest /\ Depth(a) \in Nat
  BY CallStepOK, StepNewest, DepthOK DEF Step
<1>1. activePages' = activePages /\ storage' = storage
  BY DEF StorageFails, ChildMissing, ReturnToAddLeaf, LoadChild, ParentNotStale,
     ReturnToParent, managerVars
<1>2. ActiveParentsOpen' /\ StoredParentsClosed'
  BY <1>0, <1>1, FewerParents DEF OInv
<1>3. ParentInHandOK(a)'
  <2>1. CASE StorageFails(a) \/ ChildMissing(a) \/ ReturnToAddLeaf(a)
    <3>1. pc'[a] \in {"idle", "create", "take"} /\ Depth(a)' = 0
      BY <2>1, StorageFailsEffect, ChildMissingEffect, ReturnEffect, LeaveEffect DEF Depth
    <3> QED
      BY <3>1 DEF ParentInHandOK, RetiredAway
  <2>2. CASE LoadChild(a)
    <3>1. /\ pc'[a] \in {"return", "stale"} /\ Depth(a)' = Depth(a)
          /\ \A i \in 1 .. Depth(a) : i < Depth(a) => frames'[a][i] = frames[a][i]
      <4>1. pc[a] = "load" /\ Depth(a) > 0
        BY <2>2, DepthOK DEF LoadChild, InRollup
      <4>2. \/ frames' = frames
            \/ \E child \in storage : SetTop(a, "child", child)
        BY <2>2 DEF LoadChild, StoredWithHash
      <4>3. pc'[a] \in {"return", "stale"}
        BY <2>2 DEF LoadChild, Goto, IInv, TypeOK
      <4>4. CASE frames' = frames
        BY <4>3, <4>4 DEF Depth
      <4>5. ASSUME NEW child \in storage, SetTop(a, "child", child)
            PROVE  /\ Depth(a)' = Depth(a)
                   /\ \A i \in 1 .. Depth(a) : i < Depth(a) => frames'[a][i] = frames[a][i]
        <5>1. IsPage(child)
          BY <4>5 DEF IInv, TypeOK, ManagerTypeOK
        <5>2. /\ Len(frames'[a]) = Len(frames[a])
              /\ \A i \in 1 .. Len(frames[a]) - 1 : frames'[a][i] = frames[a][i]
          BY <4>1, <4>5, <5>1, SetTopKept DEF Depth
        <5> QED
          BY <1>0, <5>2 DEF Depth
      <4> QED
        BY <4>2, <4>3, <4>4, <4>5
    <3> QED
      BY <1>1, <3>1 DEF OInv, ParentInHandOK, RetiredAway, ActiveAt
  <2>3. CASE ParentNotStale(a)
    <3>1. /\ pc[a] = "stale" /\ pc'[a] = "parent" /\ frames' = frames
          /\ \A p \in ActiveAt(ParentLevel(a)) : Trigger(a) < EndTime(p)
      BY <2>3 DEF ParentNotStale, Goto, IInv, TypeOK
    <3>2. ParentLevel(a) = Depth(a) /\ Trigger(a) = newest /\ Depth(a)' = Depth(a)
      BY <3>1, AtParent DEF OInv, TriggersLatest, Depth
    <3> QED
      BY <1>0, <1>1, <3>1, <3>2 DEF OInv, ParentInHandOK, RetiredAway, ActiveAt
  <2>4. CASE ReturnToParent(a)
    <3>1. /\ Depth(a) > 1 /\ pc[a] = "return"
          /\ frames' = [frames EXCEPT ![a] = SubSeq(@, 1, Len(@) - 1)]
          /\ pc'[a] = frames[a][Depth(a) - 1].resume
      BY <2>4 DEF ReturnToParent, Goto, Depth, IInv, TypeOK
    <3>2. IsList(frames[a]) /\ DOMAIN frames = Appenders
          /\ IsFrame(frames[a][Depth(a) - 1])
      BY <1>0, <3>1 DEF IInv, TypeOK, CallTypeOK, Depth
    <3>3. Depth(a)' = Depth(a) - 1
          /\ \A i \in 1 .. Depth(a) - 1 : frames'[a][i] = frames[a][i]
      BY <3>1, <3>2, FrontList DEF Depth
    <3>4. pc'[a] \in {"parent", "return"}
      BY <3>1, <3>2 DEF IsFrame
    <3>5. pc'[a] = "parent" => ActiveAt(Depth(a) - 1) = {}
      <4>1. RetiredAway(a) /\ Depth(a) - 1 \in 1 .. Depth(a) /\ Depth(a) - 1 < Depth(a)
        BY <1>0, <3>1 DEF OInv, ParentInHandOK
      <4> QED
        BY <3>1, <4>1 DEF RetiredAway
    <3> QED
      BY <1>0, <1>1, <3>3, <3>4, <3>5 DEF OInv, ParentInHandOK, RetiredAway, ActiveAt
  <2> QED
    BY <2>1, <2>2, <2>3, <2>4
<1> QED
  BY <1>0, <1>2, <1>3, ParentsSuffice DEF OInv

(* A page finalized becomes the top of the stack, no parent is active there. *)
LEMMA TrackParents ==
    ASSUME IInv, GInv, OInv, NEW a \in Appenders, Alone(a), TrackFinalized(a)
    PROVE  OInv'
<1>0. Step(a) /\ Mine(a) /\ newest' = newest /\ Depth(a) \in Nat
  BY CallStepOK, StepNewest, DepthOK DEF Step
<1>1. /\ pc[a] = "track" /\ pc'[a] = "load" /\ storage' = storage
      /\ activePages' \subseteq activePages /\ Depth(a)' = Depth(a) + 1
      /\ \A i \in 1 .. Depth(a) : frames'[a][i] = frames[a][i]
  BY TrackEffect DEF Without
<1>2. ActiveParentsOpen' /\ StoredParentsClosed'
  BY <1>0, <1>1, FewerParents DEF OInv
<1>3. page[a].level = Depth(a)
  BY <1>1, DepthOK DEF HoldsPage
<1>4. FlowOK(a)
  BY DEF GInv
<1>5. Depth(a) > 0 => ActiveAt(Depth(a)) = {}
  BY <1>1, <1>3, <1>4 DEF FlowOK
<1>6. RetiredAway(a)
  BY DEF OInv, ParentInHandOK
<1>7. ASSUME NEW i \in 1 .. Depth(a), frames[a][i].resume = "parent"
      PROVE  ActiveAt(i) = {}
  BY <1>0, <1>5, <1>6, <1>7 DEF RetiredAway
<1>8. RetiredAway(a)'
  BY <1>0, <1>1, <1>7 DEF RetiredAway, ActiveAt
<1>9. ParentInHandOK(a)'
  BY <1>1, <1>8 DEF ParentInHandOK
<1> QED
  BY <1>0, <1>2, <1>9, ParentsSuffice DEF OInv

(* Setting where the top activation resumes changes nothing below it. *)
LEMMA ResumeBelow ==
    ASSUME IInv, NEW a \in Appenders, Depth(a) > 0, NEW where \in {"parent", "return"},
           SetTop(a, "resume", where)
    PROVE  /\ Depth(a)' = Depth(a)
           /\ \A i \in 1 .. Depth(a) : i < Depth(a) => frames'[a][i] = frames[a][i]
<1>1. /\ Len(frames'[a]) = Len(frames[a])
      /\ \A i \in 1 .. Len(frames[a]) - 1 : frames'[a][i] = frames[a][i]
  BY SetTopKept DEF Depth
<1>2. Depth(a) \in Nat
  BY DepthOK
<1> QED
  BY <1>1, <1>2 DEF Depth

(* A parent that has ended is retired: closed, and not written before. *)
LEMMA RetireStaleParents ==
    ASSUME IInv, OInv, NEW a \in Appenders, Alone(a), RetireStaleParent(a)
    PROVE  OInv'
<1>0. Step(a) /\ Mine(a) /\ newest' = newest /\ Depth(a) \in Nat
  BY CallStepOK, StepNewest, DepthOK DEF Step
<1>1. PICK p \in activePages :
         /\ p.level = Depth(a) /\ Trigger(a) >= EndTime(p)
         /\ activePages' = Without(Depth(a))
         /\ \/ page' = page /\ frames' = frames /\ pc'[a] = "parent"
            \/ page'[a] = p /\ pc'[a] = "store" /\ SetTop(a, "resume", "parent")
  BY RetireStaleEffect
<1>2. pc[a] = "stale" /\ Depth(a) > 0 /\ storage' = storage /\ Depth(a)' = Depth(a)
  BY RetireStaleEffect
<1>3. Trigger(a) = newest
  BY <1>2 DEF OInv, TriggersLatest
<1>4. Closed(p) /\ Unstored(p.id)
  BY <1>1, <1>2, <1>3, EndOfPage DEF OInv, ActiveParentsOpen, Closed, IInv, TypeOK,
     ManagerTypeOK, CountersTypeOK
<1>5. activePages' \subseteq activePages /\ ActiveAt(Depth(a))' = {}
  BY <1>1, <1>2 DEF Without, ActiveAt
<1>6. ActiveParentsOpen' /\ StoredParentsClosed'
  BY <1>0, <1>2, <1>5, FewerParents DEF OInv
<1>7. \A i \in 1 .. Depth(a) : i < Depth(a) => frames'[a][i] = frames[a][i]
  BY <1>1, <1>2, ResumeBelow
<1>8. RetiredAway(a)
  BY DEF OInv, ParentInHandOK
<1>9. RetiredAway(a)'
  BY <1>0, <1>2, <1>5, <1>7, <1>8 DEF RetiredAway, ActiveAt
<1>10. Closed(p)' /\ Unstored(p.id)'
  BY <1>0, <1>2, <1>4 DEF Closed, Unstored
<1>11. ParentInHandOK(a)'
  <2>1. CASE pc'[a] = "parent"
    BY <1>5, <1>9, <2>1 DEF ParentInHandOK
  <2>2. CASE pc'[a] = "store" /\ page'[a] = p
    BY <1>4, <1>0, <1>2, <1>9, <2>2 DEF ParentInHandOK, Closed, Unstored
  <2> QED
    BY <1>1, <2>1, <2>2
<1> QED
  BY <1>0, <1>6, <1>11, ParentsSuffice DEF OInv

(* No stored parent covers the trigger and has space. *)
LEMMA NoReopen ==
    ASSUME IInv, OInv, NEW a \in Appenders, pc[a] = "parent"
    PROVE  Reopenable(a) = {}
<1> SUFFICES ASSUME NEW p \in Reopenable(a) PROVE FALSE
  OBVIOUS
<1>1. /\ p \in storage /\ p.level = ParentLevel(a)
      /\ p.start = WindowStart(p.level, Trigger(a)) /\ HasSpace(p)
  BY DEF Reopenable, LastStored, Stored
<1>2. ParentLevel(a) = Depth(a) /\ Depth(a) \in 1 .. Top /\ Trigger(a) \in Nat
      /\ Depth(a) \in Levels /\ Trigger(a) = newest
  BY AtParent DEF Depth, OInv, TriggersLatest
<1>3. newest < EndTime(p)
  BY <1>1, <1>2, WindowHolds DEF EndTime
<1>4. Closed(p) /\ IsPage(p)
  BY <1>1, <1>2 DEF OInv, StoredParentsClosed, IInv, TypeOK, ManagerTypeOK
<1>5. EndTime(p) <= newest /\ EndTime(p) \in Nat /\ newest \in Nat
  BY <1>1, <1>2, <1>4, EndOfPage DEF Closed
<1> QED
  BY <1>3, <1>5

(* The active parent that has not ended is suitable. *)
LEMMA NoActiveParent ==
    ASSUME IInv, OInv, PageBounds, NEW a \in Appenders, pc[a] = "parent",
           SuitableActive(a) = {}
    PROVE  ActiveAt(Depth(a)) = {}
<1> SUFFICES ASSUME NEW p \in ActiveAt(Depth(a)) PROVE FALSE
  OBVIOUS
<1>1. ParentLevel(a) = Depth(a) /\ Depth(a) > 0 /\ Trigger(a) = newest
  BY AtParent DEF Depth, OInv, TriggersLatest
<1>2. p \in activePages /\ p.level = Depth(a)
  BY DEF ActiveAt
<1>3. newest < EndTime(p)
  BY DEF OInv, ParentInHandOK
<1>4. p.start <= newest
  BY <1>1, <1>2 DEF OInv, ActiveParentsOpen
<1>5. HasSpace(p)
  BY <1>2 DEF PageBounds
<1> QED
  BY <1>1, <1>3, <1>4, <1>5 DEF SuitableActive, Suitable, InWindow

(* A parent is obtained: the one active, or a new one. *)
LEMMA ObtainParents ==
    ASSUME IInv, GInv, OInv, PageBounds, NEW a \in Appenders, Alone(a),
           ReuseParent(a) \/ ReopenParent(a) \/ CreateParent(a)
    PROVE  OInv'
<1>0. Step(a) /\ Mine(a) /\ newest' = newest /\ Depth(a) \in Nat
  BY CallStepOK, StepNewest, DepthOK DEF Step
<1>1. pc[a] = "parent"
  BY DEF ReuseParent, ReopenParent, CreateParent
<1>2. /\ ParentLevel(a) = Depth(a) /\ Depth(a) > 0 /\ Depth(a) \in Levels
      /\ Trigger(a) = newest /\ newest \in Nat
  BY <1>1, AtParent DEF Depth, OInv, TriggersLatest
<1>3. PICK p : /\ Obtained(a, p) /\ InWindow(p, newest) /\ Unstored(p.id)
               /\ \A q \in ActiveAt(Depth(a)) : q = p
  <2>1. CASE \E p \in SuitableActive(a) : Obtained(a, p)
    <3>1. PICK p \in SuitableActive(a) : Obtained(a, p)
      BY <2>1
    <3>2. p \in activePages /\ p.level = Depth(a) /\ InWindow(p, newest)
      BY <1>2 DEF SuitableActive, ActiveAt, Suitable
    <3>3. Unstored(p.id)
      BY <1>2, <3>2 DEF OInv, ActiveParentsOpen
    <3>4. \A q \in ActiveAt(Depth(a)) : q = p
      BY <3>2 DEF GInv, IdsOK, ActiveAt
    <3> QED
      BY <3>1, <3>2, <3>3, <3>4
  <2>2. CASE SuitableActive(a) = {} /\ CreateParent(a)
    <3> DEFINE level == ParentLevel(a)
               start == WindowStart(ParentLevel(a), Trigger(a))
               new == NewPage(nextPageId, level, PrevHash(level), start)
    <3>1. Obtained(a, new) /\ new.id = nextPageId /\ nextPageId \in Nat
      <4>1. /\ MergeInto(a, new) /\ nextPageId' = nextPageId + 1
            /\ UNCHANGED <<activePages, storage, lastFinalized, call, frames, worldVars>>
        BY <2>2 DEF CreateParent
      <4>2. nextPageId \in Nat /\ level \in Levels /\ start \in Nat /\ Trigger(a) \in Nat
        BY <1>1, <1>2, AtParent, WindowHolds DEF IInv, TypeOK, ManagerTypeOK
      <4>3. IsPage(new) /\ new.level = level /\ new.id = nextPageId
        BY <4>2, NewPageIsPage
      <4>4. IsPage(TopFrame(a).child)
        BY <1>1, AtParent
      <4> HIDE DEF new, start
      <4> QED
        BY <1>0, <1>1, <1>2, <4>1, <4>2, <4>3, <4>4 DEF Obtained, MergeInto, Hold, Goto,
           IInv, TypeOK
    <3>2. new.start = start /\ new.level = level
      BY DEF NewPage
    <3>3. start <= newest /\ newest < start + Duration[level]
      BY <1>2, WindowHolds
    <3> HIDE DEF new, start
    <3>4. InWindow(new, newest)
      BY <3>2, <3>3 DEF InWindow, EndTime
    <3>5. Unstored(new.id)
      <4> SUFFICES ASSUME NEW q \in storage PROVE q.id # new.id
        BY DEF Unstored
      <4>1. q.id < nextPageId /\ q.id \in Nat
        BY AroundParts DEF GInv, IdsOK, IInv, TypeOK, ManagerTypeOK, IsPage
      <4> QED
        BY <3>1, <4>1
    <3>6. ActiveAt(Depth(a)) = {}
      BY <1>1, <2>2, NoActiveParent
    <3> QED
      BY <3>1, <3>4, <3>5, <3>6
  <2> QED
    BY <1>1, <2>1, <2>2, ParentEffect, NoReopen
<1>4. /\ pc'[a] = "settle" /\ p.level = Depth(a) /\ frames' = frames
      /\ activePages' = activePages /\ storage' = storage
  BY <1>3 DEF Obtained
<1>5. page'[a].id = p.id /\ page'[a].level = p.level
  BY <1>3, MergedPage
<1>6. page'[a].start = p.start /\ KidsOf(p) \subseteq KidsOf(page'[a])
  BY <1>3, MergedKids
<1>7. ActiveParentsOpen' /\ StoredParentsClosed'
  BY <1>0, <1>4, FewerParents DEF OInv
<1>8. InWindow(page[a], newest)'
  BY <1>0, <1>3, <1>5, <1>6 DEF InWindow, EndTime
<1>9. Unstored(page[a].id)'
  BY <1>3, <1>4, <1>5 DEF Unstored
<1>10. (\A q \in ActiveAt(page[a].level) : q.id = page[a].id
                                            /\ KidsOf(q) \subseteq KidsOf(page[a]))'
  BY <1>3, <1>4, <1>5, <1>6 DEF ActiveAt
<1>11. RetiredAway(a)'
  BY <1>4 DEF OInv, ParentInHandOK, RetiredAway, Depth, ActiveAt
<1>12. ParentInHandOK(a)'
  BY <1>4, <1>8, <1>9, <1>10, <1>11 DEF ParentInHandOK
<1> QED
  BY <1>0, <1>7, <1>12, ParentsSuffice DEF OInv
(* A page that covers the trigger is younger than its window is long. *)
LEMMA YoungInWindow ==
    ASSUME InOrder, NEW p, IsPage(p), p.level > 0, NEW ts \in Nat, InWindow(p, ts)
    PROVE  ~ParentOverAge(p, ts)
<1>1. p.level \in Levels /\ p.start \in Nat
  BY DEF IsPage
<1>2. MaxAge[p.level] >= Duration[p.level]
  BY <1>1 DEF InOrder
<1>3. MaxAge[p.level] \in Nat /\ Duration[p.level] \in Nat
  BY <1>1, LevelConstants
<1> QED
  BY <1>1, <1>2, <1>3 DEF InWindow, EndTime, ParentOverAge

(* The parent in hand covers the trigger: it is done only when it is full. *)
LEMMA SettleParents ==
    ASSUME InOrder, IInv, OInv, NEW a \in Appenders, Alone(a),
           DiscardParent(a) \/ FinalizeParent(a) \/ KeepParent(a)
    PROVE  OInv'
<1>0. Step(a) /\ Mine(a) /\ newest' = newest /\ Depth(a) \in Nat
  BY CallStepOK, StepNewest, DepthOK DEF Step
<1>1. /\ pc[a] = "settle" /\ IsPage(page[a]) /\ page[a].level = Depth(a) /\ Depth(a) > 0
      /\ Depth(a)' = Depth(a) /\ storage' = storage
  BY SettleEffect
<1>2. /\ FinalizeParent(a) => SetTop(a, "resume", "return")
      /\ ~FinalizeParent(a) => pc'[a] = "return" /\ frames' = frames
      /\ \/ activePages' = Without(Depth(a))
         \/ activePages' = WithActive(page[a])
  <2>1. FinalizeParent(a) => SetTop(a, "resume", "return")
    BY DEF FinalizeParent
  <2>2. \/ DiscardParent(a) /\ activePages' = Without(Depth(a)) /\ pc'[a] = "return"
                            /\ frames' = frames
        \/ FinalizeParent(a) /\ activePages' = Without(Depth(a))
        \/ KeepParent(a) /\ activePages' = WithActive(page[a]) /\ pc'[a] = "return"
                         /\ frames' = frames
    BY SettleEffect
  <2> QED
    BY <2>1, <2>2
<1>3. Trigger(a) = newest /\ newest \in Nat
  BY <1>1 DEF OInv, TriggersLatest, IInv, TypeOK, CountersTypeOK
<1>4. InWindow(page[a], newest) /\ Unstored(page[a].id)
  BY <1>1 DEF OInv, ParentInHandOK
<1>5. ActiveParentsOpen'
  <2>1. \A p \in activePages' : p \in activePages \/ p = page[a]
    BY <1>2 DEF Without, WithActive
  <2> QED
    BY <1>0, <1>1, <1>4, <2>1 DEF OInv, ActiveParentsOpen, InWindow, Unstored
<1>6. StoredParentsClosed'
  BY <1>0, <1>1 DEF OInv, StoredParentsClosed, Closed
<1>7. \A i \in 1 .. Depth(a) : i < Depth(a) => frames'[a][i] = frames[a][i]
  BY <1>0, <1>1, <1>2, ResumeBelow
<1>8. \A i \in 1 .. Depth(a) : i < Depth(a) => ActiveAt(i)' \subseteq ActiveAt(i)
  <2>1. \A p \in activePages' : p \in activePages \/ p = page[a]
    BY <1>2 DEF Without, WithActive
  <2> QED
    BY <1>0, <1>1, <2>1 DEF ActiveAt
<1>9. RetiredAway(a)'
  BY <1>1, <1>7, <1>8 DEF OInv, ParentInHandOK, RetiredAway
<1>10. ParentInHandOK(a)'
  <2>1. CASE ~FinalizeParent(a)
    BY <1>2, <1>9, <2>1 DEF ParentInHandOK
  <2>2. CASE FinalizeParent(a)
    <3>1. ~ParentOverAge(page[a], Trigger(a))
      BY <1>1, <1>3, <1>4, YoungInWindow
    <3>2. ParentDone(a) /\ page' = page /\ pc'[a] = "store"
      BY <2>2 DEF FinalizeParent, Goto, IInv, TypeOK
    <3>3. Closed(page[a])
      BY <3>1, <3>2 DEF ParentDone, Closed
    <3> QED
      BY <1>0, <1>1, <1>4, <1>9, <3>2, <3>3 DEF ParentInHandOK, Closed, Unstored
  <2> QED
    BY <2>1, <2>2
<1> QED
  BY <1>0, <1>5, <1>6, <1>10, ParentsSuffice DEF OInv

(* A step of the call going on. *)
LEMMA StepParents ==
    ASSUME InOrder, IInv, GInv, PageBounds, OInv, NEW a \in Appenders, Alone(a), Step(a)
    PROVE  OInv'
BY LeafPageParents, StoreParents, RestParents, TrackParents, RetireStaleParents,
   ObtainParents, SettleParents DEF Step

(* A new call brings the newest leaf. *)
LEMMA CallParents ==
    ASSUME InOrder, IInv, OInv, NEW a \in Appenders, Alone(a), CallAddLeaf(a)
    PROVE  OInv'
<1>1. IInv' /\ Mine(a)
  BY CallStepOK
<1>2. /\ pc[a] = "idle" /\ pc'[a] = "take" /\ frames' = frames
      /\ activePages' = activePages /\ storage' = storage
  BY CallEffect DEF managerVars
<1>3. PICK ts \in Times : \E op, obj :
        /\ newest <= ts + Lateness
        /\ call' = [call EXCEPT ![a] =
                      [leaf |-> [id |-> leafCount, ts |-> ts, obj |-> obj],
                       op |-> op, pageId |-> None, retaken |-> FALSE, after |-> "done"]]
        /\ newest' = IF ts > newest THEN ts ELSE newest
  BY DEF CallAddLeaf
<1>4. ts \in Nat /\ newest \in Nat /\ Lateness = 0
  BY WorkloadAssumption DEF InOrder, IInv, TypeOK, CountersTypeOK
<1>5. newest' = ts /\ newest <= newest' /\ newest' \in Nat
  BY <1>3, <1>4
<1>6. Trigger(a)' = newest'
  BY <1>3, <1>5 DEF Trigger, IInv, TypeOK
<1>7. \A b \in Appenders \ {a} : pc'[b] = "idle"
  BY <1>1 DEF Alone, Mine
<1>8. TriggersLatest'
  BY <1>6, <1>7 DEF TriggersLatest
<1>9. ActiveParentsOpen'
  <2>1. \A p \in activePages : p.start \in Nat
    BY DEF IInv, TypeOK, ManagerTypeOK, IsPage
  <2> QED
    BY <1>2, <1>4, <1>5, <2>1 DEF OInv, ActiveParentsOpen, Unstored
<1>10. StoredParentsClosed'
  <2>1. \A p \in storage : EndTime(p) \in Nat
    BY EndOfPage DEF IInv, TypeOK, ManagerTypeOK
  <2> QED
    BY <1>2, <1>4, <1>5, <2>1 DEF OInv, StoredParentsClosed, Closed
<1>11. ASSUME NEW b \in Appenders
       PROVE  ParentInHandOK(b)'
  <2>1. pc'[b] \in {"idle", "take"}
    BY <1>2, <1>7
  <2>2. Depth(b)' = 0
    BY <1>1, <2>1 DEF IInv, StackOK, InAddLeaf, Depth
  <2> QED
    BY <2>1, <2>2 DEF ParentInHandOK, RetiredAway
<1> QED
  BY <1>8, <1>9, <1>10, <1>11 DEF OInv

(* Every step, while calls come one by one and the process runs. *)
LEMMA ParentsOK ==
    ASSUME InOrder
    PROVE  IInv /\ QInv /\ PageBounds /\ OInv /\ Serial /\ Serial' /\ NoRestart
              /\ NoRestart' /\ [Next]_vars => OInv'
<1> SUFFICES ASSUME IInv, QInv, PageBounds, OInv, Serial, Serial', NoRestart, NoRestart',
                    [Next]_vars
             PROVE  OInv'
  OBVIOUS
<1>0. GInv
  BY DEF QInv, NoRestart
<1>1. CASE Restart
  <2>1. restarts \in Nat /\ restarts' = restarts + 1
    BY <1>1 DEF Restart, IInv, TypeOK, CountersTypeOK
  <2> QED
    BY <2>1 DEF NoRestart
<1>2. CASE UNCHANGED vars
  <2>1. /\ TriggersLatest /\ ActiveParentsOpen /\ StoredParentsClosed
        /\ newest' = newest /\ activePages' = activePages /\ storage' = storage
        /\ pc' = pc /\ call' = call /\ page' = page /\ frames' = frames
    BY <1>2 DEF OInv, vars, managerVars, callVars, worldVars
  <2>2. TriggersLatest' /\ ActiveParentsOpen' /\ StoredParentsClosed'
    BY <2>1, FewerParents DEF TriggersLatest, Trigger
  <2>3. ASSUME NEW a \in Appenders
        PROVE  ParentInHandOK(a)'
    <3>1. ParentInHandOK(a)
      BY DEF OInv
    <3> QED
      BY <2>1, <3>1 DEF ParentInHandOK, RetiredAway, Depth, ActiveAt, Unstored, Closed
  <2> QED
    BY <2>2, <2>3 DEF OInv
<1>3. ASSUME NEW a \in Appenders, CallAddLeaf(a)
      PROVE  OInv'
  BY <1>3, SerialAlone, CallParents
<1>4. ASSUME NEW a \in Appenders, Step(a)
      PROVE  OInv'
  BY <1>0, <1>4, SerialAlone, StepParents
<1> QED
  BY <1>1, <1>2, <1>3, <1>4 DEF Next

(* There are no parents at first. *)
LEMMA ParentsInit == Init => OInv
BY DEF Init, OInv, TriggersLatest, ActiveParentsOpen, StoredParentsClosed, ParentInHandOK,
   RetiredAway, Depth

(* A write puts a page into the store, and takes none out. *)
LEMMA StoreOnlyAdds ==
    ASSUME IInv, GInv, OInv, NEW a \in Appenders, Step(a)
    PROVE  \/ storage' = storage
           \/ /\ StorePage(a) /\ storage' = storage \cup {page[a]}
              /\ Unstored(page[a].id)
<1>1. CASE ~StorePage(a)
  BY <1>1, StoreGrows
<1>2. CASE StorePage(a)
  <2>1. /\ pc[a] = "store"
        /\ storage' = (storage \ Stored(page[a].level, page[a].id)) \cup {page[a]}
    BY <1>2, StoreEffect
  <2>2. Depth(a) > 0 => Unstored(page[a].id)
    BY <2>1 DEF OInv, ParentInHandOK
  <2>3. Depth(a) = 0 => Unstored(page[a].id)
    BY <2>1 DEF GInv, FlowOK, LeafPageInHand
  <2>4. Depth(a) \in Nat
    BY DepthOK
  <2>5. Unstored(page[a].id)
    BY <2>2, <2>3, <2>4
  <2>6. Stored(page[a].level, page[a].id) = {}
    BY <2>5 DEF Stored, Unstored
  <2> QED
    BY <1>2, <2>1, <2>5, <2>6
<1> QED
  BY <1>1, <1>2

(***************************************************************************)
(* A finalized page is read-only, at every level, when leaves come in the  *)
(* order of time and one call after the other, parents age no earlier than *)
(* their windows end, and the process keeps running, failing stores or     *)
(* not.  get_or_create_active_parent_page loads the page finalized last to *)
(* add to it when it covers the trigger and has space: perform_rollup only *)
(* stores a parent that is full, or whose window has ended by then.        *)
(***************************************************************************)
THEOREM InOrderPagesReadOnly ==
    ASSUME InOrder
    PROVE  Spec /\ []Serial /\ []NoRestart => FinalizedPagesReadOnly
<1>1. IInv /\ QInv /\ OInv /\ NoRestart /\ NoRestart' /\ [Next]_vars
         => [storage \subseteq storage']_vars
  <2> SUFFICES ASSUME IInv, QInv, OInv, NoRestart, NoRestart', Next
               PROVE  storage \subseteq storage'
    OBVIOUS
  <2>1. CASE Restart
    BY <2>1 DEF Restart, NoRestart
  <2>2. CASE \E a \in Appenders : CallAddLeaf(a)
    BY <2>2 DEF CallAddLeaf, managerVars
  <2>3. CASE \E a \in Appenders : Step(a)
    BY <2>3, StoreOnlyAdds DEF QInv, NoRestart
  <2> QED
    BY <2>1, <2>2, <2>3 DEF Next
<1> QED
  BY <1>1, QuietInit, ParentsInit, QuietOK, ParentsOK, SpecInv, SpecPageBounds,
     PTL DEF Spec, FinalizedPagesReadOnly

----------------------------------------------------------------------------
(***************************************************************************)
(* The hashes of children.  A page is in the store before perform_rollup   *)
(* gets its hash, the hash passes from there into a parent only, and the   *)
(* store keeps the page.                                                   *)
(***************************************************************************)
Resolves(h) == \E q \in storage : Hash(q) = h

FramesStored(a) ==
    \A i \in 1 .. Depth(a) :
        /\ \E p \in storage : Hash(p) = frames[a][i].hash /\ p.level = frames[a][i].level
        /\ frames[a][i].child # None =>
              frames[a][i].child \in storage /\ Hash(frames[a][i].child) = frames[a][i].hash

(* The page last_finalized_page_ids is being set for. *)
TrackedStored == \A a \in Appenders : pc[a] = "track" => page[a] \in storage

HInv ==
    /\ \A p \in Around : \A h \in KidsOf(p) : Resolves(h)
    /\ \A a \in Appenders : FramesStored(a)
    /\ TrackedStored

(* What is written into the activation on top. *)
LEMMA TopFields ==
    ASSUME IInv, NEW a \in Appenders, Depth(a) > 0, NEW value
    PROVE  LET n == Depth(a)
           IN /\ SetTop(a, "resume", value) =>
                    /\ frames'[a][n].hash = frames[a][n].hash
                    /\ frames'[a][n].level = frames[a][n].level
                    /\ frames'[a][n].child = frames[a][n].child
                    /\ frames'[a][n].resume = value
              /\ SetTop(a, "child", value) =>
                    /\ frames'[a][n].hash = frames[a][n].hash
                    /\ frames'[a][n].level = frames[a][n].level
                    /\ frames'[a][n].child = value
                    /\ frames'[a][n].resume = frames[a][n].resume
<1> DEFINE s == frames[a]
           n == Len(s)
<1>1. /\ DOMAIN frames = Appenders /\ n \in 1 .. n /\ IsFrame(s[n])
      /\ s = [i \in 1 .. n |-> s[i]] /\ n = Depth(a)
  BY DepthOK DEF IInv, TypeOK, CallTypeOK, IsList, Depth
<1>2. s[n] = [level |-> s[n].level, hash |-> s[n].hash, child |-> s[n].child,
              resume |-> s[n].resume]
  BY <1>1 DEF IsFrame
<1>3. SetTop(a, "resume", value) => frames'[a][n] = [s[n] EXCEPT !["resume"] = value]
  BY <1>1 DEF SetTop
<1>4. SetTop(a, "child", value) => frames'[a][n] = [s[n] EXCEPT !["child"] = value]
  BY <1>1 DEF SetTop
<1>5. /\ [s[n] EXCEPT !["resume"] = value] =
            [level |-> s[n].level, hash |-> s[n].hash, child |-> s[n].child,
             resume |-> value]
      /\ [s[n] EXCEPT !["child"] = value] =
            [level |-> s[n].level, hash |-> s[n].hash, child |-> value,
             resume |-> s[n].resume]
  BY <1>2
<1> QED
  BY <1>1, <1>3, <1>4, <1>5

(* Where a call is decides what it does next. *)
LEMMA StepAt ==
    ASSUME NEW a \in Appenders, Step(a)
    PROVE  /\ pc[a] = "store" => StorePage(a) \/ StorageFails(a)
           /\ pc[a] = "parent" => \/ ReuseParent(a) \/ ReopenParent(a) \/ CreateParent(a)
                                  \/ StorageFails(a)
           /\ pc[a] = "settle" => DiscardParent(a) \/ FinalizeParent(a) \/ KeepParent(a)
           /\ pc[a] = "track" => TrackFinalized(a)
BY DEF Step, TakeActivePage, RetireActivePage, FindNoActivePage, CreatePage, PreFinalize,
   AppendLeaf, KeepActivePage, StorePage, StorageFails, CallsStorage, TrackFinalized,
   LoadChild, ChildMissing, RetireStaleParent, ParentNotStale, ReuseParent, ReopenParent,
   CreateParent, DiscardParent, FinalizeParent, KeepParent, ReturnToParent, ReturnToAddLeaf

(* Most steps make no page, and change none. *)
LEMMA SamePages ==
    ASSUME IInv, NEW a \in Appenders, Step(a), ~AppendLeaf(a), ~CreatePage(a),
           ~ReuseParent(a), ~ReopenParent(a), ~CreateParent(a)
    PROVE  Around' \subseteq Around
<1>0. /\ pc[a] \in HoldsPage => page[a] \in Around
      /\ activePages \subseteq Around /\ storage \subseteq Around
      /\ \A p \in Around' : \/ p \in Around \/ p \in activePages' \/ p \in storage'
                            \/ pc'[a] \in HoldsPage /\ p = page'[a]
  BY CallStepOK, AroundParts, AroundAfter
<1>1. SUFFICES /\ activePages' \subseteq Around /\ storage' \subseteq Around
               /\ pc'[a] \in HoldsPage => page'[a] \in Around
  BY <1>0
<1>2. CASE TakeActivePage(a)
  BY <1>0, <1>2, TakeEffect DEF ActiveAt, managerVars
<1>3. CASE RetireActivePage(a)
  BY <1>0, <1>3 DEF RetireActivePage, Without, ActiveAt, Hold, Goto, HoldsPage, IInv, TypeOK
<1>4. CASE FindNoActivePage(a)
  BY <1>0, <1>4 DEF FindNoActivePage, managerVars, Goto, HoldsPage, IInv, TypeOK
<1>5. CASE PreFinalize(a)
  BY <1>0, <1>5, PreFinalizeEffect DEF managerVars, HoldsPage
<1>6. CASE KeepActivePage(a)
  BY <1>0, <1>6, KeepActiveEffect, LeaveEffect DEF WithActive, Without, HoldsPage
<1>7. CASE StorePage(a)
  BY <1>0, <1>7, StoreEffect DEF HoldsPage
<1>8. CASE StorageFails(a) \/ ChildMissing(a) \/ ReturnToAddLeaf(a)
  BY <1>0, <1>8, StorageFailsEffect, ChildMissingEffect, ReturnEffect, LeaveEffect
     DEF managerVars, HoldsPage
<1>9. CASE TrackFinalized(a)
  BY <1>0, <1>9, TrackEffect DEF Without, HoldsPage
<1>10. CASE LoadChild(a) \/ ParentNotStale(a) \/ ReturnToParent(a)
  BY <1>0, <1>10, RollupRestsEffect DEF managerVars, HoldsPage
<1>11. CASE RetireStaleParent(a)
  BY <1>0, <1>11, RetireStaleEffect DEF Without, HoldsPage
<1>12. CASE DiscardParent(a) \/ FinalizeParent(a) \/ KeepParent(a)
  <2>1. \/ activePages' = Without(Depth(a)) /\ pc'[a] = "return"
        \/ activePages' = Without(Depth(a)) /\ page' = page
        \/ activePages' = WithActive(page[a]) /\ pc'[a] = "return"
    BY <1>12, SettleEffect
  <2>2. pc[a] = "settle" /\ storage' = storage
    BY <1>12, SettleEffect
  <2> QED
    BY <1>0, <2>1, <2>2 DEF Without, WithActive, HoldsPage
<1> QED
  BY <1>2, <1>3, <1>4, <1>5, <1>6, <1>7, <1>8, <1>9, <1>10, <1>11, <1>12 DEF Step

(* The stack after a step, against the stack before it. *)
LEMMA StackAfter ==
    ASSUME IInv, NEW a \in Appenders, Step(a)
    PROVE  \/ /\ Depth(a)' <= Depth(a)
              /\ \A i \in 1 .. Depth(a) : i <= Depth(a)' =>
                    /\ frames'[a][i].hash = frames[a][i].hash
                    /\ frames'[a][i].level = frames[a][i].level
                    /\ frames'[a][i].child = frames[a][i].child
                    /\ i < Depth(a) => frames'[a][i] = frames[a][i]
           \/ LoadChild(a) \/ TrackFinalized(a)
<1>0. Depth(a) \in Nat /\ (pc[a] \in InRollup => Depth(a) > 0)
  BY DepthOK
<1>1. ASSUME frames' = frames
      PROVE  Depth(a)' = Depth(a) /\ \A i \in 1 .. Depth(a) : frames'[a][i] = frames[a][i]
  BY <1>1 DEF Depth
<1>2. ASSUME NEW where \in {"parent", "return"}, SetTop(a, "resume", where), Depth(a) > 0
      PROVE  /\ Depth(a)' = Depth(a)
             /\ \A i \in 1 .. Depth(a) :
                   /\ frames'[a][i].hash = frames[a][i].hash
                   /\ frames'[a][i].level = frames[a][i].level
                   /\ frames'[a][i].child = frames[a][i].child
                   /\ i < Depth(a) => frames'[a][i] = frames[a][i]
  <2>1. /\ Depth(a)' = Depth(a)
        /\ \A i \in 1 .. Depth(a) : i < Depth(a) => frames'[a][i] = frames[a][i]
    BY <1>2, ResumeBelow
  <2>2. /\ frames'[a][Depth(a)].hash = frames[a][Depth(a)].hash
        /\ frames'[a][Depth(a)].level = frames[a][Depth(a)].level
        /\ frames'[a][Depth(a)].child = frames[a][Depth(a)].child
    BY <1>2, TopFields
  <2>3. ASSUME NEW i \in 1 .. Depth(a)
        PROVE  i < Depth(a) \/ i = Depth(a)
    BY <1>0
  <2> QED
    BY <2>1, <2>2, <2>3
<1>3. ASSUME Leave(a)
      PROVE  Depth(a)' = 0
  BY <1>3, LeaveEffect DEF Depth
<1>4. CASE RetireStaleParent(a)
  BY <1>0, <1>1, <1>2, <1>4, RetireStaleEffect
<1>5. CASE DiscardParent(a) \/ FinalizeParent(a) \/ KeepParent(a)
  <2>1. Depth(a) > 0 /\ (frames' = frames \/ SetTop(a, "resume", "return"))
    BY <1>5, SettleEffect
  <2> QED
    BY <1>0, <1>1, <1>2, <2>1
<1>6. CASE ReturnToParent(a)
  <2>1. /\ Depth(a) > 1 /\ IsList(frames[a]) /\ DOMAIN frames = Appenders
        /\ frames' = [frames EXCEPT ![a] = SubSeq(@, 1, Len(@) - 1)]
    BY <1>6 DEF ReturnToParent, Depth, IInv, TypeOK, CallTypeOK
  <2>2. Depth(a)' = Depth(a) - 1
        /\ \A i \in 1 .. Depth(a) - 1 : frames'[a][i] = frames[a][i]
    BY <2>1, FrontList DEF Depth
  <2> QED
    BY <1>0, <2>2
<1>7. CASE KeepActivePage(a) \/ StorageFails(a) \/ ChildMissing(a) \/ ReturnToAddLeaf(a)
  <2>1. Depth(a)' = 0
    BY <1>3, <1>7, KeepActiveEffect, StorageFailsEffect, ChildMissingEffect, ReturnEffect
  <2> QED
    BY <1>0, <2>1
<1>8. CASE frames' = frames
  BY <1>0, <1>1, <1>8
<1>9. CASE \/ TakeActivePage(a) \/ RetireActivePage(a) \/ FindNoActivePage(a)
           \/ CreatePage(a) \/ PreFinalize(a) \/ AppendLeaf(a) \/ StorePage(a)
           \/ ParentNotStale(a) \/ ReuseParent(a) \/ ReopenParent(a) \/ CreateParent(a)
  BY <1>8, <1>9 DEF TakeActivePage, RetireActivePage, FindNoActivePage, CreatePage,
     PreFinalize, AppendLeaf, StorePage, ParentNotStale, ReuseParent, ReopenParent,
     CreateParent
<1> QED
  BY <1>4, <1>5, <1>6, <1>7, <1>9 DEF Step

(* The parent obtained was a page around, or is new. *)
LEMMA ObtainedFrom ==
    ASSUME IInv, NEW a \in Appenders, ReuseParent(a) \/ ReopenParent(a) \/ CreateParent(a)
    PROVE  \E p : Obtained(a, p) /\ (p \in Around \/ KidsOf(p) = {})
<1>1. CASE \E p \in SuitableActive(a) \cup Reopenable(a) : Obtained(a, p)
  BY <1>1, AroundParts DEF SuitableActive, ActiveAt, Reopenable, LastStored, Stored
<1>2. CASE \E id, level, prev, start : Obtained(a, NewPage(id, level, prev, start))
  BY <1>2 DEF NewPage, KidsOf
<1> QED
  BY <1>1, <1>2, ParentEffect

(* The child an activation has read is a stored page. *)
LEMMA TopChildStored ==
    ASSUME NoneIsNoRecord, IInv, HInv, NEW a \in Appenders,
           pc[a] \in {"stale", "parent", "settle"}
    PROVE  /\ IsPage(TopFrame(a).child) /\ TopFrame(a).child \in storage
           /\ Hash(TopFrame(a).child) = TopFrame(a).hash /\ TopFrame(a) = frames[a][Depth(a)]
<1>1. IsPage(TopFrame(a).child) /\ Depth(a) \in 1 .. Depth(a)
      /\ TopFrame(a) = frames[a][Depth(a)]
  BY AtParent DEF Depth, TopFrame
<1>2. frames[a][Depth(a)].child # None
  BY <1>1 DEF NoneIsNoRecord
<1> QED
  BY <1>1, <1>2 DEF HInv, FramesStored

(* The hashes in the pages after a step: known before, or of the child read. *)
LEMMA KidsAfter ==
    ASSUME IInv, NEW a \in Appenders, Alone(a), Step(a)
    PROVE  \A p \in Around' : \A h \in KidsOf(p) :
              \/ \E q \in Around : q.id = p.id /\ q.level = p.level /\ h \in KidsOf(q)
              \/ pc[a] = "parent" /\ p = page'[a] /\ h = Hash(TopFrame(a).child)
<1>0. Mine(a) /\ activePages \subseteq Around /\ storage \subseteq Around
      /\ (pc[a] \in HoldsPage => page[a] \in Around)
      /\ \A p \in Around' : p \in activePages' \/ p \in storage' \/ p = page'[a]
  BY CallStepOK, OnlyHand, AroundParts
<1>1. CASE AppendLeaf(a)
  <2>1. /\ page'[a] = AddLeaf(page[a], call[a].leaf) /\ page[a] \in Around
        /\ IsPage(page[a]) /\ call[a].leaf \in Leaf
        /\ page'[a].id = page[a].id /\ page[a].level = 0 /\ page'[a].level = 0
        /\ activePages' = activePages /\ storage' = storage
    BY <1>1, AppendLeafEffect DEF managerVars
  <2>2. page'[a].kids = page[a].kids
    BY <2>1, AddLeafIsPage
  <2> QED
    BY <1>0, <2>1, <2>2 DEF KidsOf
<1>2. CASE CreatePage(a)
  <2>1. page'[a] = NewPage(nextPageId, 0, PrevHash(0), WindowStart(0, Trigger(a)))
        /\ activePages' = activePages /\ storage' = storage
    BY <1>2 DEF CreatePage, Obtain, Hold, IInv, TypeOK
  <2>2. KidsOf(page'[a]) = {}
    BY <2>1 DEF NewPage, KidsOf
  <2> QED
    BY <1>0, <2>1, <2>2
<1>3. CASE ReuseParent(a) \/ ReopenParent(a) \/ CreateParent(a)
  <2>1. PICK p : Obtained(a, p) /\ (p \in Around \/ KidsOf(p) = {})
    BY <1>3, ObtainedFrom
  <2>2. /\ KidsOf(page'[a]) \subseteq KidsOf(p) \cup {Hash(TopFrame(a).child)}
        /\ page'[a].id = p.id /\ page'[a].level = p.level
    BY <2>1, MergedKids, MergedPage
  <2>3. pc[a] = "parent" /\ activePages' = activePages /\ storage' = storage
    BY <2>1 DEF Obtained
  <2> QED
    BY <1>0, <2>1, <2>2, <2>3
<1>4. CASE ~AppendLeaf(a) /\ ~CreatePage(a) /\ ~ReuseParent(a) /\ ~ReopenParent(a)
           /\ ~CreateParent(a)
  BY <1>4, SamePages
<1> QED
  BY <1>1, <1>2, <1>3, <1>4

(* A step of the call going on. *)
LEMMA StepResolves ==
    ASSUME NoneIsNoRecord, IInv, GInv, OInv, HInv, NEW a \in Appenders, Alone(a), Step(a)
    PROVE  HInv'
<1>0. IInv' /\ Mine(a) /\ Depth(a) \in Nat /\ storage \subseteq storage' /\ FramesStored(a)
  BY CallStepOK, StoreOnlyAdds, DepthOK DEF HInv
<1>1. \A p \in Around' : \A h \in KidsOf(p) : Resolves(h)'
  <2> SUFFICES ASSUME NEW p \in Around', NEW h \in KidsOf(p)
               PROVE  \E q \in storage : Hash(q) = h
    BY <1>0 DEF Resolves
  <2>1. CASE \E q \in Around : h \in KidsOf(q)
    BY <2>1 DEF HInv, Resolves
  <2>2. CASE pc[a] = "parent" /\ h = Hash(TopFrame(a).child)
    BY <2>2, TopChildStored
  <2> QED
    BY <2>1, <2>2, KidsAfter
<1>2. FramesStored(a)'
  <2>1. CASE TrackFinalized(a)
    <3>1. /\ pc[a] = "track" /\ Depth(a)' = Depth(a) + 1
          /\ \A i \in 1 .. Depth(a) : frames'[a][i] = frames[a][i]
          /\ frames'[a][Depth(a) + 1] =
                [level |-> page[a].level, hash |-> Hash(page[a]), child |-> None,
                 resume |-> "return"]
      BY <2>1, TrackEffect
    <3>2. page[a] \in storage
      BY <3>1 DEF HInv, TrackedStored
    <3>3. /\ frames'[a][Depth(a) + 1].hash = Hash(page[a])
          /\ frames'[a][Depth(a) + 1].level = page[a].level
          /\ frames'[a][Depth(a) + 1].child = None
      BY <3>1
    <3>4. ASSUME NEW i \in 1 .. Depth(a)'
          PROVE  i \in 1 .. Depth(a) \/ i = Depth(a) + 1
      BY <1>0, <3>1
    <3> QED
      BY <1>0, <3>1, <3>2, <3>3, <3>4 DEF FramesStored
  <2>2. CASE LoadChild(a)
    <3>1. CASE frames' = frames
      BY <1>0, <3>1 DEF FramesStored, Depth
    <3>2. CASE \E child \in StoredWithHash(TopFrame(a).hash) : SetTop(a, "child", child)
      <4>1. PICK child \in storage : Hash(child) = TopFrame(a).hash /\ SetTop(a, "child", child)
        BY <3>2 DEF StoredWithHash
      <4>2. IsPage(child) /\ Depth(a) > 0
        BY <2>2, DepthOK DEF LoadChild, InRollup, IInv, TypeOK, ManagerTypeOK
      <4>3. /\ frames'[a][Depth(a)].hash = frames[a][Depth(a)].hash
            /\ frames'[a][Depth(a)].level = frames[a][Depth(a)].level
            /\ frames'[a][Depth(a)].child = child
        BY <4>1, <4>2, TopFields
      <4>4. /\ Len(frames'[a]) = Len(frames[a])
            /\ \A i \in 1 .. Len(frames[a]) - 1 : frames'[a][i] = frames[a][i]
        BY <4>1, <4>2, SetTopKept DEF Depth
      <4>5. Depth(a)' = Depth(a) /\ TopFrame(a) = frames[a][Depth(a)]
            /\ \A i \in 1 .. Depth(a) : i # Depth(a) => frames'[a][i] = frames[a][i]
        BY <1>0, <4>4 DEF Depth, TopFrame
      <4> QED
        BY <1>0, <4>1, <4>3, <4>5 DEF FramesStored
    <3> QED
      BY <2>2, <3>1, <3>2 DEF LoadChild
  <2>3. CASE ~LoadChild(a) /\ ~TrackFinalized(a)
    <3>1. /\ Depth(a)' <= Depth(a)
          /\ \A i \in 1 .. Depth(a) : i <= Depth(a)' =>
                /\ frames'[a][i].hash = frames[a][i].hash
                /\ frames'[a][i].level = frames[a][i].level
                /\ frames'[a][i].child = frames[a][i].child
      BY <2>3, StackAfter
    <3>2. Depth(a)' \in Nat
      BY <1>0 DEF IInv, TypeOK, CallTypeOK, IsList, Depth
    <3>3. \A i \in 1 .. Depth(a)' : i \in 1 .. Depth(a) /\ i <= Depth(a)'
      BY <1>0, <3>1, <3>2
    <3> QED
      BY <1>0, <3>1, <3>3 DEF FramesStored
  <2> QED
    BY <2>1, <2>2, <2>3
<1>3. ASSUME NEW b \in Appenders, b # a
      PROVE  FramesStored(b)'
  <2>1. pc'[b] = "idle"
    BY <1>0, <1>3 DEF Alone, Mine
  <2>2. Depth(b)' = 0
    BY <1>0, <2>1 DEF IInv, StackOK, InAddLeaf, Depth
  <2> QED
    BY <2>2 DEF FramesStored
<1>4. TrackedStored'
  <2>1. \A b \in Appenders : pc'[b] = "track" => b = a
    BY <1>0 DEF Alone, Mine
  <2>2. CASE StorePage(a)
    BY <2>1, <2>2, StoreEffect DEF TrackedStored
  <2>3. CASE ~StorePage(a)
    <3>1. pc'[a] # "track"
      BY <2>3, NotToTrack
    <3> QED
      BY <2>1, <3>1 DEF TrackedStored
  <2> QED
    BY <2>2, <2>3
<1> QED
  BY <1>1, <1>2, <1>3, <1>4 DEF HInv

(* Every step, while calls come one by one and the process runs. *)
LEMMA ResolvesOK ==
    ASSUME NoneIsNoRecord
    PROVE  IInv /\ QInv /\ OInv /\ HInv /\ Serial /\ Serial' /\ NoRestart /\ NoRestart'
              /\ [Next]_vars => HInv'
<1> SUFFICES ASSUME IInv, QInv, OInv, HInv, Serial, Serial', NoRestart, NoRestart',
                    [Next]_vars
             PROVE  HInv'
  OBVIOUS
<1>0. GInv
  BY DEF QInv, NoRestart
<1>1. CASE Restart
  <2>1. restarts \in Nat /\ restarts' = restarts + 1
    BY <1>1 DEF Restart, IInv, TypeOK, CountersTypeOK
  <2> QED
    BY <2>1 DEF NoRestart
<1>2. ASSUME storage' = storage, frames' = frames, Around' \subseteq Around,
             \A a \in Appenders : pc'[a] = "track" => pc[a] = "track" /\ page'[a] = page[a]
      PROVE  HInv'
  BY <1>2 DEF HInv, FramesStored, TrackedStored, Resolves, Depth
<1>3. CASE UNCHANGED vars
  <2>1. Around' = Around
    BY <1>3 DEF vars, managerVars, callVars, Around
  <2> QED
    BY <1>2, <1>3, <2>1 DEF vars, managerVars, callVars
<1>4. ASSUME NEW a \in Appenders, CallAddLeaf(a)
      PROVE  HInv'
  <2>1. \A b \in Appenders : pc'[b] = "track" => pc[b] = "track" /\ page'[b] = page[b]
    BY <1>4, CallEffect DEF Mine
  <2> QED
    BY <1>0, <1>2, <1>4, <2>1, SerialAlone, CallFlow, CallEffect DEF managerVars
<1>5. ASSUME NEW a \in Appenders, Step(a)
      PROVE  HInv'
  BY <1>0, <1>5, SerialAlone, StepResolves
<1> QED
  BY <1>1, <1>3, <1>4, <1>5 DEF Next

(* There are no hashes at first. *)
LEMMA ResolvesInit == Init => HInv
<1> SUFFICES ASSUME Init PROVE HInv
  OBVIOUS
<1>1. Around = {}
  BY DEF Init, Around, HoldsPage
<1> QED
  BY <1>1 DEF Init, HInv, FramesStored, TrackedStored, Depth

(***************************************************************************)
(* A parent never refers to a page the store does not have, under the same *)
(* conditions: perform_rollup reads the child back before it touches the   *)
(* parent, and a page in the store is not replaced.                        *)
(***************************************************************************)
THEOREM InOrderHashesResolve ==
    ASSUME InOrder, NoneIsNoRecord
    PROVE  Spec /\ []Serial /\ []NoRestart => []ChildHashesResolve
<1>1. LInv /\ HInv => ChildHashesResolve
  BY PagesAround DEF LInv, HInv, Resolves, ChildHashesResolve, StoredWithHash
<1>2. Init => LInv /\ QInv /\ OInv /\ HInv
  BY ApartInit, QuietInit, ParentsInit, ResolvesInit
<1>3. IInv /\ PageBounds /\ LInv /\ QInv /\ OInv /\ HInv /\ Serial /\ Serial' /\ NoRestart
         /\ NoRestart' /\ [Next]_vars => LInv' /\ QInv' /\ OInv' /\ HInv'
  BY ApartOK, QuietOK, ParentsOK, ResolvesOK
<1> QED
  BY <1>1, <1>2, <1>3, SpecInv, SpecPageBounds, PTL DEF Spec

----------------------------------------------------------------------------
(***************************************************************************)
(* Rollup.  The hash of a page that has just been written is in no page;   *)
(* its activation puts it into one parent, and what the parent holds goes  *)
(* with it, from clone to map to store.                                    *)
(***************************************************************************)

(* A page of the next level carries the hash. *)
Merged(hash, level) == \E r \in Around : r.level = level + 1 /\ hash \in KidsOf(r)

Nowhere(hash) == \A r \in Around : hash \notin KidsOf(r)

(* The child of the activation has been merged into a parent. *)
FrameDone(a, i) ==
    IF i < Depth(a) \/ pc[a] \in {"store", "track"} THEN frames[a][i].resume = "return"
    ELSE pc[a] \in {"settle", "return"}

FrameOK(a, i) ==
    IF FrameDone(a, i)
    THEN HashRollup(frames[a][i].level) => Merged(frames[a][i].hash, frames[a][i].level)
    ELSE Nowhere(frames[a][i].hash)

MergedOrPending ==
    \A p \in storage : HashRollup(p.level) => RollupPending(p) \/ Merged(Hash(p), p.level)

OneParent ==
    \A q, r \in Around :
        q.level = r.level /\ KidsOf(q) \cap KidsOf(r) # {} => q.id = r.id

CascadeOK(a) ==
    /\ pc[a] = "track" => Nowhere(Hash(page[a]))
    /\ \A i \in 1 .. Depth(a) : FrameOK(a, i)

RollupOK == MergedOrPending /\ OneParent /\ \A a \in Appenders : CascadeOK(a)

EInv == Undisturbed => OInv /\ HInv /\ RollupOK

(* An activation is done when it has merged, or has no parent level. *)
LEMMA DoneAfter ==
    ASSUME IInv, NEW a \in Appenders, Step(a), NEW i \in 1 .. Depth(a), i <= Depth(a)'
    PROVE  \/ FrameDone(a, i)' <=> FrameDone(a, i)
           \/ LoadChild(a) /\ i = Depth(a) /\ frames[a][i].level = Top
           \/ i = Depth(a) /\ pc[a] = "parent" /\ pc'[a] = "settle"
<1>0. IInv' /\ Mine(a) /\ Depth(a) \in Nat /\ Depth(a)' \in Nat
      /\ (pc[a] \in InAddLeaf => Depth(a) = 0)
  <2>1. IInv' /\ Mine(a)
    BY CallStepOK
  <2>2. Depth(a)' \in Nat
    BY <2>1 DEF IInv, TypeOK, CallTypeOK, IsList, Depth
  <2> QED
    BY <2>1, <2>2, DepthOK
<1>1. CASE TrackFinalized(a)
  <2>1. /\ pc[a] = "track" /\ Depth(a)' = Depth(a) + 1 /\ frames'[a][i] = frames[a][i]
    BY <1>1, TrackEffect
  <2> QED
    BY <1>0, <2>1 DEF FrameDone
<1>2. CASE LoadChild(a)
  <2>1. pc[a] = "load" /\ Depth(a) > 0 /\ TopFrame(a) = frames[a][Depth(a)]
    BY <1>2, DepthOK DEF LoadChild, InRollup, TopFrame, Depth
  <2>2. CASE TopFrame(a).level = Top /\ frames' = frames
    <3>1. CASE i = Depth(a)
      BY <1>2, <2>1, <2>2, <3>1
    <3>2. CASE i < Depth(a)
      BY <2>2, <3>2 DEF FrameDone, Depth
    <3> QED
      BY <1>0, <3>1, <3>2
  <2>3. CASE \E child \in storage : SetTop(a, "child", child) /\ pc'[a] = "stale"
    <3>1. PICK child \in storage : SetTop(a, "child", child)
      BY <2>3
    <3>2. IsPage(child)
      BY DEF IInv, TypeOK, ManagerTypeOK
    <3>3. /\ Len(frames'[a]) = Len(frames[a])
          /\ \A j \in 1 .. Len(frames[a]) - 1 : frames'[a][j] = frames[a][j]
      BY <2>1, <3>1, <3>2, SetTopKept DEF Depth
    <3>4. Depth(a)' = Depth(a) /\ (i < Depth(a) => frames'[a][i] = frames[a][i])
      BY <1>0, <3>3 DEF Depth
    <3> QED
      BY <2>1, <2>3, <3>4 DEF FrameDone
  <2> QED
    BY <1>2, <2>2, <2>3 DEF LoadChild, StoredWithHash, Goto, IInv, TypeOK
<1>3. CASE ~TrackFinalized(a) /\ ~LoadChild(a) /\ i < Depth(a)
  <2>1. frames'[a][i] = frames[a][i]
    BY <1>0, <1>3, StackAfter
  <2>2. CASE i < Depth(a)'
    BY <1>3, <2>1, <2>2 DEF FrameDone
  <2>3. CASE i = Depth(a)'
    <3>1. ReturnToParent(a)
      <4>1. Depth(a)' # Depth(a) /\ Depth(a)' > 0
        BY <1>3, <2>3
      <4>2. frames' # frames /\ ~Leave(a)
        BY <4>1, LeaveEffect DEF Depth
      <4>3. ~RetireStaleParent(a) /\ ~DiscardParent(a) /\ ~FinalizeParent(a)
            /\ ~KeepParent(a) /\ ~ReturnToAddLeaf(a)
        BY <4>1, RetireStaleEffect, SettleEffect, ReturnEffect
      <4> QED
        BY <1>3, <4>2, <4>3 DEF Step, TakeActivePage, RetireActivePage, FindNoActivePage,
           CreatePage, PreFinalize, AppendLeaf, KeepActivePage, ReturnOk, StorePage,
           StorageFails, ChildMissing, ParentNotStale, ReuseParent, ReopenParent, CreateParent
    <3>2. /\ pc'[a] = frames[a][Depth(a) - 1].resume /\ Depth(a) > 1
          /\ DOMAIN frames = Appenders /\ IsList(frames[a])
          /\ frames' = [frames EXCEPT ![a] = SubSeq(@, 1, Len(@) - 1)]
          /\ IsFrame(frames[a][Depth(a) - 1])
      BY <1>0, <3>1 DEF ReturnToParent, Goto, Depth, IInv, TypeOK, CallTypeOK
    <3>3. Depth(a)' = Depth(a) - 1
      BY <3>2, FrontList DEF Depth
    <3>4. pc'[a] = frames[a][i].resume /\ pc'[a] \in {"parent", "return"}
      BY <1>0, <2>3, <3>2, <3>3 DEF IsFrame
    <3> QED
      BY <1>3, <2>3, <3>4 DEF FrameDone
  <2> QED
    BY <1>0, <2>2, <2>3
<1>4. CASE ~TrackFinalized(a) /\ ~LoadChild(a) /\ i = Depth(a)
  <2>0. i = Depth(a)' /\ pc[a] \notin InAddLeaf /\ ~(i < Depth(a)) /\ ~(i < Depth(a)')
    <3>1. Depth(a)' <= Depth(a)
      BY <1>4, StackAfter
    <3> QED
      BY <1>0, <1>4, <3>1
  <2>1. CASE StorePage(a)
    BY <1>4, <2>0, <2>1, StoreEffect DEF FrameDone
  <2>2. CASE ParentNotStale(a)
    BY <1>4, <2>0, <2>2, <1>0 DEF FrameDone, ParentNotStale, Goto, IInv, TypeOK
  <2>3. CASE RetireStaleParent(a)
    <3>1. /\ pc[a] = "stale"
          /\ \/ pc'[a] = "parent"
             \/ pc'[a] = "store" /\ SetTop(a, "resume", "parent")
      BY <2>3, RetireStaleEffect
    <3>2. pc'[a] = "store" => frames'[a][i].resume = "parent"
      BY <1>0, <1>4, <3>1, TopFields
    <3>3. CASE pc'[a] = "store"
      BY <2>0, <3>1, <3>2, <3>3 DEF FrameDone
    <3>4. CASE pc'[a] # "store"
      BY <2>0, <3>1, <3>4 DEF FrameDone
    <3> QED
      BY <3>3, <3>4
  <2>4. CASE ReuseParent(a) \/ ReopenParent(a) \/ CreateParent(a)
    <3>1. pc[a] = "parent" /\ pc'[a] = "settle"
      BY <2>4, ParentEffect DEF Obtained
    <3> QED
      BY <1>4, <3>1
  <2>5. CASE DiscardParent(a) \/ FinalizeParent(a) \/ KeepParent(a)
    <3>1. /\ pc[a] = "settle"
          /\ \/ pc'[a] = "return"
             \/ pc'[a] = "store" /\ SetTop(a, "resume", "return")
      BY <2>5, SettleEffect
    <3>2. pc'[a] = "store" => frames'[a][i].resume = "return"
      BY <1>0, <1>4, <3>1, TopFields
    <3>3. CASE pc'[a] = "store"
      BY <2>0, <3>1, <3>2, <3>3 DEF FrameDone
    <3>4. CASE pc'[a] # "store"
      BY <2>0, <3>1, <3>4 DEF FrameDone
    <3> QED
      BY <3>3, <3>4
  <2>6. ~StorageFails(a) /\ ~ChildMissing(a) /\ ~KeepActivePage(a) /\ ~ReturnToAddLeaf(a)
    BY <1>0, <2>0, StorageFailsEffect, ChildMissingEffect, KeepActiveEffect, ReturnEffect,
       LeaveEffect DEF Depth
  <2>7. CASE ReturnToParent(a)
    <3>1. /\ Depth(a) > 1 /\ DOMAIN frames = Appenders /\ IsList(frames[a])
          /\ frames' = [frames EXCEPT ![a] = SubSeq(@, 1, Len(@) - 1)]
      BY <2>7 DEF ReturnToParent, Depth, IInv, TypeOK, CallTypeOK
    <3>2. Depth(a)' = Depth(a) - 1
      BY <3>1, FrontList DEF Depth
    <3> QED
      BY <1>0, <1>4, <2>0, <3>2
  <2> QED
    BY <1>4, <2>0, <2>1, <2>2, <2>3, <2>4, <2>5, <2>6, <2>7 DEF Step, TakeActivePage,
       RetireActivePage, FindNoActivePage, CreatePage, PreFinalize, AppendLeaf, InAddLeaf
<1> QED
  BY <1>0, <1>1, <1>2, <1>3, <1>4

(* A page of this level still has these hashes. *)
KidsKept(r) == KidsOf(r) = {} \/ \E q \in Around' : q.level = r.level /\ KidsOf(r) \subseteq KidsOf(q)

(* Only a failing store takes hashes away. *)
LEMMA StepKeepsKids ==
    ASSUME IInv, GInv, OInv, TrackedStored, NEW a \in Appenders, Alone(a), Step(a),
           ~StorageFails(a)
    PROVE  \A r \in Around : r.level > 0 => KidsKept(r)
<1>1. /\ Mine(a) /\ Depth(a) \in Nat /\ storage \subseteq storage' /\ FlowOK(a)
      /\ pc[a] \in HoldsPage => page[a].level = Depth(a)
      /\ pc[a] \in InAddLeaf => Depth(a) = 0
  BY CallStepOK, DepthOK, StoreOnlyAdds DEF GInv
<1>2. /\ \A p \in Around : \/ p \in activePages \/ p \in storage
                           \/ pc[a] \in HoldsPage /\ p = page[a]
      /\ activePages' \subseteq Around' /\ storage' \subseteq Around'
      /\ pc'[a] \in HoldsPage => page'[a] \in Around'
  BY <1>1, OnlyHand
<1>3. \A p : IsContentEmpty(p) => KidsOf(p) = {}
  BY DEF IsContentEmpty, KidsOf
<1>4. ASSUME NEW r \in Around'
      PROVE  KidsKept(r)
  BY DEF KidsKept
<1>5. ASSUME NEW r \in storage
      PROVE  KidsKept(r)
  BY <1>1, <1>2, <1>4
<1>6. ASSUME pc[a] \in HoldsPage, page[a].level > 0
      PROVE  KidsKept(page[a])
  <2>1. pc[a] \in {"store", "track", "settle"}
    BY <1>1, <1>6 DEF HoldsPage, InAddLeaf
  <2>2. CASE pc[a] = "track"
    BY <1>5, <2>2 DEF TrackedStored
  <2>3. CASE pc[a] = "store"
    <3>1. StorePage(a)
      BY <2>3, StepAt
    <3>2. page[a] \in storage'
      BY <3>1, StoreEffect
    <3> QED
      BY <1>2, <1>4, <3>2
  <2>4. CASE pc[a] = "settle"
    <3>1. DiscardParent(a) \/ FinalizeParent(a) \/ KeepParent(a)
      BY <2>4, StepAt
    <3>2. \/ IsContentEmpty(page[a])
          \/ page' = page /\ pc'[a] = "store"
          \/ activePages' = WithActive(page[a])
      BY <3>1, SettleEffect
    <3>3. CASE IsContentEmpty(page[a])
      BY <1>3, <3>3 DEF KidsKept
    <3>4. CASE page' = page /\ pc'[a] = "store"
      BY <1>2, <1>4, <3>4 DEF HoldsPage
    <3>5. CASE activePages' = WithActive(page[a])
      BY <1>2, <1>4, <3>5 DEF WithActive
    <3> QED
      BY <3>2, <3>3, <3>4, <3>5
  <2> QED
    BY <2>1, <2>2, <2>3, <2>4
<1>7. ASSUME NEW r \in activePages, r.level > 0
      PROVE  KidsKept(r)
  <2>1. ASSUME \A q \in activePages : q.level > 0 => q \in activePages'
        PROVE  KidsKept(r)
    BY <1>2, <1>4, <1>7, <2>1
  <2>2. CASE RetireStaleParent(a)
    <3>1. PICK p \in activePages :
             /\ p.level = Depth(a) /\ activePages' = Without(Depth(a))
             /\ \/ IsContentEmpty(p)
                \/ page'[a] = p /\ pc'[a] = "store"
      BY <2>2, RetireStaleEffect
    <3>2. CASE r.level # Depth(a)
      BY <1>2, <1>4, <3>1, <3>2 DEF Without
    <3>3. CASE r.level = Depth(a)
      <4>1. r = p
        BY <3>1, <3>3 DEF GInv, IdsOK
      <4> QED
        BY <1>2, <1>3, <1>4, <3>1, <4>1 DEF KidsKept, HoldsPage
    <3> QED
      BY <3>2, <3>3
  <2>3. CASE DiscardParent(a) \/ FinalizeParent(a) \/ KeepParent(a)
    <3>1. /\ pc[a] = "settle" /\ page[a].level = Depth(a) /\ Depth(a) > 0
          /\ activePages' = Without(Depth(a)) \/ activePages' = WithActive(page[a])
      BY <2>3, SettleEffect
    <3>2. CASE r.level # Depth(a)
      BY <1>2, <1>4, <3>1, <3>2 DEF Without, WithActive
    <3>3. CASE r.level = Depth(a)
      <4>1. KidsOf(r) \subseteq KidsOf(page[a])
        BY <3>1, <3>3 DEF OInv, ParentInHandOK, ActiveAt
      <4>2. KidsKept(page[a])
        BY <1>6, <3>1 DEF HoldsPage
      <4> QED
        BY <3>1, <3>3, <4>1, <4>2 DEF KidsKept
    <3> QED
      BY <3>2, <3>3
  <2>4. CASE KeepActivePage(a)
    <3>1. activePages' = WithActive(page[a]) /\ page[a].level = 0
      BY <1>1, <2>4, KeepActiveEffect DEF HoldsPage, InAddLeaf
    <3> QED
      BY <2>1, <3>1 DEF WithActive, Without
  <2>5. CASE RetireActivePage(a) \/ TrackFinalized(a)
    <3>1. activePages' = Without(0) \/ activePages' = activePages
      BY <2>5, RetireEffect, TrackEffect
    <3> QED
      BY <2>1, <3>1 DEF Without
  <2>6. CASE activePages' = activePages
    BY <2>1, <2>6
  <2> QED
    BY <2>2, <2>3, <2>4, <2>5, <2>6 DEF Step, TakeActivePage, FindNoActivePage, CreatePage,
       PreFinalize, AppendLeaf, StorePage, StorageFails, LoadChild, ChildMissing,
       ParentNotStale, ReuseParent, ReopenParent, CreateParent, ReturnToParent,
       ReturnToAddLeaf, managerVars
<1> QED
  BY <1>2, <1>5, <1>6, <1>7

(* What has been merged stays merged. *)
LEMMA StaysMerged ==
    ASSUME IInv, GInv, OInv, TrackedStored, NEW a \in Appenders, Alone(a), Step(a),
           ~StorageFails(a), NEW hash, NEW level \in Levels, Merged(hash, level)
    PROVE  Merged(hash, level)'
<1>1. PICK r \in Around : r.level = level + 1 /\ hash \in KidsOf(r)
  BY DEF Merged
<1>2. r.level > 0
  BY <1>1 DEF Levels
<1>3. KidsKept(r) /\ KidsOf(r) # {}
  BY <1>1, <1>2, StepKeepsKids
<1> QED
  BY <1>1, <1>3 DEF KidsKept, Merged

(* The hash of a page not yet in the store is in no page. *)
LEMMA UnstoredNowhere ==
    ASSUME IInv, HInv, NEW p, IsPage(p), Unstored(p.id)
    PROVE  Nowhere(Hash(p))
<1> SUFFICES ASSUME NEW r \in Around, Hash(p) \in KidsOf(r) PROVE FALSE
  BY DEF Nowhere
<1>1. PICK q \in storage : Hash(q) = Hash(p)
  BY DEF HInv, Resolves
<1>2. q.id = p.id
  BY <1>1, HashKeepsId DEF IInv, TypeOK, ManagerTypeOK
<1> QED
  BY <1>2 DEF Unstored

(* The hash of an activation is that of a stored page, of its level. *)
LEMMA FrameHash ==
    ASSUME IInv, HInv, NEW a \in Appenders, NEW i \in 1 .. Depth(a)
    PROVE  /\ frames[a][i].level = i - 1 /\ frames[a][i].level \in Levels
           /\ \E p \in storage : /\ IsPage(p) /\ Hash(p) = frames[a][i].hash
                                 /\ p.level = frames[a][i].level
           /\ \A p : IsPage(p) /\ Hash(p) = frames[a][i].hash => p.level = frames[a][i].level
           /\ \A j \in 1 .. Depth(a) : j # i => frames[a][j].hash # frames[a][i].hash
<1>1. ASSUME NEW j \in 1 .. Depth(a)
      PROVE  /\ frames[a][j].level = j - 1 /\ frames[a][j].level \in Levels
             /\ \E p \in storage : /\ IsPage(p) /\ Hash(p) = frames[a][j].hash
                                   /\ p.level = frames[a][j].level
  BY DEF IInv, StackOK, TypeOK, CallTypeOK, ManagerTypeOK, IsFrame, HInv, FramesStored, Depth
<1>2. ASSUME NEW j \in 1 .. Depth(a), NEW p, IsPage(p), Hash(p) = frames[a][j].hash
      PROVE  p.level = frames[a][j].level
  <2>1. PICK q \in storage : IsPage(q) /\ Hash(q) = frames[a][j].hash
                             /\ q.level = frames[a][j].level
    BY <1>1
  <2>2. Hash(q).level = q.level /\ Hash(p).level = p.level
    BY <1>2, <2>1, HashKeepsId
  <2> QED
    BY <1>2, <2>1, <2>2
<1>3. ASSUME NEW j \in 1 .. Depth(a), j # i
      PROVE  frames[a][j].hash # frames[a][i].hash
  <2>1. PICK p \in storage : IsPage(p) /\ Hash(p) = frames[a][j].hash
                             /\ p.level = frames[a][j].level
    BY <1>1
  <2>2. frames[a][j].level # frames[a][i].level
    BY <1>1, <1>3
  <2> QED
    BY <1>2, <2>1, <2>2
<1> QED
  BY <1>1, <1>2, <1>3

(* A hash that is nowhere stays so, but for that of the child being merged. *)
LEMMA StaysNowhere ==
    ASSUME IInv, NEW a \in Appenders, Alone(a), Step(a), NEW hash, Nowhere(hash),
           pc[a] = "parent" => hash # Hash(TopFrame(a).child)
    PROVE  Nowhere(hash)'
BY KidsAfter DEF Nowhere

(* The parent obtained has the hash of the child, if it collects hashes. *)
LEMMA ObtainMerges ==
    ASSUME NoneIsNoRecord, IInv, HInv, NEW a \in Appenders, Step(a),
           pc[a] = "parent", pc'[a] = "settle", HashRollup(TopFrame(a).level)
    PROVE  Merged(TopFrame(a).hash, TopFrame(a).level)'
<1>1. PICK p : Obtained(a, p)
  <2>1. ReuseParent(a) \/ ReopenParent(a) \/ CreateParent(a)
    BY StepAt, StorageFailsEffect, LeaveEffect
  <2> QED
    BY <2>1, ObtainedFrom
<1>2. /\ Depth(a) \in 1 .. Top /\ ParentLevel(a) = Depth(a) /\ p.level = Depth(a)
      /\ ParentLevel(a) = TopFrame(a).level + 1
  BY <1>1, AtParent DEF Obtained, Depth, ParentLevel
<1>3. ContentType[p.level] # "NetPatches"
  BY <1>2 DEF HashRollup, UsesNetPatches
<1>4. Hash(TopFrame(a).child) \in KidsOf(page'[a]) /\ page'[a].level = p.level
  BY <1>1, <1>3, MergedKids, MergedPage
<1>5. Hash(TopFrame(a).child) = TopFrame(a).hash
  BY TopChildStored
<1>6. PICK hash, level : hash = TopFrame(a).hash /\ level = TopFrame(a).level
  OBVIOUS
<1>7. page'[a] \in Around' /\ frames' = frames
  BY <1>1, CallStepOK DEF Obtained, Around, HoldsPage
<1>8. TopFrame(a)' = TopFrame(a)
  BY <1>7 DEF TopFrame
<1>9. Merged(hash, level)'
  BY <1>2, <1>4, <1>5, <1>6, <1>7 DEF Merged
<1> QED
  BY <1>6, <1>8, <1>9

(* An activation keeps its hash and level for as long as it is there. *)
LEMMA FramesStay ==
    ASSUME IInv, NEW a \in Appenders, Step(a)
    PROVE  /\ \A i \in 1 .. Depth(a) : i <= Depth(a)' =>
                 /\ frames'[a][i].hash = frames[a][i].hash
                 /\ frames'[a][i].level = frames[a][i].level
           /\ LoadChild(a) => Depth(a)' = Depth(a)
<1>0. Depth(a) \in Nat
  BY DepthOK
<1>1. CASE TrackFinalized(a)
  <2>1. ~LoadChild(a)
    BY <1>1 DEF TrackFinalized, LoadChild
  <2> QED
    BY <1>1, <2>1, TrackEffect
<1>2. CASE LoadChild(a)
  <2>1. CASE frames' = frames
    BY <2>1 DEF Depth
  <2>2. CASE \E child \in storage : SetTop(a, "child", child)
    <3>1. PICK child \in storage : SetTop(a, "child", child)
      BY <2>2
    <3>2. IsPage(child) /\ Depth(a) > 0
      BY <1>2, DepthOK DEF LoadChild, InRollup, IInv, TypeOK, ManagerTypeOK
    <3>3. /\ frames'[a][Depth(a)].hash = frames[a][Depth(a)].hash
          /\ frames'[a][Depth(a)].level = frames[a][Depth(a)].level
      BY <3>1, <3>2, TopFields
    <3>4. /\ Len(frames'[a]) = Len(frames[a])
          /\ \A j \in 1 .. Len(frames[a]) - 1 : frames'[a][j] = frames[a][j]
      BY <3>1, <3>2, SetTopKept DEF Depth
    <3>5. Depth(a)' = Depth(a)
          /\ \A i \in 1 .. Depth(a) : i # Depth(a) => frames'[a][i] = frames[a][i]
      BY <1>0, <3>4 DEF Depth
    <3> QED
      BY <3>3, <3>5
  <2> QED
    BY <1>2, <2>1, <2>2 DEF LoadChild, StoredWithHash
<1>3. CASE ~TrackFinalized(a) /\ ~LoadChild(a)
  BY <1>3, StackAfter
<1> QED
  BY <1>1, <1>2, <1>3

(* The activations of the call going on. *)
LEMMA StepCascade ==
    ASSUME NoneIsNoRecord, IInv, GInv, OInv, HInv, RollupOK, NEW a \in Appenders, Alone(a),
           Step(a), ~StorageFails(a)
    PROVE  CascadeOK(a)'
<1>0. IInv' /\ Mine(a) /\ Depth(a) \in Nat /\ CascadeOK(a)
  BY CallStepOK, DepthOK DEF RollupOK
<1>1. pc'[a] = "track" => Nowhere(Hash(page[a]))'
  <2> SUFFICES ASSUME pc'[a] = "track" PROVE Nowhere(Hash(page[a]))'
    OBVIOUS
  <2>1. StorePage(a)
    <3>1. ~ReturnToParent(a) /\ ~LoadChild(a) /\ ~ReturnToAddLeaf(a)
      BY RollupRestsEffect, ReturnEffect, LeaveEffect
    <3>2. ~AppendLeaf(a) /\ ~RetireActivePage(a)
      BY AppendLeafEffect DEF RetireActivePage, Goto, IInv, TypeOK
    <3> QED
      BY <3>1, <3>2, <1>0 DEF Step, TakeActivePage, FindNoActivePage, CreatePage,
         PreFinalize, KeepActivePage, StorageFails, TrackFinalized, ChildMissing, Obtain,
         ReturnOk, Leave, MergeInto, RetireStaleParent, ParentNotStale, ReuseParent,
         ReopenParent, CreateParent, DiscardParent, FinalizeParent, KeepParent, Goto, IInv,
         TypeOK
  <2>2. pc[a] = "store" /\ page' = page
    BY <2>1, StoreEffect
  <2>3. IsPage(page[a]) /\ Unstored(page[a].id)
    <3>1. IsPage(page[a])
      BY <2>2, DepthOK DEF HoldsPage
    <3>2. Unstored(page[a].id)
      <4>1. Depth(a) > 0 => Unstored(page[a].id)
        BY <2>2 DEF OInv, ParentInHandOK
      <4>2. Depth(a) = 0 => Unstored(page[a].id)
        BY <2>2 DEF GInv, FlowOK, LeafPageInHand
      <4> QED
        BY <1>0, <4>1, <4>2
    <3> QED
      BY <3>1, <3>2
  <2>4. PICK hash : hash = Hash(page[a])
    OBVIOUS
  <2>5. Nowhere(hash)
    BY <2>3, <2>4, UnstoredNowhere
  <2>6. Nowhere(hash)'
    BY <2>2, <2>5, StaysNowhere
  <2>7. Hash(page[a])' = hash
    BY <2>2, <2>4
  <2> QED
    BY <2>6, <2>7
<1>2. ASSUME NEW i \in 1 .. Depth(a), i <= Depth(a)'
      PROVE  FrameOK(a, i)'
  <2>1. PICK hash, level : hash = frames[a][i].hash /\ level = frames[a][i].level
    OBVIOUS
  <2>2. frames'[a][i].hash = hash /\ frames'[a][i].level = level
    BY <1>2, <2>1, FramesStay
  <2>3. level \in Levels /\ FrameOK(a, i)
    BY <1>0, <2>1, FrameHash DEF CascadeOK
  <2>4. HashRollup(level) /\ Merged(hash, level) => Merged(hash, level)'
    BY <2>3, StaysMerged DEF HInv
  <2>5. CASE FrameDone(a, i)' /\ FrameDone(a, i)
    <3>1. HashRollup(level) => Merged(hash, level)
      BY <2>1, <2>3, <2>5 DEF FrameOK
    <3>2. HashRollup(level) => Merged(hash, level)'
      BY <2>4, <3>1
    <3> QED
      BY <2>2, <2>5, <3>2 DEF FrameOK
  <2>6. CASE ~FrameDone(a, i)' /\ ~FrameDone(a, i)
    <3>1. Nowhere(hash)
      BY <2>1, <2>3, <2>6 DEF FrameOK
    <3>2. pc[a] = "parent" => i # Depth(a)
      <4> SUFFICES ASSUME pc[a] = "parent", i = Depth(a) PROVE FALSE
        OBVIOUS
      <4>1. PICK p : Obtained(a, p)
        BY StepAt, ObtainedFrom
      <4>2. pc'[a] = "settle" /\ frames' = frames
        BY <4>1 DEF Obtained
      <4>3. FrameDone(a, i)'
        BY <1>0, <4>2 DEF FrameDone, Depth
      <4> QED
        BY <2>6, <4>3
    <3>3. pc[a] = "parent" => hash # Hash(TopFrame(a).child)
      <4> SUFFICES ASSUME pc[a] = "parent" PROVE hash # Hash(TopFrame(a).child)
        OBVIOUS
      <4>1. Hash(TopFrame(a).child) = frames[a][Depth(a)].hash
        BY TopChildStored
      <4>2. Depth(a) \in 1 .. Depth(a)
        BY <1>0, <1>2
      <4> QED
        BY <2>1, <3>2, <4>1, <4>2, FrameHash
    <3>4. Nowhere(hash)'
      BY <3>1, <3>3, StaysNowhere
    <3> QED
      BY <2>2, <2>6, <3>4 DEF FrameOK
  <2>7. CASE i = Depth(a) /\ level = Top
    <3>1. ~HashRollup(level)
      BY <2>7, ConfigAssumption DEF HashRollup
    <3>2. CASE FrameDone(a, i)'
      BY <2>2, <3>1, <3>2 DEF FrameOK, HashRollup
    <3>3. CASE ~FrameDone(a, i)' /\ FrameDone(a, i)
      <4>1. FALSE
        <5>1. \/ LoadChild(a)
              \/ pc[a] = "parent" /\ pc'[a] = "settle"
          BY <1>2, <3>3, DoneAfter
        <5> QED
          BY <1>0, <1>2, <2>7, <3>3, <5>1 DEF LoadChild, FrameDone
      <4> QED
        BY <4>1
    <3> QED
      BY <2>6, <3>2, <3>3
  <2>8. CASE i = Depth(a) /\ pc[a] = "parent" /\ pc'[a] = "settle"
    <3>1. TopFrame(a).hash = hash /\ TopFrame(a).level = level
      BY <2>1, <2>8, TopChildStored
    <3>2. HashRollup(level) => Merged(TopFrame(a).hash, TopFrame(a).level)'
      BY <2>8, <3>1, ObtainMerges
    <3>3. frames' = frames
      BY <2>8, StepAt, StorageFailsEffect, LeaveEffect
         DEF ReuseParent, ReopenParent, CreateParent
    <3>4. (TopFrame(a).hash)' = hash /\ (TopFrame(a).level)' = level
      BY <3>1, <3>3 DEF TopFrame
    <3>5. HashRollup(level) => Merged(hash, level)'
      BY <3>2, <3>4
    <3>6. FrameDone(a, i)'
      BY <1>0, <2>8, <3>3 DEF FrameDone, Depth
    <3> QED
      BY <2>2, <3>5, <3>6 DEF FrameOK
  <2> QED
    BY <1>2, <2>1, <2>5, <2>6, <2>7, <2>8, DoneAfter
<1>3. ASSUME TrackFinalized(a)
      PROVE  FrameOK(a, Depth(a))'
  <2>1. /\ pc[a] = "track" /\ pc'[a] = "load" /\ Depth(a)' = Depth(a) + 1
        /\ frames'[a][Depth(a) + 1] =
              [level |-> page[a].level, hash |-> Hash(page[a]), child |-> None,
               resume |-> "return"]
    BY <1>3, TrackEffect
  <2>2. PICK hash, n : hash = Hash(page[a]) /\ n = Depth(a) + 1
    OBVIOUS
  <2>3. Nowhere(hash)
    BY <1>0, <2>1, <2>2 DEF CascadeOK
  <2>4. Nowhere(hash)'
    BY <2>1, <2>3, StaysNowhere
  <2>5. ~FrameDone(a, n)' /\ frames'[a][n].hash = hash
    BY <1>0, <2>1, <2>2 DEF FrameDone
  <2>6. FrameOK(a, n)'
    BY <2>4, <2>5 DEF FrameOK
  <2> QED
    BY <2>1, <2>2, <2>6
<1>4. ASSUME NEW i \in 1 .. Depth(a)'
      PROVE  FrameOK(a, i)'
  <2>1. Depth(a)' \in Nat
    BY <1>0 DEF IInv, TypeOK, CallTypeOK, IsList, Depth
  <2>2. CASE i \in 1 .. Depth(a)
    BY <1>2, <2>1, <2>2
  <2>3. CASE i \notin 1 .. Depth(a)
    <3>1. TrackFinalized(a)
      <4>1. ~(Depth(a)' <= Depth(a))
        BY <1>0, <2>1, <2>3
      <4>2. ~LoadChild(a)
        BY <1>0, <4>1, FramesStay
      <4> QED
        BY <4>1, <4>2, StackAfter
    <3>2. Depth(a)' = Depth(a) + 1
      BY <3>1, TrackEffect
    <3>3. i = Depth(a)'
      BY <1>0, <2>3, <3>2
    <3> QED
      BY <1>3, <3>1, <3>3
  <2> QED
    BY <2>2, <2>3
<1> QED
  BY <1>1, <1>4 DEF CascadeOK

(* Two pages of a level do not get the same hash. *)
LEMMA StepOneParent ==
    ASSUME NoneIsNoRecord, IInv, HInv, RollupOK, NEW a \in Appenders, Alone(a), Step(a)
    PROVE  OneParent'
<1> DEFINE Old(r, h) == \E q \in Around : q.id = r.id /\ q.level = r.level /\ h \in KidsOf(q)
<1>1. ASSUME NEW p \in Around', NEW h \in KidsOf(p), ~Old(p, h)
      PROVE  p = page'[a] /\ Nowhere(h)
  <2>1. pc[a] = "parent" /\ p = page'[a] /\ h = Hash(TopFrame(a).child)
    BY <1>1, KidsAfter
  <2>2. h = frames[a][Depth(a)].hash
    BY <2>1, TopChildStored
  <2>3. Depth(a) \in 1 .. Depth(a) /\ FrameOK(a, Depth(a))
    BY <2>1, DepthOK DEF InRollup, RollupOK, CascadeOK
  <2>4. ~FrameDone(a, Depth(a))
    BY <2>1, <2>3 DEF FrameDone
  <2> QED
    BY <2>1, <2>2, <2>3, <2>4 DEF FrameOK
<1>2. ASSUME NEW q \in Around', NEW r \in Around', q.level = r.level,
             NEW h \in KidsOf(q), h \in KidsOf(r)
      PROVE  q.id = r.id
  <2>1. CASE Old(q, h) /\ Old(r, h)
    <3>1. PICK q0 \in Around : q0.id = q.id /\ q0.level = q.level /\ h \in KidsOf(q0)
      BY <2>1
    <3>2. PICK r0 \in Around : r0.id = r.id /\ r0.level = r.level /\ h \in KidsOf(r0)
      BY <2>1
    <3>3. KidsOf(q0) \cap KidsOf(r0) # {}
      BY <3>1, <3>2
    <3>4. q0.id = r0.id
      BY <1>2, <3>1, <3>2, <3>3 DEF RollupOK, OneParent
    <3> QED
      BY <3>1, <3>2, <3>4
  <2>2. CASE ~Old(q, h) /\ ~Old(r, h)
    BY <1>1, <1>2, <2>2
  <2>3. CASE ~Old(q, h) /\ Old(r, h)
    BY <1>1, <1>2, <2>3 DEF Nowhere
  <2>4. CASE Old(q, h) /\ ~Old(r, h)
    BY <1>1, <1>2, <2>4 DEF Nowhere
  <2> QED
    BY <2>1, <2>2, <2>3, <2>4
<1> QED
  BY <1>2 DEF OneParent

(* An activation that ends has nothing left to do. *)
LEMMA PopsDone ==
    ASSUME IInv, HInv, NEW a \in Appenders, Step(a), ~StorageFails(a),
           NEW i \in 1 .. Depth(a), ~(i <= Depth(a)')
    PROVE  FrameDone(a, i)
<1>0. Depth(a) \in Nat /\ frames[a] = [j \in 1 .. Depth(a) |-> frames[a][j]]
  BY DepthOK DEF IInv, TypeOK, CallTypeOK, IsList, Depth
<1>1. ~TrackFinalized(a) /\ ~LoadChild(a)
  <2>1. TrackFinalized(a) => Depth(a)' = Depth(a) + 1
    BY TrackEffect
  <2>2. LoadChild(a) => Depth(a)' = Depth(a)
    BY FramesStay
  <2> QED
    BY <1>0, <2>1, <2>2
<1>2. frames' # frames
  BY <1>0 DEF Depth
<1>3. ASSUME Depth(a)' = Depth(a)
      PROVE  FALSE
  BY <1>0, <1>3
<1>4. ASSUME ChildMissing(a)
      PROVE  FALSE
  <2>1. pc[a] = "load" /\ StoredWithHash(TopFrame(a).hash) = {}
    BY <1>4 DEF ChildMissing
  <2>2. Depth(a) \in 1 .. Depth(a) /\ TopFrame(a) = frames[a][Depth(a)]
    BY <2>1, DepthOK DEF InRollup, TopFrame, Depth
  <2> QED
    BY <2>1, <2>2, FrameHash DEF StoredWithHash
<1>5. ASSUME KeepActivePage(a)
      PROVE  FALSE
  <2>1. pc[a] \in InAddLeaf
    BY <1>5, KeepActiveEffect DEF InAddLeaf
  <2> QED
    BY <1>0, <2>1 DEF IInv, StackOK, Depth
<1>6. ASSUME NEW where \in {"parent", "return"}, SetTop(a, "resume", where), Depth(a) > 0
      PROVE  FALSE
  BY <1>3, <1>6, ResumeBelow
<1>7. ASSUME RetireStaleParent(a) \/ DiscardParent(a) \/ FinalizeParent(a) \/ KeepParent(a)
      PROVE  FALSE
  <2>1. /\ Depth(a) > 0
        /\ \/ frames' = frames \/ SetTop(a, "resume", "return")
           \/ SetTop(a, "resume", "parent")
    BY <1>7, RetireStaleEffect, SettleEffect
  <2> QED
    BY <1>2, <1>6, <2>1
<1>8. ReturnToParent(a) \/ ReturnToAddLeaf(a)
  BY <1>1, <1>2, <1>4, <1>5, <1>7 DEF Step, TakeActivePage, RetireActivePage,
     FindNoActivePage, CreatePage, PreFinalize, AppendLeaf, StorePage, ParentNotStale,
     ReuseParent, ReopenParent, CreateParent
<1>9. pc[a] = "return" /\ i = Depth(a)
  <2>1. CASE ReturnToParent(a)
    <3>1. /\ Depth(a) > 1 /\ IsList(frames[a]) /\ DOMAIN frames = Appenders
          /\ frames' = [frames EXCEPT ![a] = SubSeq(@, 1, Len(@) - 1)]
      BY <2>1 DEF ReturnToParent, Depth, IInv, TypeOK, CallTypeOK
    <3>2. Depth(a)' = Depth(a) - 1
      BY <3>1, FrontList DEF Depth
    <3> QED
      BY <1>0, <2>1, <3>2 DEF ReturnToParent
  <2>2. CASE ReturnToAddLeaf(a)
    BY <1>0, <2>2 DEF ReturnToAddLeaf, Depth
  <2> QED
    BY <1>8, <2>1, <2>2
<1> QED
  BY <1>0, <1>9 DEF FrameDone

(* A stored page is in a parent, or on its way. *)
LEMMA StepMergedOrPending ==
    ASSUME IInv, GInv, OInv, HInv, RollupOK, NEW a \in Appenders, Alone(a), Step(a),
           ~StorageFails(a)
    PROVE  MergedOrPending'
<1>0. IInv' /\ Mine(a) /\ Depth(a) \in Nat
      /\ \A b \in Appenders : /\ DOMAIN frames[b] = 1 .. Depth(b)
                              /\ DOMAIN frames'[b] = 1 .. Depth(b)'
                              /\ Depth(b)' \in Nat
  BY CallStepOK, DepthOK DEF IInv, TypeOK, CallTypeOK, IsList, Depth
<1> SUFFICES ASSUME NEW p \in storage', HashRollup(p.level)
             PROVE  RollupPending(p)' \/ Merged(Hash(p), p.level)'
  BY DEF MergedOrPending
<1>1. CASE p \notin storage
  <2>1. StorePage(a) /\ p = page[a]
    BY <1>1, StoreOnlyAdds
  <2>2. pc'[a] = "track" /\ page'[a] = p
    BY <2>1, StoreEffect
  <2> QED
    BY <2>2 DEF RollupPending
<1>2. ASSUME p \in storage, Merged(Hash(p), p.level)
      PROVE  Merged(Hash(p), p.level)'
  <2>1. p.level \in Levels
    BY <1>2 DEF IInv, TypeOK, ManagerTypeOK, IsPage
  <2> QED
    BY <1>2, <2>1, StaysMerged DEF HInv
<1>3. ASSUME p \in storage, RollupPending(p)
      PROVE  RollupPending(p)' \/ Merged(Hash(p), p.level)
  <2>1. \/ pc[a] = "track" /\ page[a] = p
        \/ \E i \in 1 .. Depth(a) : frames[a][i].hash = Hash(p)
    <3>1. ASSUME NEW b \in Appenders, b # a
          PROVE  pc[b] = "idle" /\ Depth(b) = 0
      BY <3>1 DEF Alone, IInv, StackOK, InAddLeaf, Depth
    <3> QED
      BY <1>0, <1>3, <3>1 DEF RollupPending
  <2>2. CASE pc[a] = "track" /\ page[a] = p
    <3>1. /\ Depth(a)' = Depth(a) + 1
          /\ frames'[a][Depth(a) + 1] =
                [level |-> page[a].level, hash |-> Hash(page[a]), child |-> None,
                 resume |-> "return"]
      BY <2>2, StepAt, TrackEffect
    <3>2. Depth(a) + 1 \in DOMAIN frames'[a] /\ frames'[a][Depth(a) + 1].hash = Hash(p)
      BY <1>0, <2>2, <3>1
    <3> QED
      BY <3>2 DEF RollupPending
  <2>3. ASSUME NEW i \in 1 .. Depth(a), frames[a][i].hash = Hash(p)
        PROVE  RollupPending(p)' \/ Merged(Hash(p), p.level)
    <3>1. CASE i <= Depth(a)'
      <4>1. i \in DOMAIN frames'[a] /\ frames'[a][i].hash = Hash(p)
        BY <1>0, <2>3, <3>1, FramesStay
      <4> QED
        BY <4>1 DEF RollupPending
    <3>2. CASE ~(i <= Depth(a)')
      <4>1. FrameDone(a, i) /\ FrameOK(a, i)
        BY <3>2, PopsDone DEF RollupOK, CascadeOK
      <4>2. frames[a][i].level = p.level
        BY <1>3, <2>3, FrameHash DEF IInv, TypeOK, ManagerTypeOK
      <4> QED
        BY <2>3, <4>1, <4>2 DEF FrameOK
    <3> QED
      BY <3>1, <3>2
  <2> QED
    BY <2>1, <2>2, <2>3
<1> QED
  BY <1>1, <1>2, <1>3 DEF RollupOK, MergedOrPending

(* What a call that has not begun, or another one, has on its stack: nothing. *)
LEMMA IdleCascades ==
    ASSUME IInv', NEW a \in Appenders, Alone(a)', CascadeOK(a)'
    PROVE  \A b \in Appenders : CascadeOK(b)'
<1> SUFFICES ASSUME NEW b \in Appenders, b # a PROVE CascadeOK(b)'
  OBVIOUS
<1>1. pc'[b] = "idle" /\ Depth(b)' = 0
  BY DEF Alone, IInv, StackOK, InAddLeaf, Depth
<1> QED
  BY <1>1 DEF CascadeOK

(* A new call finds the pages as they are. *)
LEMMA CallCascade ==
    ASSUME IInv, GInv, RollupOK, NEW a \in Appenders, Alone(a), CallAddLeaf(a)
    PROVE  RollupOK'
<1>1. /\ IInv' /\ Mine(a) /\ pc[a] = "idle" /\ pc'[a] = "take" /\ frames' = frames
      /\ storage' = storage /\ page' = page /\ Alone(a)'
  BY CallStepOK, CallEffect, OnlyHand DEF CallAddLeaf, managerVars
<1>2. Around' = Around
  BY <1>1, CallFlow
<1>3. Depth(a)' = 0
  BY <1>1 DEF IInv, StackOK, InAddLeaf, Depth
<1>4. OneParent'
  BY <1>2 DEF RollupOK, OneParent
<1>5. CascadeOK(a)'
  BY <1>1, <1>3 DEF CascadeOK
<1>6. MergedOrPending'
  <2> SUFFICES ASSUME NEW p \in storage, HashRollup(p.level)
               PROVE  RollupPending(p)' \/ Merged(Hash(p), p.level)'
    BY <1>1 DEF MergedOrPending
  <2>1. CASE Merged(Hash(p), p.level)
    BY <1>2, <2>1 DEF Merged
  <2>2. CASE RollupPending(p)
    <3>1. PICK b \in Appenders : \/ pc[b] = "track" /\ page[b] = p
                                 \/ \E i \in DOMAIN frames[b] : frames[b][i].hash = Hash(p)
      BY <2>2 DEF RollupPending
    <3>2. pc[b] = "track" => pc'[b] = "track"
      BY <1>1 DEF Mine
    <3> QED
      BY <1>1, <3>1, <3>2 DEF RollupPending
  <2> QED
    BY <2>1, <2>2 DEF RollupOK, MergedOrPending
<1> QED
  BY <1>1, <1>4, <1>5, <1>6, IdleCascades DEF RollupOK

(* A step of the call going on. *)
LEMMA StepRollup ==
    ASSUME NoneIsNoRecord, IInv, GInv, OInv, HInv, RollupOK, NEW a \in Appenders, Alone(a),
           Step(a), ~StorageFails(a)
    PROVE  RollupOK'
<1>1. IInv' /\ Alone(a)'
  BY CallStepOK, OnlyHand
<1> QED
  BY <1>1, StepOneParent, StepMergedOrPending, StepCascade, IdleCascades DEF RollupOK

(* What a store that fails, or a restart, may end. *)
LEMMA StaysUndisturbed ==
    ASSUME IInv, Next, Undisturbed'
    PROVE  Undisturbed /\ ~Restart /\ \A a \in Appenders : ~StorageFails(a)
<1>1. storeFailures \in Nat /\ restarts \in Nat
  BY DEF IInv, TypeOK, CountersTypeOK
<1>2. ~Restart
  BY <1>1 DEF Restart, Undisturbed
<1>3. \A a \in Appenders : ~StorageFails(a)
  BY <1>1 DEF StorageFails, Undisturbed
<1>4. storeFailures' = storeFailures /\ restarts' = restarts
  BY <1>2, <1>3 DEF Next, CallAddLeaf, Step, TakeActivePage, RetireActivePage,
     FindNoActivePage, CreatePage, PreFinalize, AppendLeaf, KeepActivePage, StorePage,
     TrackFinalized, LoadChild, ChildMissing, RetireStaleParent, ParentNotStale, ReuseParent,
     ReopenParent, CreateParent, DiscardParent, FinalizeParent, KeepParent, ReturnToParent,
     ReturnToAddLeaf, worldVars
<1> QED
  BY <1>2, <1>3, <1>4 DEF Undisturbed

(* Every step, while calls come one by one. *)
LEMMA RollupStays ==
    ASSUME InOrder, NoneIsNoRecord
    PROVE  IInv /\ QInv /\ PageBounds /\ EInv /\ Serial /\ Serial' /\ [Next]_vars => EInv'
<1> SUFFICES ASSUME IInv, QInv, PageBounds, EInv, Serial, Serial', [Next]_vars, Undisturbed'
             PROVE  OInv' /\ HInv' /\ RollupOK'
  BY DEF EInv
<1>1. CASE UNCHANGED vars
  <2>1. Undisturbed
    BY <1>1 DEF Undisturbed, vars, worldVars
  <2>2. OInv /\ HInv /\ RollupOK /\ NoRestart /\ NoRestart'
    BY <1>1, <2>1 DEF EInv, Undisturbed, NoRestart, vars, worldVars
  <2>3. OInv' /\ HInv'
    BY <2>2, ParentsOK, ResolvesOK
  <2>4. /\ activePages' = activePages /\ storage' = storage /\ pc' = pc /\ page' = page
        /\ frames' = frames /\ Around' = Around
    BY <1>1 DEF vars, managerVars, callVars, Around
  <2>5. MergedOrPending' /\ OneParent'
    BY <2>2, <2>4 DEF RollupOK, MergedOrPending, OneParent, RollupPending, Merged
  <2>6. ASSUME NEW a \in Appenders
        PROVE  CascadeOK(a)'
    <3>1. CascadeOK(a)
      BY <2>2 DEF RollupOK
    <3> QED
      BY <2>4, <3>1 DEF CascadeOK, FrameOK, FrameDone, Depth, Merged, Nowhere
  <2> QED
    BY <2>3, <2>5, <2>6 DEF RollupOK
<1>2. CASE Next
  <2>1. Undisturbed /\ ~Restart /\ \A a \in Appenders : ~StorageFails(a)
    BY <1>2, StaysUndisturbed
  <2>2. OInv /\ HInv /\ RollupOK /\ GInv /\ NoRestart /\ NoRestart'
    BY <2>1 DEF EInv, QInv, Undisturbed, NoRestart
  <2>3. OInv' /\ HInv'
    BY <2>2, ParentsOK, ResolvesOK
  <2>4. PICK a \in Appenders : CallAddLeaf(a) \/ Step(a)
    BY <1>2, <2>1 DEF Next
  <2>5. Alone(a)
    BY <2>4, SerialAlone
  <2>6. RollupOK'
    BY <2>1, <2>2, <2>4, <2>5, CallCascade, StepRollup
  <2> QED
    BY <2>3, <2>6
<1> QED
  BY <1>1, <1>2

(* Nothing is stored at first, and no call is on. *)
LEMMA RollupInit == Init => EInv
<1> SUFFICES ASSUME Init PROVE OInv /\ HInv /\ RollupOK
  BY DEF EInv
<1>1. Around = {}
  BY DEF Init, Around, HoldsPage
<1>2. MergedOrPending /\ OneParent
  BY <1>1 DEF Init, MergedOrPending, OneParent
<1>3. \A a \in Appenders : CascadeOK(a)
  BY DEF Init, CascadeOK, Depth
<1> QED
  BY <1>2, <1>3, ParentsInit, ResolvesInit DEF RollupOK

(* The parents of a stored page have one id. *)
LEMMA RolledUpOnce ==
    ASSUME NoneIsNoRecord, IInv, LInv, EInv
    PROVE  EveryPageRolledUp
<1> SUFFICES ASSUME Undisturbed, NEW p \in storage, HashRollup(p.level), ~RollupPending(p)
             PROVE  LET parents == {q.id : q \in {r \in Pages : r.level = p.level + 1 /\
                                                        Hash(p) \in KidsOf(r)}}
                    IN Cardinality(parents) = 1
  BY DEF EveryPageRolledUp
<1> DEFINE carriers == {r \in Pages : r.level = p.level + 1 /\ Hash(p) \in KidsOf(r)}
<1>1. Pages \subseteq Around
  BY PagesAround DEF LInv
<1>2. Around \subseteq Pages
  <2>1. \A a \in Appenders : pc[a] \in HoldsPage => page[a] # None
    BY DEF NoneIsNoRecord, IInv, TypeOK, CallTypeOK
  <2> QED
    BY <2>1 DEF Around, Pages, InHand
<1>3. PICK r \in Around : r.level = p.level + 1 /\ Hash(p) \in KidsOf(r)
  BY DEF EInv, RollupOK, MergedOrPending, Merged
<1>4. ASSUME NEW q \in carriers
      PROVE  q.id = r.id
  <2>1. KidsOf(q) \cap KidsOf(r) # {}
    BY <1>3
  <2> QED
    BY <1>1, <1>3, <2>1 DEF EInv, RollupOK, OneParent
<1>5. {q.id : q \in carriers} = {r.id}
  BY <1>2, <1>3, <1>4
<1> QED
  BY <1>5, FS_Singleton

(***************************************************************************)
(* Every finalized page is rolled up into exactly one parent, or its       *)
(* cascade is still going on, under the same conditions, until a store     *)
(* fails or the process restarts.  A parent is cloned, stored under        *)
(* finalization, discarded when empty or left active by perform_rollup,    *)
(* and a stale one is finalized first: no hash of a child is dropped or    *)
(* merged twice on the way.                                                *)
(***************************************************************************)
THEOREM InOrderPagesRolledUp ==
    ASSUME InOrder, NoneIsNoRecord
    PROVE  Spec /\ []Serial => []EveryPageRolledUp
<1>1. IInv /\ LInv /\ EInv => EveryPageRolledUp
  BY RolledUpOnce
<1>2. Init => LInv /\ QInv /\ EInv
  BY ApartInit, QuietInit, RollupInit
<1>3. IInv /\ PageBounds /\ LInv /\ QInv /\ EInv /\ Serial /\ Serial' /\ [Next]_vars
         => LInv' /\ QInv' /\ EInv'
  BY ApartOK, QuietOK, RollupStays
<1> QED
  BY <1>1, <1>2, <1>3, SpecInv, SpecPageBounds, PTL DEF Spec

----------------------------------------------------------------------------
(***************************************************************************)
(* The chain of a parent level, as that of the leaf pages.  No parent is   *)
(* reopened, so a level has one parent open at most, under one id; it      *)
(* follows the tip of the level, the page stored and tracked last.         *)
(***************************************************************************)

(* The parent of this level in the hands of a call. *)
Holding(a, l) == pc[a] \in {"settle", "store", "track"} /\ Depth(a) = l

OpenAt(l) == ActiveAt(l) \cup {page[a] : a \in {b \in Appenders : Holding(b, l)}}

(* The stored pages last_finalized_page_ids has been set for. *)
SettledAt(l) == {p \in StoredAt(l) : \A a \in Appenders : pc[a] = "track" => page[a] # p}

IsTipAt(l, t) == t \in SettledAt(l) /\ t.id = lastFinalized[l].id

TipAtOK(l) ==
    IF lastFinalized[l] = None THEN SettledAt(l) = {}
    ELSE \E t \in SettledAt(l) :
            IsTipAt(l, t) /\ \A s \in SettledAt(l) : s.id <= t.id /\ s.prev # Hash(t)

OpenAtOK(l) ==
    \A p \in OpenAt(l) :
        /\ \A s \in SettledAt(l) : s.id < p.id
        /\ IF lastFinalized[l] = None THEN p.prev = None
           ELSE \E t \in SettledAt(l) : IsTipAt(l, t) /\ p.prev = Hash(t)

ChainAt(l) == TipAtOK(l) /\ OpenAtOK(l) /\ LinkedChain(l)

ParentLevels == Levels \ {0}

PInvs == \A l \in ParentLevels : ChainAt(l)

(* A step after which no page of the level has come to the store or the map. *)
LEMMA LevelRests ==
    ASSUME NEW l \in ParentLevels, ChainAt(l), StoredAt(l)' = StoredAt(l),
           \A p : p \in SettledAt(l)' <=> p \in SettledAt(l),
           \A p \in OpenAt(l)' : \E q \in OpenAt(l) : p.id = q.id /\ p.prev = q.prev,
           lastFinalized'[l] = lastFinalized[l]
    PROVE  ChainAt(l)'
<1>1. \A t : IsTipAt(l, t)' <=> IsTipAt(l, t)
  BY DEF IsTipAt
<1>2. TipAtOK(l)'
  BY <1>1 DEF ChainAt, TipAtOK
<1>3. OpenAtOK(l)'
  <2> SUFFICES ASSUME NEW p \in OpenAt(l)'
               PROVE  /\ \A s \in SettledAt(l) : s.id < p.id
                      /\ IF lastFinalized[l] = None THEN p.prev = None
                         ELSE \E t \in SettledAt(l) : IsTipAt(l, t) /\ p.prev = Hash(t)
    BY <1>1 DEF OpenAtOK
  <2>1. PICK q \in OpenAt(l) : p.id = q.id /\ p.prev = q.prev
    OBVIOUS
  <2> QED
    BY <2>1 DEF ChainAt, OpenAtOK
<1>4. LinkedChain(l)'
  BY DEF ChainAt, LinkedChain
<1> QED
  BY <1>2, <1>3, <1>4 DEF ChainAt

(* What is open and what is settled at a level, by the call going on. *)
LEMMA LevelParts ==
    ASSUME NEW l \in ParentLevels, NEW a \in Appenders, Alone(a), Mine(a)
    PROVE  /\ OpenAt(l) = ActiveAt(l) \cup {p \in {page[a]} : Holding(a, l)}
           /\ OpenAt(l)' = ActiveAt(l)' \cup {p \in {page'[a]} : Holding(a, l)'}
           /\ \A p : p \in SettledAt(l) <=> p \in StoredAt(l) /\ (pc[a] = "track" => page[a] # p)
           /\ \A p : p \in SettledAt(l)' <=> p \in StoredAt(l)' /\ (pc'[a] = "track" => page'[a] # p)
<1>1. \A b \in Appenders \ {a} : pc[b] = "idle" /\ pc'[b] = "idle"
  BY DEF Alone, Mine
<1>2. \A b \in Appenders : b # a => ~Holding(b, l) /\ ~Holding(b, l)'
  BY <1>1 DEF Holding
<1>3. OpenAt(l) = ActiveAt(l) \cup {p \in {page[a]} : Holding(a, l)}
  BY <1>2 DEF OpenAt
<1>4. OpenAt(l)' = ActiveAt(l)' \cup {p \in {page'[a]} : Holding(a, l)'}
  BY <1>2 DEF OpenAt
<1>5. \A p : p \in SettledAt(l) <=> p \in StoredAt(l) /\ (pc[a] = "track" => page[a] # p)
  BY <1>1 DEF SettledAt
<1>6. \A p : p \in SettledAt(l)' <=> p \in StoredAt(l)' /\ (pc'[a] = "track" => page'[a] # p)
  BY <1>1 DEF SettledAt
<1> QED
  BY <1>3, <1>4, <1>5, <1>6

(* A step that does not store or track a page of the level, nor make one. *)
LEMMA LevelStays ==
    ASSUME IInv, NEW l \in ParentLevels, ChainAt(l), NEW a \in Appenders, Alone(a), Mine(a),
           StoredAt(l)' = StoredAt(l), lastFinalized'[l] = lastFinalized[l],
           pc[a] # "track" \/ page[a].level # l, pc'[a] # "track" \/ page'[a].level # l,
           ActiveAt(l)' \subseteq OpenAt(l), Holding(a, l)' => page'[a] \in OpenAt(l)
    PROVE  ChainAt(l)'
<1>1. \A p \in StoredAt(l) : p.level = l
  BY DEF StoredAt
<1>2. \A p : p \in SettledAt(l)' <=> p \in SettledAt(l)
  BY <1>1, LevelParts
<1>3. OpenAt(l)' \subseteq OpenAt(l)
  BY LevelParts
<1> QED
  BY <1>2, <1>3, LevelRests

(* The tip is what the level remembers, and it is in the store. *)
LEMMA TipIsLastStored ==
    ASSUME IInv, GInv, NEW l \in ParentLevels, ChainAt(l)
    PROVE  IF lastFinalized[l] = None THEN PrevHash(l) = None
           ELSE \E t \in SettledAt(l) : IsTipAt(l, t) /\ PrevHash(l) = Hash(t)
<1>1. CASE lastFinalized[l] = None
  BY <1>1 DEF PrevHash, LastStored
<1>2. CASE lastFinalized[l] # None
  <2>1. PICK t \in SettledAt(l) : IsTipAt(l, t)
    BY <1>2 DEF ChainAt, TipAtOK
  <2>2. t \in LastStored(l)
    BY <1>2, <2>1 DEF LastStored, Stored, IsTipAt, SettledAt, StoredAt
  <2>3. \A q \in LastStored(l) : q = t
    BY <1>2, <2>2 DEF LastStored, Stored, GInv, IdsOK
  <2>4. (CHOOSE p \in LastStored(l) : TRUE) = t
    BY <2>2, <2>3
  <2>5. PrevHash(l) = Hash(t)
    BY <2>2, <2>4 DEF PrevHash
  <2> QED
    BY <1>2, <2>1, <2>5
<1> QED
  BY <1>1, <1>2

(* The parent obtained is the active one, or it is new and follows the tip. *)
LEMMA ObtainFollows ==
    ASSUME IInv, GInv, OInv, PageBounds, NEW a \in Appenders, Alone(a),
           ReuseParent(a) \/ ReopenParent(a) \/ CreateParent(a),
           NEW l \in ParentLevels, ChainAt(l)
    PROVE  ChainAt(l)'
<1>1. /\ Mine(a) /\ pc[a] = "parent" /\ pc'[a] = "settle" /\ Depth(a)' = Depth(a)
      /\ UNCHANGED <<activePages, storage, lastFinalized>>
      /\ ParentLevel(a) = Depth(a)
  <2>1. \E p : Obtained(a, p)
    BY ObtainedFrom
  <2> QED
    BY <2>1, CallStepOK, AtParent DEF Step, Obtained, Depth
<1>2. StoredAt(l)' = StoredAt(l) /\ ActiveAt(l)' = ActiveAt(l)
  BY <1>1 DEF StoredAt, ActiveAt
<1>3. /\ OpenAt(l) = ActiveAt(l)
      /\ OpenAt(l)' = ActiveAt(l) \cup {p \in {page'[a]} : Depth(a) = l}
      /\ \A p : p \in SettledAt(l)' <=> p \in SettledAt(l)
  <2>1. ~Holding(a, l) /\ (Holding(a, l)' <=> Depth(a) = l)
    BY <1>1 DEF Holding
  <2> QED
    BY <1>1, <1>2, <2>1, LevelParts
<1>4. CASE Depth(a) # l
  BY <1>1, <1>2, <1>3, <1>4, LevelRests
<1>5. CASE Depth(a) = l
  <2>1. CASE \E p \in SuitableActive(a) : Obtained(a, p)
    <3>1. PICK p \in SuitableActive(a) : Obtained(a, p)
      BY <2>1
    <3>2. p \in ActiveAt(l)
      BY <1>1, <1>5 DEF SuitableActive
    <3>3. page'[a].id = p.id /\ page'[a].prev = p.prev
      BY <3>1, MergedPage
    <3> QED
      BY <1>1, <1>2, <1>3, <3>2, <3>3, LevelRests
  <2>2. ASSUME NEW p, Obtained(a, p), p.id = nextPageId, p.prev = PrevHash(l),
               SuitableActive(a) = {}
        PROVE  ChainAt(l)'
    <3>1. ActiveAt(l) = {}
      BY <1>1, <1>5, <2>2, NoActiveParent
    <3>2. OpenAt(l)' = {page'[a]}
      BY <1>3, <1>5, <3>1
    <3>3. page'[a].id = nextPageId /\ page'[a].prev = PrevHash(l)
      BY <2>2, MergedPage
    <3>4. \A s \in SettledAt(l) : s.id < nextPageId
      BY AroundParts DEF GInv, IdsOK, SettledAt, StoredAt
    <3>5. \A t : IsTipAt(l, t)' <=> IsTipAt(l, t)
      BY <1>1, <1>3 DEF IsTipAt
    <3>6. OpenAtOK(l)'
      BY <1>1, <1>3, <3>2, <3>3, <3>4, <3>5, TipIsLastStored DEF OpenAtOK
    <3>7. TipAtOK(l)'
      BY <1>1, <1>3, <3>5 DEF ChainAt, TipAtOK
    <3>8. LinkedChain(l)'
      BY <1>2 DEF ChainAt, LinkedChain
    <3> QED
      BY <3>6, <3>7, <3>8 DEF ChainAt
  <2>3. CASE CreateParent(a) /\ SuitableActive(a) = {}
    <3> DEFINE new == NewPage(nextPageId, ParentLevel(a), PrevHash(ParentLevel(a)),
                              WindowStart(ParentLevel(a), Trigger(a)))
    <3>1. (\E p \in SuitableActive(a) \cup Reopenable(a) : FALSE) \/ Obtained(a, new)
      BY <1>1, <2>3, NoReopen, ParentEffect
    <3>2. new.id = nextPageId /\ new.prev = PrevHash(l)
      BY <1>1, <1>5 DEF NewPage
    <3> HIDE DEF new
    <3> QED
      BY <2>2, <2>3, <3>1, <3>2
  <2> QED
    BY <1>1, <2>1, <2>3, NoReopen, ParentEffect
<1> QED
  BY <1>4, <1>5

(* A parent is written: it follows the tip, and nothing else does. *)
LEMMA StoreParentFollows ==
    ASSUME IInv, GInv, OInv, NEW a \in Appenders, Alone(a), StorePage(a),
           NEW l \in ParentLevels, Depth(a) = l, ChainAt(l)
    PROVE  ChainAt(l)'
<1>0. PICK p : p = page[a]
  OBVIOUS
<1>1. /\ pc[a] = "store" /\ pc'[a] = "track" /\ Mine(a) /\ page'[a] = p /\ Depth(a)' = l
      /\ storage' = storage \cup {p} /\ Unstored(p.id) /\ p.level = l /\ ActiveAt(l) = {}
      /\ UNCHANGED <<activePages, lastFinalized>>
  <2>1. Mine(a) /\ FlowOK(a)
    BY CallStepOK DEF Step, GInv
  <2>2. /\ pc[a] = "store" /\ pc'[a] = "track" /\ page' = page /\ frames' = frames
        /\ storage' = (storage \ Stored(page[a].level, page[a].id)) \cup {page[a]}
        /\ UNCHANGED <<activePages, lastFinalized>>
    BY StoreEffect
  <2>4. p.level = l /\ l > 0
    <3>1. l > 0
      BY DEF ParentLevels, Levels
    <3> QED
      BY <1>0, <2>2, <3>1, DepthOK DEF HoldsPage
  <2>3. storage' = storage \cup {p} /\ Unstored(p.id)
    <3>1. Unstored(p.id)
      BY <1>0, <2>2, <2>4 DEF OInv, ParentInHandOK
    <3>2. Stored(p.level, p.id) = {}
      BY <3>1 DEF Stored, Unstored
    <3> QED
      BY <1>0, <2>2, <3>1, <3>2
  <2>5. ActiveAt(l) = {}
    BY <1>0, <2>1, <2>2, <2>4 DEF FlowOK
  <2> QED
    BY <1>0, <2>1, <2>2, <2>3, <2>4, <2>5 DEF Depth
<1>2. /\ OpenAt(l)' = {p} /\ p \in OpenAt(l)
      /\ \A q : q \in SettledAt(l)' <=> q \in SettledAt(l)
      /\ StoredAt(l)' = StoredAt(l) \cup {p}
      /\ \A q : q \in SettledAt(l) <=> q \in StoredAt(l)
  <2>1. /\ ActiveAt(l)' = {} /\ StoredAt(l)' = StoredAt(l) \cup {p}
        /\ Holding(a, l) /\ Holding(a, l)' /\ p \notin StoredAt(l)
    BY <1>1 DEF ActiveAt, StoredAt, Holding, Unstored
  <2> QED
    BY <1>0, <1>1, <2>1, LevelParts
<1>3. \A t : IsTipAt(l, t)' <=> IsTipAt(l, t)
  BY <1>1, <1>2 DEF IsTipAt
<1>4. OpenAtOK(l)' /\ TipAtOK(l)'
  BY <1>1, <1>2, <1>3 DEF ChainAt, OpenAtOK, TipAtOK
<1>5. p.prev # None => \E q \in StoredAt(l) : Hash(q) = p.prev /\ q.id < p.id
  BY <1>2 DEF ChainAt, OpenAtOK
<1>6. \A q \in StoredAt(l) : q.prev # p.prev
  <2>1. CASE lastFinalized[l] = None
    BY <1>2, <2>1 DEF ChainAt, TipAtOK
  <2>2. CASE lastFinalized[l] # None
    <3>1. PICK t \in SettledAt(l) :
             IsTipAt(l, t) /\ \A s \in SettledAt(l) : s.id <= t.id /\ s.prev # Hash(t)
      BY <2>2 DEF ChainAt, TipAtOK
    <3>2. PICK u \in SettledAt(l) : IsTipAt(l, u) /\ p.prev = Hash(u)
      BY <1>2, <2>2 DEF ChainAt, OpenAtOK
    <3>3. t = u
      BY <3>1, <3>2 DEF IsTipAt, SettledAt, StoredAt, GInv, IdsOK
    <3> QED
      BY <1>2, <3>1, <3>2, <3>3
  <2> QED
    BY <2>1, <2>2
<1>7. LinkedChain(l)'
  BY <1>2, <1>5, <1>6 DEF ChainAt, LinkedChain
<1> QED
  BY <1>4, <1>7 DEF ChainAt

(* It becomes the tip. *)
LEMMA TrackParentFollows ==
    ASSUME NoneIsNoRecord, IInv, GInv, TrackedStored, NEW a \in Appenders, Alone(a),
           TrackFinalized(a), NEW l \in ParentLevels, Depth(a) = l, ChainAt(l)
    PROVE  ChainAt(l)'
<1>0. PICK p : p = page[a]
  OBVIOUS
<1>1. /\ pc[a] = "track" /\ pc'[a] = "load" /\ Mine(a) /\ storage' = storage
      /\ lastFinalized'[l] = [id |-> p.id, hash |-> Hash(p)]
      /\ p \in storage /\ p.level = l /\ IsPage(p) /\ ActiveAt(l)' = {}
  <2>1. Mine(a) /\ FlowOK(a)
    BY CallStepOK DEF Step, GInv
  <2>2. /\ pc[a] = "track" /\ pc'[a] = "load" /\ storage' = storage
        /\ lastFinalized' = [lastFinalized EXCEPT ![page[a].level] =
                               [id |-> page[a].id, hash |-> Hash(page[a])]]
    BY TrackEffect
  <2>3. p.level = l /\ IsPage(p) /\ l > 0
    <3>1. l > 0
      BY DEF ParentLevels, Levels
    <3> QED
      BY <1>0, <2>2, <3>1, DepthOK DEF HoldsPage
  <2>4. p \in storage /\ ActiveAt(l) = {}
    BY <1>0, <2>1, <2>2, <2>3 DEF FlowOK, TrackedStored
  <2>5. activePages' \subseteq activePages
    BY DEF TrackFinalized, Without
  <2>6. l \in DOMAIN lastFinalized
    BY DEF ParentLevels, IInv, TypeOK, ManagerTypeOK
  <2>7. lastFinalized'[l] = [id |-> p.id, hash |-> Hash(p)]
    BY <1>0, <2>2, <2>3, <2>6
  <2> QED
    BY <2>1, <2>2, <2>3, <2>4, <2>5, <2>7 DEF ActiveAt
<1>2. /\ OpenAt(l)' = {} /\ p \in OpenAt(l) /\ StoredAt(l)' = StoredAt(l)
      /\ \A q : q \in SettledAt(l)' <=> q \in StoredAt(l)
      /\ \A q : q \in SettledAt(l) <=> q \in StoredAt(l) /\ q # p
  <2>1. Holding(a, l) /\ ~Holding(a, l)' /\ StoredAt(l)' = StoredAt(l)
    BY <1>1 DEF Holding, StoredAt
  <2> QED
    BY <1>0, <1>1, <2>1, LevelParts
<1>3. p \in StoredAt(l) /\ Hash(p) # None /\ Hash(p).id = p.id
  BY <1>1, HashKeepsId DEF StoredAt, NoneIsNoRecord
<1>4. lastFinalized'[l] # None /\ lastFinalized'[l].id = p.id
  BY <1>1 DEF NoneIsNoRecord
<1>5. \A s \in StoredAt(l) : s.id \in Nat /\ Hash(s).id = s.id
  BY HashKeepsId DEF StoredAt, IInv, TypeOK, ManagerTypeOK, IsPage
<1>6. \A s \in StoredAt(l) : s.id <= p.id
  BY <1>2, <1>3, <1>5 DEF ChainAt, OpenAtOK
<1>7. \A s \in StoredAt(l) : s.prev # Hash(p)
  <2> SUFFICES ASSUME NEW s \in StoredAt(l), s.prev = Hash(p) PROVE FALSE
    OBVIOUS
  <2>1. PICK q \in StoredAt(l) : Hash(q) = s.prev /\ q.id < s.id
    BY <1>3 DEF ChainAt, LinkedChain
  <2>2. q.id = p.id
    BY <1>3, <1>5, <2>1
  <2> QED
    BY <1>3, <1>5, <1>6, <2>1, <2>2
<1>8. TipAtOK(l)'
  <2>1. IsTipAt(l, p)'
    BY <1>2, <1>3, <1>4 DEF IsTipAt
  <2>2. \A s \in SettledAt(l)' : s.id <= p.id /\ s.prev # Hash(p)
    BY <1>2, <1>6, <1>7
  <2>3. p \in SettledAt(l)'
    BY <1>2, <1>3
  <2> QED
    BY <1>4, <2>1, <2>2, <2>3 DEF TipAtOK
<1>9. OpenAtOK(l)' /\ LinkedChain(l)'
  BY <1>2 DEF ChainAt, OpenAtOK, LinkedChain
<1> QED
  BY <1>8, <1>9 DEF ChainAt

(* Every step of the call going on leaves the chain of a parent level linked. *)
LEMMA StepLevelChain ==
    ASSUME NoneIsNoRecord, IInv, GInv, OInv, TrackedStored, PageBounds, NEW a \in Appenders,
           Alone(a), Step(a), NEW l \in ParentLevels, ChainAt(l)
    PROVE  ChainAt(l)'
<1>1. /\ Mine(a) /\ FlowOK(a) /\ Depth(a) \in Nat /\ l \in Nat /\ l > 0
      /\ pc[a] \in HoldsPage => IsPage(page[a]) /\ page[a].level = Depth(a)
      /\ pc[a] \in InAddLeaf => Depth(a) = 0
  <2>1. l \in Nat /\ l > 0
    BY ConfigAssumption DEF ParentLevels, Levels
  <2> QED
    BY <2>1, CallStepOK, DepthOK DEF GInv
<1>2. ActiveAt(l) \subseteq OpenAt(l) /\ (Holding(a, l) => page[a] \in OpenAt(l))
  BY DEF OpenAt
<1>3. ASSUME storage' = storage, lastFinalized' = lastFinalized,
             pc[a] # "track", pc'[a] # "track",
             ActiveAt(l)' \subseteq OpenAt(l), Holding(a, l)' => page'[a] \in OpenAt(l)
      PROVE  ChainAt(l)'
  <2>1. StoredAt(l)' = StoredAt(l)
    BY <1>3 DEF StoredAt
  <2> QED
    BY <1>1, <1>3, <2>1, LevelStays
<1>4. ASSUME storage' = storage, lastFinalized' = lastFinalized,
             pc[a] # "track", pc'[a] # "track", ActiveAt(l)' = ActiveAt(l), ~Holding(a, l)'
      PROVE  ChainAt(l)'
  BY <1>2, <1>3, <1>4
<1>5. CASE \/ TakeActivePage(a) \/ RetireActivePage(a) \/ FindNoActivePage(a)
           \/ CreatePage(a) \/ PreFinalize(a) \/ AppendLeaf(a)
  <2>1. /\ storage' = storage /\ lastFinalized' = lastFinalized /\ frames' = frames
        /\ pc[a] \in {"take", "create", "have"}
        /\ activePages' = activePages \/ activePages' = Without(0)
    BY <1>5 DEF TakeActivePage, RetireActivePage, FindNoActivePage, CreatePage, PreFinalize,
       AppendLeaf, managerVars, IInv, TypeOK
  <2>2. pc'[a] # "track"
    BY <1>5 DEF TakeActivePage, RetireActivePage, FindNoActivePage, CreatePage, PreFinalize,
       AppendLeaf, Obtain, Goto, IInv, TypeOK
  <2>3. Depth(a)' = 0
    BY <1>1, <2>1 DEF InAddLeaf, Depth
  <2>4. ActiveAt(l)' = ActiveAt(l)
    BY <1>1, <2>1 DEF ActiveAt, Without
  <2> QED
    BY <1>1, <1>4, <2>1, <2>2, <2>3, <2>4 DEF Holding
<1>6. CASE KeepActivePage(a)
  <2>1. /\ pc[a] = "insert" /\ pc'[a] = "idle" /\ activePages' = WithActive(page[a])
        /\ storage' = storage /\ lastFinalized' = lastFinalized
    BY <1>6, KeepActiveEffect, LeaveEffect
  <2>2. page[a].level = 0
    BY <1>1, <2>1 DEF HoldsPage, InAddLeaf
  <2>3. ActiveAt(l)' = ActiveAt(l)
    BY <1>1, <2>1, <2>2 DEF ActiveAt, WithActive, Without
  <2> QED
    BY <1>4, <2>1, <2>3 DEF Holding
<1>7. CASE StorageFails(a) \/ ChildMissing(a) \/ ReturnToAddLeaf(a)
  <2>1. /\ pc[a] \in {"store", "load", "create", "parent", "return"}
        /\ pc'[a] \in {"idle", "create", "take"}
        /\ UNCHANGED managerVars
    BY <1>7, StorageFailsEffect, ChildMissingEffect, ReturnEffect, LeaveEffect
  <2> QED
    BY <1>4, <2>1 DEF managerVars, ActiveAt, Holding
<1>8. CASE LoadChild(a) \/ ParentNotStale(a) \/ ReturnToParent(a)
  <2>1. /\ pc[a] \in {"load", "stale", "return"} /\ pc'[a] \in {"stale", "parent", "return"}
        /\ UNCHANGED managerVars
    BY <1>8, RollupRestsEffect
  <2> QED
    BY <1>4, <2>1 DEF managerVars, ActiveAt, Holding
<1>9. CASE StorePage(a)
  <2>1. CASE Depth(a) = l
    BY <1>9, <2>1, StoreParentFollows
  <2>2. CASE Depth(a) # l
    <3>1. /\ pc[a] = "store" /\ pc'[a] = "track" /\ page' = page /\ Depth(a)' = Depth(a)
          /\ storage' = (storage \ Stored(page[a].level, page[a].id)) \cup {page[a]}
          /\ UNCHANGED <<activePages, lastFinalized>>
      BY <1>9, StoreEffect DEF Depth
    <3>2. page[a].level # l
      BY <1>1, <2>2, <3>1 DEF HoldsPage
    <3>3. StoredAt(l)' = StoredAt(l) /\ ActiveAt(l)' = ActiveAt(l) /\ ~Holding(a, l)'
      BY <2>2, <3>1, <3>2 DEF StoredAt, Stored, ActiveAt, Holding
    <3> QED
      BY <1>1, <1>2, <3>1, <3>2, <3>3, LevelStays
  <2> QED
    BY <2>1, <2>2
<1>10. CASE TrackFinalized(a)
  <2>1. CASE Depth(a) = l
    BY <1>10, <2>1, TrackParentFollows
  <2>2. CASE Depth(a) # l
    <3>1. /\ pc[a] = "track" /\ pc'[a] = "load" /\ storage' = storage
          /\ activePages' = activePages \/ activePages' = Without(0)
          /\ lastFinalized' = [lastFinalized EXCEPT ![page[a].level] =
                                  [id |-> page[a].id, hash |-> Hash(page[a])]]
      BY <1>10, TrackEffect
    <3>2. page[a].level # l
      BY <1>1, <2>2, <3>1 DEF HoldsPage
    <3>3. lastFinalized'[l] = lastFinalized[l]
      BY <3>1, <3>2 DEF ParentLevels, IInv, TypeOK, ManagerTypeOK
    <3>4. StoredAt(l)' = StoredAt(l) /\ ActiveAt(l)' = ActiveAt(l) /\ ~Holding(a, l)'
      BY <1>1, <3>1 DEF StoredAt, ActiveAt, Without, Holding
    <3> QED
      BY <1>1, <1>2, <3>1, <3>2, <3>3, <3>4, LevelStays
  <2> QED
    BY <2>1, <2>2
<1>11. CASE RetireStaleParent(a)
  <2>1. PICK p \in activePages :
          /\ pc[a] = "stale" /\ Depth(a)' = Depth(a) /\ p.level = Depth(a)
          /\ activePages' = Without(Depth(a))
          /\ \/ pc'[a] = "parent"
             \/ pc'[a] = "store" /\ page'[a] = p
          /\ storage' = storage /\ lastFinalized' = lastFinalized
    BY <1>11, RetireStaleEffect
  <2>2. ActiveAt(l)' \subseteq ActiveAt(l)
    BY <2>1 DEF ActiveAt, Without
  <2>3. Holding(a, l)' => page'[a] \in ActiveAt(l)
    BY <2>1 DEF Holding, ActiveAt
  <2> QED
    BY <1>2, <1>3, <2>1, <2>2, <2>3
<1>12. CASE ReuseParent(a) \/ ReopenParent(a) \/ CreateParent(a)
  BY <1>12, ObtainFollows
<1>13. CASE DiscardParent(a) \/ FinalizeParent(a) \/ KeepParent(a)
  <2>1. /\ pc[a] = "settle" /\ page[a].level = Depth(a) /\ Depth(a)' = Depth(a)
        /\ storage' = storage /\ lastFinalized' = lastFinalized
        /\ \/ activePages' = Without(Depth(a)) /\ pc'[a] = "return"
           \/ activePages' = Without(Depth(a)) /\ page' = page /\ pc'[a] = "store"
           \/ activePages' = WithActive(page[a]) /\ pc'[a] = "return"
    BY <1>13, SettleEffect
  <2>2. ActiveAt(l)' \subseteq OpenAt(l)
    <3>1. CASE activePages' = Without(Depth(a))
      BY <1>2, <3>1 DEF ActiveAt, Without
    <3>2. CASE activePages' = WithActive(page[a])
      <4>1. \A p \in ActiveAt(l)' : p \in ActiveAt(l) \/ (p = page[a] /\ Depth(a) = l)
        BY <2>1, <3>2 DEF ActiveAt, Without, WithActive
      <4>2. Depth(a) = l => page[a] \in OpenAt(l)
        BY <1>2, <2>1 DEF Holding
      <4> QED
        BY <1>2, <4>1, <4>2
    <3> QED
      BY <2>1, <3>1, <3>2
  <2>3. Holding(a, l)' => page'[a] \in OpenAt(l)
    BY <1>2, <2>1 DEF Holding
  <2> QED
    BY <1>3, <2>1, <2>2, <2>3
<1> QED
  BY <1>5, <1>6, <1>7, <1>8, <1>9, <1>10, <1>11, <1>12, <1>13 DEF Step

(* So does a new call, and a step that changes nothing. *)
LEMMA LevelChainsOK ==
    ASSUME NoneIsNoRecord
    PROVE  IInv /\ QInv /\ PageBounds /\ OInv /\ HInv /\ PInvs /\ Serial /\ Serial'
              /\ NoRestart /\ NoRestart' /\ [Next]_vars => PInvs'
<1> SUFFICES ASSUME IInv, QInv, PageBounds, OInv, HInv, PInvs, Serial, Serial', NoRestart,
                    NoRestart', [Next]_vars, NEW l \in ParentLevels
             PROVE  ChainAt(l)'
  BY DEF PInvs
<1>0. GInv /\ ChainAt(l)
  BY DEF QInv, NoRestart, PInvs
<1>1. CASE Restart
  <2>1. restarts \in Nat /\ restarts' = restarts + 1
    BY <1>1 DEF Restart, IInv, TypeOK, CountersTypeOK
  <2> QED
    BY <2>1 DEF NoRestart
<1>2. CASE UNCHANGED vars
  <2>1. OpenAt(l)' = OpenAt(l) /\ StoredAt(l)' = StoredAt(l) /\ SettledAt(l)' = SettledAt(l)
    BY <1>2 DEF vars, managerVars, callVars, OpenAt, StoredAt, SettledAt, ActiveAt, Holding,
       Depth
  <2> QED
    BY <1>0, <1>2, <2>1, LevelRests DEF vars, managerVars
<1>3. ASSUME NEW a \in Appenders, CallAddLeaf(a)
      PROVE  ChainAt(l)'
  <2>1. /\ Alone(a) /\ Mine(a) /\ pc[a] = "idle" /\ pc'[a] = "take" /\ UNCHANGED managerVars
    BY <1>3, SerialAlone, CallEffect
  <2>2. /\ ActiveAt(l)' = ActiveAt(l) /\ StoredAt(l)' = StoredAt(l) /\ ~Holding(a, l)'
        /\ ActiveAt(l) \subseteq OpenAt(l)
    BY <2>1 DEF ActiveAt, StoredAt, managerVars, Holding, OpenAt
  <2> QED
    BY <1>0, <2>1, <2>2, LevelStays DEF managerVars
<1>4. ASSUME NEW a \in Appenders, Step(a)
      PROVE  ChainAt(l)'
  BY <1>0, <1>4, SerialAlone, StepLevelChain DEF HInv
<1> QED
  BY <1>1, <1>2, <1>3, <1>4 DEF Next

(* There are no parents at first. *)
LEMMA LevelChainsInit == Init => PInvs
<1> SUFFICES ASSUME Init, NEW l \in ParentLevels PROVE ChainAt(l)
  BY DEF PInvs
<1>1. OpenAt(l) = {} /\ SettledAt(l) = {} /\ StoredAt(l) = {}
  BY DEF Init, OpenAt, SettledAt, StoredAt, ActiveAt, Holding
<1>2. lastFinalized[l] = None
  BY DEF Init, ParentLevels
<1> QED
  BY <1>1, <1>2 DEF ChainAt, TipAtOK, OpenAtOK, LinkedChain

(***************************************************************************)
(* The stored pages of every level form one chain, under the same          *)
(* conditions, failing stores or not.  get_or_create_active_parent_page    *)
(* reads prev_page_hash off the page the level finalized last; no parent   *)
(* of the level is open then, so the next one stored is the one that       *)
(* follows it.                                                             *)
(***************************************************************************)
THEOREM InOrderPageChains ==
    ASSUME InOrder, NoneIsNoRecord
    PROVE  Spec /\ []Serial /\ []NoRestart => []PageChains
<1>1. CInv /\ PInvs => PageChains
  BY DEF CInv, PInvs, ChainAt, ParentLevels, PageChains
<1>2. Init => QInv /\ OInv /\ HInv /\ CInv /\ PInvs
  BY QuietInit, ParentsInit, ResolvesInit, ChainInit, LevelChainsInit
<1>3. IInv /\ PageBounds /\ QInv /\ OInv /\ HInv /\ CInv /\ PInvs /\ Serial /\ Serial'
         /\ NoRestart /\ NoRestart' /\ [Next]_vars
         => QInv' /\ OInv' /\ HInv' /\ CInv' /\ PInvs'
  BY QuietOK, ParentsOK, ResolvesOK, ChainOK, LevelChainsOK
<1> QED
  BY <1>1, <1>2, <1>3, SpecInv, SpecPageBounds, PTL DEF Spec

----------------------------------------------------------------------------
(***************************************************************************)
(* Field patches.  Nothing is assumed of the order of the timestamps, of   *)
(* the number of calls, of failing stores or of restarts: the child a      *)
(* rollup has read is a page one level below, and what is merged into its  *)
(* parent is what its leaves wrote.                                        *)
(***************************************************************************)
(* The lists of leaves of the children of a page, by their hashes. *)
KidLeaves(p) == [i \in DOMAIN p.kids |-> p.kids[i].leaves]

(* What NetPatchesFollowChildren says of one page, and what it is about. *)
NetOK(p) ==
    p.level = 1 /\ ContentType[1] = "ChildHashesAndNetPatches" =>
        /\ KidLeaves(p) \in Seq(Seq(Leaf))
        /\ p.patches = LeafPatches(FlattenSeq(KidLeaves(p)))

(* A leaf page more under a page of both kinds. *)
LEMMA RollIntoNet ==
    ASSUME NEW p, IsPage(p), NetOK(p), NEW child, IsPage(child), child.level + 1 = p.level
    PROVE  NetOK(RollInto(p, child))
<1> DEFINE q == RollInto(p, child)
           ts == EndTime(child)
           hash == Hash(child)
           new == PatchesOf(child)
           hashed == AddThrallHash(p, hash, ts)
           old == FlattenSeq(KidLeaves(p))
<1> SUFFICES ASSUME p.level = 1, ContentType[1] = "ChildHashesAndNetPatches"
             PROVE  /\ KidLeaves(q) \in Seq(Seq(Leaf))
                    /\ q.patches = LeafPatches(FlattenSeq(KidLeaves(q)))
  BY RollIntoIsPage DEF NetOK
<1>1. child.level = 0 /\ child.leaves \in Seq(Leaf) /\ new = LeafPatches(child.leaves)
  <2>1. child.level = 0
    BY ConfigAssumption DEF IsPage, Levels
  <2> QED
    BY <2>1 DEF PatchesOf, IsPage
<1>2. hash.leaves = child.leaves
  BY DEF Hash, IsPage
<1>3. /\ KidLeaves(p) \in Seq(Seq(Leaf)) /\ old \in Seq(Leaf)
      /\ p.patches = LeafPatches(old)
      /\ FlattenSeq(Append(KidLeaves(p), child.leaves)) = old \o child.leaves
  BY <1>1, FlattenAppend DEF NetOK
<1>4. ts \in Nat /\ IsList(p.kids) /\ Len(p.kids) \in Nat
  BY EndOfPage DEF IsPage, IsList
<1>5. q.kids = Append(p.kids, hash)
  BY RollIntoIsPage
<1>6. /\ IsPage(hashed) /\ hashed.patches = p.patches
  BY <1>4, AddThrallHashIsPage, PatchesKept
<1>7. q = IF DOMAIN new = {} THEN hashed ELSE MergeNetPatches(hashed, new, ts)
  BY DEF RollInto
<1> HIDE DEF q, ts, hash, new, hashed, old
<1>8. KidLeaves(q) = Append(KidLeaves(p), child.leaves)
  <2> DEFINE k == p.kids
             n == Len(k)
             s == KidLeaves(p)
  <2>1. /\ DOMAIN Append(k, hash) = 1 .. n + 1 /\ Append(k, hash)[n + 1] = hash
        /\ \A i \in 1 .. n : Append(k, hash)[i] = k[i]
        /\ DOMAIN k = 1 .. n /\ n \in Nat
    BY <1>4, AppendList DEF IsList
  <2>2. DOMAIN s = 1 .. n /\ Len(s) = n /\ \A i \in 1 .. n : s[i] = k[i].leaves
    <3>1. DOMAIN s = 1 .. n /\ \A i \in 1 .. n : s[i] = k[i].leaves
      BY <2>1 DEF KidLeaves
    <3>2. s \in Seq(Seq(Leaf))
      BY <1>3
    <3> QED
      BY <2>1, <3>1, <3>2
  <2>3. IsList(s)
    BY <1>3, SeqIsList
  <2>4. /\ DOMAIN Append(s, child.leaves) = 1 .. n + 1
        /\ Append(s, child.leaves)[n + 1] = child.leaves
        /\ \A i \in 1 .. n : Append(s, child.leaves)[i] = s[i]
        /\ IsList(Append(s, child.leaves)) /\ Len(Append(s, child.leaves)) = n + 1
    BY <2>2, <2>3, AppendList
  <2>5. KidLeaves(q) = [i \in 1 .. n + 1 |-> q.kids[i].leaves]
    BY <1>5, <2>1 DEF KidLeaves
  <2>6. \A i \in 1 .. n + 1 : q.kids[i].leaves = Append(s, child.leaves)[i]
    BY <1>2, <1>5, <2>1, <2>2, <2>4
  <2>7. Append(s, child.leaves) = [i \in 1 .. n + 1 |-> Append(s, child.leaves)[i]]
    BY <2>4 DEF IsList
  <2> HIDE DEF s, n, k
  <2>8. KidLeaves(q) = Append(s, child.leaves)
    BY <2>5, <2>6, <2>7
  <2> QED
    BY <2>8 DEF s
<1>9. KidLeaves(q) \in Seq(Seq(Leaf))
  BY <1>1, <1>3, <1>8
<1>10. LeafPatches(FlattenSeq(KidLeaves(q))) =
          [o \in DOMAIN p.patches \cup DOMAIN new |->
              IF o \in DOMAIN new THEN new[o] ELSE p.patches[o]]
  <2>1. FlattenSeq(KidLeaves(q)) = old \o child.leaves
    BY <1>3, <1>8
  <2>2. LeafPatches(old \o child.leaves) =
          [o \in DOMAIN LeafPatches(old) \cup DOMAIN LeafPatches(child.leaves) |->
              IF o \in DOMAIN LeafPatches(child.leaves) THEN LeafPatches(child.leaves)[o]
              ELSE LeafPatches(old)[o]]
    BY <1>1, <1>3, LeafPatchesOfBoth
  <2> QED
    BY <1>1, <1>3, <2>1, <2>2
<1>11. p.patches = [o \in DOMAIN p.patches |-> p.patches[o]]
  BY <1>3, LeafPatchesAre
<1>12. CASE DOMAIN new = {}
  BY <1>6, <1>7, <1>9, <1>10, <1>11, <1>12
<1>13. CASE DOMAIN new # {}
  <2>1. q = MergeNetPatches(hashed, new, ts)
    BY <1>7, <1>13
  <2>2. q.patches = [o \in DOMAIN hashed.patches \cup DOMAIN new |->
                        IF o \in DOMAIN new THEN new[o] ELSE hashed.patches[o]]
    BY <1>6, <2>1, PatchesMerged
  <2> QED
    BY <1>6, <1>9, <1>10, <2>2
<1> QED
  BY <1>12, <1>13

(* A page with nothing in it. *)
LEMMA NewPageNet ==
    ASSUME NEW id, NEW level, NEW prev, NEW start
    PROVE  NetOK(NewPage(id, level, prev, start))
<1> DEFINE p == NewPage(id, level, prev, start)
<1>1. p.kids = <<>> /\ p.patches = NoPatches
  BY DEF NewPage
<1> HIDE DEF p
<1>2. KidLeaves(p) = <<>>
  BY <1>1 DEF KidLeaves
<1>3. FlattenSeq(KidLeaves(p)) = <<>>
  BY <1>2, FlattenNothing
<1>4. LeafPatches(<<>>) = [o \in {} |-> LeafPatches(<<>>)[o]]
  <2>1. <<>> \in Seq(Leaf) /\ \A o : Writing(<<>>, o) = {}
    BY DEF Writing
  <2>2. DOMAIN LeafPatches(<<>>) = {}
    BY <2>1, LeafPatchesAre
  <2> QED
    BY <2>1, <2>2, LeafPatchesAre
<1>5. NoPatches = LeafPatches(<<>>)
  BY <1>4 DEF NoPatches
<1> QED
  BY <1>1, <1>2, <1>3, <1>5 DEF NetOK, p

(* Where the child of the activation on top has been read. *)
HasChild == {"store", "track", "stale", "parent", "settle"}

(* An activation works for a page of its level, and has read that page. *)
ChildLevels(a) ==
    /\ \A i \in 1 .. Depth(a) : frames[a][i].hash.level = i - 1
    /\ \A i \in 1 .. Depth(a) - 1 : frames[a][i].child.level = i - 1
    /\ pc[a] \in HasChild => \A i \in 1 .. Depth(a) : frames[a][i].child.level = i - 1

NInv == (\A p \in Around : NetOK(p)) /\ \A a \in Appenders : ChildLevels(a)

(* A step of a call keeps the levels of its stack. *)
LEMMA StepChildLevels ==
    ASSUME IInv, NEW a \in Appenders, ChildLevels(a), Step(a)
    PROVE  ChildLevels(a)'
<1>0. /\ Depth(a) \in Nat /\ Depth(a)' \in Nat
      /\ pc[a] \in InAddLeaf => Depth(a) = 0
      /\ pc[a] \in InRollup => Depth(a) > 0
      /\ pc[a] \in HoldsPage => IsPage(page[a]) /\ page[a].level = Depth(a)
  <2>1. IInv'
    BY CallStepOK
  <2>2. Depth(a)' \in Nat
    BY <2>1 DEF IInv, TypeOK, CallTypeOK, IsList, Depth
  <2> QED
    BY <2>2, DepthOK
<1>1. CASE TrackFinalized(a)
  <2>1. /\ pc[a] = "track" /\ pc'[a] = "load" /\ Depth(a)' = Depth(a) + 1
        /\ \A i \in 1 .. Depth(a) : frames'[a][i] = frames[a][i]
        /\ frames'[a][Depth(a) + 1] =
              [level |-> page[a].level, hash |-> Hash(page[a]), child |-> None,
               resume |-> "return"]
    BY <1>1, TrackEffect
  <2>2. Hash(page[a]).level = Depth(a)
    BY <1>0, <2>1, HashKeepsId DEF HoldsPage
  <2>3. frames'[a][Depth(a) + 1].hash.level = Depth(a)
    BY <2>1, <2>2
  <2>4. ASSUME NEW i \in 1 .. Depth(a)'
        PROVE  i \in 1 .. Depth(a) \/ i = Depth(a) + 1
    BY <1>0, <2>1
  <2>5. \A i \in 1 .. Depth(a)' : frames'[a][i].hash.level = i - 1
    BY <1>0, <2>1, <2>3, <2>4 DEF ChildLevels
  <2>6. \A i \in 1 .. Depth(a)' - 1 : i \in 1 .. Depth(a) /\ frames'[a][i].child.level = i - 1
    BY <1>0, <2>1 DEF ChildLevels, HasChild
  <2> QED
    BY <2>1, <2>5, <2>6 DEF ChildLevels, HasChild
<1>2. CASE LoadChild(a)
  <2>1. CASE frames' = frames /\ pc'[a] = "return"
    BY <2>1 DEF ChildLevels, Depth, HasChild
  <2>2. CASE \E child \in StoredWithHash(TopFrame(a).hash) : SetTop(a, "child", child)
    <3>1. PICK child \in storage : Hash(child) = TopFrame(a).hash /\ SetTop(a, "child", child)
      BY <2>2 DEF StoredWithHash
    <3>2. IsPage(child) /\ Depth(a) > 0
      BY <1>2, DepthOK DEF LoadChild, InRollup, IInv, TypeOK, ManagerTypeOK
    <3>3. /\ frames'[a][Depth(a)].hash = frames[a][Depth(a)].hash
          /\ frames'[a][Depth(a)].child = child
      BY <3>1, <3>2, TopFields
    <3>4. /\ Len(frames'[a]) = Len(frames[a])
          /\ \A i \in 1 .. Len(frames[a]) - 1 : frames'[a][i] = frames[a][i]
      BY <3>1, <3>2, SetTopKept DEF Depth
    <3>5. Depth(a)' = Depth(a) /\ TopFrame(a) = frames[a][Depth(a)]
          /\ \A i \in 1 .. Depth(a) : i # Depth(a) =>
                i \in 1 .. Depth(a) - 1 /\ frames'[a][i] = frames[a][i]
      BY <1>0, <3>4 DEF Depth, TopFrame
    <3>6. child.level = Depth(a) - 1
      <4>1. Hash(child).level = child.level
        BY <3>2, HashKeepsId
      <4>2. Depth(a) \in 1 .. Depth(a)
        BY <1>0, <3>2
      <4>3. frames[a][Depth(a)].hash.level = Depth(a) - 1
        BY <4>2 DEF ChildLevels
      <4> QED
        BY <3>1, <3>5, <4>1, <4>3
    <3>7. \A i \in 1 .. Depth(a) :
             frames'[a][i].hash.level = i - 1 /\ frames'[a][i].child.level = i - 1
      BY <3>3, <3>5, <3>6 DEF ChildLevels
    <3>8. \A i \in 1 .. Depth(a) - 1 : i \in 1 .. Depth(a)
      BY <1>0
    <3> QED
      BY <3>5, <3>7, <3>8 DEF ChildLevels
  <2> QED
    BY <1>2, <2>1, <2>2 DEF LoadChild, Goto, IInv, TypeOK
<1>3. CASE ~LoadChild(a) /\ ~TrackFinalized(a)
  <2>1. /\ Depth(a)' <= Depth(a)
        /\ \A i \in 1 .. Depth(a) : i <= Depth(a)' =>
              /\ frames'[a][i].hash = frames[a][i].hash
              /\ frames'[a][i].child = frames[a][i].child
    BY <1>3, StackAfter
  <2>2. \A i \in 1 .. Depth(a)' : i \in 1 .. Depth(a) /\ i <= Depth(a)'
    BY <1>0, <2>1
  <2>3. \A i \in 1 .. Depth(a)' : frames'[a][i].hash.level = i - 1
    BY <2>1, <2>2 DEF ChildLevels
  <2>4. pc'[a] \in HasChild /\ pc[a] \notin HasChild =>
           Depth(a)' = 0 \/ Depth(a)' = Depth(a) - 1
    <3> SUFFICES ASSUME pc'[a] \in HasChild, pc[a] \notin HasChild
                 PROVE  Depth(a)' = 0 \/ Depth(a)' = Depth(a) - 1
      OBVIOUS
    <3>1. CASE pc[a] \in InAddLeaf
      BY <1>0, <2>1, <3>1
    <3>2. CASE pc[a] \notin InAddLeaf
      <4>1. pc[a] \in {"load", "return"}
        BY <3>2 DEF HasChild, InAddLeaf, IInv, TypeOK, Labels
      <4>2. \/ ChildMissing(a) \/ StorageFails(a)
            \/ ReturnToParent(a) \/ ReturnToAddLeaf(a)
        BY <1>3, <4>1 DEF Step, TakeActivePage, RetireActivePage, FindNoActivePage,
           CreatePage, PreFinalize, AppendLeaf, KeepActivePage, StorePage,
           TrackFinalized, LoadChild, ChildMissing, RetireStaleParent, ParentNotStale,
           ReuseParent, ReopenParent, CreateParent, DiscardParent, FinalizeParent,
           KeepParent, ReturnToParent, ReturnToAddLeaf
      <4>3. CASE ChildMissing(a) \/ StorageFails(a)
        BY <4>3, ChildMissingEffect, StorageFailsEffect, LeaveEffect DEF HasChild
      <4>4. CASE ReturnToAddLeaf(a)
        BY <4>4, ReturnEffect
      <4>5. CASE ReturnToParent(a)
        <5>1. /\ Len(frames[a]) > 1 /\ IsList(frames[a])
              /\ frames' = [frames EXCEPT ![a] = SubSeq(@, 1, Len(@) - 1)]
              /\ DOMAIN frames = Appenders
          BY <4>5 DEF ReturnToParent, IInv, TypeOK, CallTypeOK
        <5> QED
          BY <5>1, FrontList DEF Depth
      <4> QED
        BY <4>2, <4>3, <4>4, <4>5
    <3> QED
      BY <3>1, <3>2
  <2>5. \A i \in 1 .. Depth(a)' - 1 : /\ i \in 1 .. Depth(a)' /\ i \in 1 .. Depth(a) - 1
                                      /\ frames'[a][i].child.level = i - 1
    BY <1>0, <2>1, <2>2 DEF ChildLevels
  <2>6. pc'[a] \in HasChild => \A i \in 1 .. Depth(a)' : frames'[a][i].child.level = i - 1
    <3>1. CASE pc[a] \in HasChild
      BY <2>1, <2>2, <3>1 DEF ChildLevels
    <3>2. CASE pc'[a] \in HasChild /\ pc[a] \notin HasChild
      <4>1. \A i \in 1 .. Depth(a)' : i \in 1 .. Depth(a) - 1
        BY <1>0, <2>4, <3>2
      <4> QED
        BY <2>1, <2>2, <4>1 DEF ChildLevels
    <3> QED
      BY <3>1, <3>2
  <2> QED
    BY <2>3, <2>5, <2>6 DEF ChildLevels
<1> QED
  BY <1>1, <1>2, <1>3

(* The pages after a step: those of before, but for the one in hand. *)
LEMMA StepNet ==
    ASSUME IInv, NInv, NEW a \in Appenders, Step(a)
    PROVE  \A p \in Around' : NetOK(p)
<1>0. Mine(a) /\ \A p \in Around : NetOK(p)
  BY CallStepOK DEF NInv
<1>1. ASSUME activePages' \subseteq Around, storage' \subseteq Around, NetOK(page'[a])
      PROVE  \A p \in Around' : NetOK(p)
  BY <1>0, <1>1, AroundAfter
<1>2. CASE AppendLeaf(a)
  <2>1. page'[a].level = 0 /\ activePages' = activePages /\ storage' = storage
    BY <1>2, AppendLeafEffect DEF managerVars
  <2> QED
    BY <1>1, <2>1, AroundParts DEF NetOK
<1>3. CASE CreatePage(a)
  <2>1. page'[a].level = 0 /\ activePages' = activePages /\ storage' = storage
    BY <1>3, CreateEffect
  <2> QED
    BY <1>1, <2>1, AroundParts DEF NetOK
<1>4. CASE ReuseParent(a) \/ ReopenParent(a) \/ CreateParent(a)
  <2>1. PICK p : Obtained(a, p) /\ (p \in Around \/ NetOK(p))
    <3>1. CASE \E p \in SuitableActive(a) \cup Reopenable(a) : Obtained(a, p)
      BY <3>1, AroundParts DEF SuitableActive, ActiveAt, Reopenable, LastStored, Stored
    <3>2. CASE \E id, level, prev, start : Obtained(a, NewPage(id, level, prev, start))
      BY <3>2, NewPageNet
    <3> QED
      BY <1>4, <3>1, <3>2, ParentEffect
  <2>2. /\ pc[a] = "parent" /\ Depth(a) > 0 /\ IsPage(p) /\ p.level = Depth(a)
        /\ page'[a] = RollInto(p, TopFrame(a).child) /\ IsPage(TopFrame(a).child)
        /\ activePages' = activePages /\ storage' = storage
    BY <2>1 DEF Obtained
  <2>3. Depth(a) \in Nat /\ TopFrame(a) = frames[a][Depth(a)]
    BY DepthOK DEF Depth, TopFrame
  <2>4. TopFrame(a).child.level = Depth(a) - 1
    BY <2>2, <2>3 DEF NInv, ChildLevels, HasChild
  <2>5. TopFrame(a).child.level + 1 = p.level
    BY <2>2, <2>3, <2>4
  <2>6. NetOK(page'[a])
    BY <1>0, <2>1, <2>2, <2>5, RollIntoNet
  <2> QED
    BY <1>1, <2>2, <2>6, AroundParts
<1>5. CASE ~AppendLeaf(a) /\ ~CreatePage(a) /\ ~ReuseParent(a) /\ ~ReopenParent(a)
           /\ ~CreateParent(a)
  BY <1>0, <1>5, SamePages
<1> QED
  BY <1>2, <1>3, <1>4, <1>5

(* Every step, overlapping calls and restarts included. *)
LEMMA NetPatchesOK == IInv /\ NInv /\ [Next]_vars => NInv'
<1> SUFFICES ASSUME IInv, NInv, [Next]_vars PROVE NInv'
  OBVIOUS
<1>1. CASE Restart
  <2>1. Around' \subseteq Around /\ \A a \in Appenders : Depth(a)' = 0
    BY <1>1 DEF Restart, Around, Depth, HoldsPage
  <2>2. \A a \in Appenders : ChildLevels(a)'
    BY <2>1 DEF ChildLevels
  <2> QED
    BY <2>1, <2>2 DEF NInv
<1>2. CASE UNCHANGED vars
  <2>1. Around' = Around /\ \A a \in Appenders : ChildLevels(a)' <=> ChildLevels(a)
    BY <1>2 DEF vars, managerVars, callVars, Around, ChildLevels, Depth
  <2> QED
    BY <2>1 DEF NInv
<1>3. ASSUME NEW a \in Appenders, CallAddLeaf(a) PROVE NInv'
  <2>1. /\ Mine(a) /\ pc'[a] = "take" /\ frames' = frames
        /\ activePages' = activePages /\ storage' = storage
    BY <1>3, CallEffect DEF managerVars
  <2>2. Around' \subseteq Around
    BY <2>1, AroundAfter, AroundParts DEF HoldsPage
  <2>3. \A b \in Appenders : ChildLevels(b)'
    BY <2>1 DEF NInv, ChildLevels, Depth, HasChild, Mine
  <2> QED
    BY <2>2, <2>3 DEF NInv
<1>4. ASSUME NEW a \in Appenders, Step(a) PROVE NInv'
  <2>1. ChildLevels(a)' /\ Mine(a)
    BY <1>4, StepChildLevels, CallStepOK DEF NInv
  <2>2. \A b \in Appenders \ {a} : ChildLevels(b)'
    BY <2>1 DEF NInv, ChildLevels, Depth, Mine
  <2> QED
    BY <1>4, <2>1, <2>2, StepNet DEF NInv
<1> QED
  BY <1>1, <1>2, <1>3, <1>4 DEF Next

(* There is no page at first. *)
LEMMA NetPatchesInit == Init => NInv
<1> SUFFICES ASSUME Init PROVE NInv
  OBVIOUS
<1>1. Around = {} /\ \A a \in Appenders : Depth(a) = 0
  BY DEF Init, Around, HoldsPage, Depth
<1> QED
  BY <1>1 DEF NInv, ChildLevels, Init

(***************************************************************************)
(* The field patches a level 1 page carries besides the hashes of its      *)
(* children are always the last write of every object in its children, in  *)
(* the order they were rolled up: what is merged one child at a time is    *)
(* what all leaves together write.                                         *)
(***************************************************************************)
THEOREM SpecNetPatchesFollowChildren == Spec => []NetPatchesFollowChildren
<1>1. HandsOK /\ NInv => NetPatchesFollowChildren
  BY PagesAround DEF NInv, NetOK, KidLeaves, NetPatchesFollowChildren
<1>2. LInv => HandsOK
  BY DEF LInv
<1> QED
  BY <1>1, <1>2, NetPatchesInit, NetPatchesOK, ApartInit, ApartOK, SpecInv, PTL DEF Spec
=============================================================================
