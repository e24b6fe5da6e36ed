-------------------------- MODULE RetentionProofs --------------------------
(***************************************************************************)
(* Proofs about retention: what TimeManagerProofs and LeafProofs show of   *)
(* add_leaf still holds with sweeps in between, a level that keeps its     *)
(* pages for good loses none, and no other page is deleted but by its      *)
(* level's policy.                                                         *)
(***************************************************************************)
EXTENDS RetentionProps, LeafProofs

(* The type invariant, inductively: with the stacks of the calls. *)
SweepOK ==
    /\ retention \in RetentionConfigs
    /\ sweep # None => IsSweep(sweep)
    /\ sweeps \in 0 .. MaxSweeps
    /\ sweepFailures \in 0 .. MaxSweepFailures

RInv == IInv /\ SweepOK

(* Nothing is to be deleted at a level that keeps its pages. *)
KeptLevelSpared ==
    sweep # None /\ EffectivePolicy(sweep.level).kind = "KeepIndefinitely" =>
        sweep.doomed \in {None, {}}

----------------------------------------------------------------------------
(* The policy in force is one of the three. *)
LEMMA EffectivePolicyIsPolicy ==
    ASSUME SweepOK, NEW level \in Levels
    PROVE  IsPolicy(EffectivePolicy(level))
BY RetentionAssumption
   DEF EffectivePolicy, IsPolicy, Keep, DeleteAfterSecs, SweepOK

(* What a policy names are stored pages of the level, and none if it keeps all. *)
LEMMA DoomedAreListed ==
    ASSUME SweepOK, NEW level \in Levels, NEW now, NEW D \in Doomed(level, now)
    PROVE  /\ D \subseteq Summaries(level)
           /\ EffectivePolicy(level).kind = "KeepIndefinitely" => D = {}
<1> DEFINE kind == EffectivePolicy(level).kind
<1>1. kind \in {"KeepIndefinitely", "DeleteAfterSecs", "KeepNPages"}
  BY EffectivePolicyIsPolicy DEF IsPolicy
<1>2. CASE kind = "KeepIndefinitely"
  BY <1>2 DEF Doomed
<1>3. CASE kind = "DeleteAfterSecs"
  BY <1>3 DEF Doomed
<1>4. CASE kind = "KeepNPages"
  BY <1>4 DEF Doomed, Oldest
<1> QED
  BY <1>1, <1>2, <1>3, <1>4

(* A summary holds an id and an end time. *)
LEMMA SummariesOK ==
    ASSUME IInv, NEW level, NEW s \in Summaries(level)
    PROVE  s.id \in Nat /\ s.end \in Nat
<1>1. PICK p \in storage : s = Summary(p)
  BY DEF Summaries
<1>2. p.id \in Nat /\ p.start \in Nat /\ p.level \in Levels
  BY DEF IInv, TypeOK, ManagerTypeOK, IsPage
<1>3. Duration[p.level] \in Nat
  BY <1>2, ConfigAssumption
<1> QED
  BY <1>1, <1>2, <1>3 DEF Summary, EndTime

(* A step of a sweep leaves the store alone or takes pages out of it. *)
LEMMA SweepShrinks ==
    ASSUME Sweep
    PROVE  /\ storage' \subseteq storage
           /\ UNCHANGED <<activePages, nextPageId, lastFinalized, callVars, worldVars,
                          retention>>
BY DEF Sweep, BeginSweep, ListLevel, ListFails, DeletePage, DeleteFails, NextLevel, vars,
   managerVars

----------------------------------------------------------------------------
(* The sweep's own state. *)
LEMMA SweepStepOK ==
    ASSUME RInv, Sweep
    PROVE  SweepOK'
<1> USE DEF SweepOK
<1>1. retention' = retention /\ (sweep # None => IsSweep(sweep)) /\ None \notin Nat
  BY SweepShrinks, NoneAssumption DEF RInv
<1>2. CASE BeginSweep
  <2>1. PICK now \in Clock : sweep' = [now |-> now, level |-> 0, doomed |-> None]
    BY <1>2 DEF BeginSweep
  <2>2. 0 \in Levels
    BY ConfigAssumption DEF Levels
  <2>3. IsSweep(sweep')
    BY <2>1, <2>2 DEF IsSweep
  <2>4. sweeps' \in 0 .. MaxSweeps
    BY <1>2, RetentionAssumption DEF BeginSweep, RInv
  <2> QED
    BY <1>1, <1>2, <2>3, <2>4 DEF BeginSweep, RInv
<1>3. CASE ListLevel
  <2>1. PICK D \in Doomed(sweep.level, sweep.now) : sweep' = [sweep EXCEPT !.doomed = D]
    BY <1>3, Zenon DEF ListLevel
  <2>2. sweep # None /\ IsSweep(sweep)
    BY <1>1, <1>3 DEF ListLevel, Sweeping
  <2>3. \A d \in D : d.id \in Nat /\ d.end \in Nat
    BY <2>2, DoomedAreListed, SummariesOK DEF RInv, IsSweep
  <2>4. IsSweep(sweep')
    BY <2>1, <2>2, <2>3 DEF IsSweep
  <2> QED
    BY <1>1, <1>3, <2>4 DEF ListLevel, RInv
<1>4. CASE ListFails
  <2>1. sweepFailures' \in 0 .. MaxSweepFailures
    BY <1>4, RetentionAssumption DEF ListFails, RInv
  <2>2. IsSweep(sweep')
    BY <1>1, <1>4 DEF ListFails, Sweeping, IsSweep
  <2> QED
    BY <1>1, <1>4, <2>1, <2>2 DEF ListFails, RInv
<1>5. CASE DeletePage
  BY <1>1, <1>5 DEF DeletePage, Sweeping, IsSweep, RInv
<1>6. CASE DeleteFails
  <2>1. sweepFailures' \in 0 .. MaxSweepFailures
    BY <1>6, RetentionAssumption DEF DeleteFails, RInv
  <2>2. IsSweep(sweep')
    BY <1>1, <1>6 DEF DeleteFails, Sweeping, IsSweep
  <2> QED
    BY <1>1, <1>6, <2>1, <2>2 DEF DeleteFails, RInv
<1>7. CASE NextLevel
  <2>1. IsSweep(sweep)
    BY <1>1, <1>7 DEF NextLevel, Sweeping
  <2>2. sweep.level # Top => sweep.level + 1 \in Levels
    BY <2>1, ConfigAssumption DEF IsSweep, Levels
  <2>3. sweep' # None => IsSweep(sweep')
    BY <1>7, <2>1, <2>2 DEF NextLevel, IsSweep
  <2> QED
    BY <1>1, <1>7, <2>3 DEF NextLevel, RInv
<1> QED
  BY <1>2, <1>3, <1>4, <1>5, <1>6, <1>7 DEF Sweep

(* Steps of add_leaf, of a sweep, and a restart. *)
LEMMA RStepOK == RInv /\ [RNext]_rvars => RInv'
<1> SUFFICES ASSUME RInv, [RNext]_rvars PROVE RInv'
  OBVIOUS
<1>1. CASE AddLeafStep
  <2>1. IInv'
    BY <1>1, StepOK DEF AddLeafStep, Next, RInv
  <2> QED
    BY <1>1, <2>1 DEF AddLeafStep, sweepVars, RInv, SweepOK
<1>2. CASE Sweep
  BY <1>2, SweepShrinks, ShrinkOK, SweepStepOK DEF RInv
<1>3. CASE RestartAll
  <2>1. IInv'
    BY <1>3, RestartOK DEF RestartAll, RInv
  <2> QED
    BY <1>3, <2>1 DEF RestartAll, RInv, SweepOK
<1>4. CASE UNCHANGED rvars
  <2>1. IInv'
    BY <1>4, StepOK DEF rvars, RInv
  <2> QED
    BY <1>4, <2>1 DEF rvars, sweepVars, RInv, SweepOK
<1> QED
  BY <1>1, <1>2, <1>3, <1>4 DEF RNext

(* At the start. *)
LEMMA RInitOK == RInit => RInv
BY InitOK, RetentionAssumption DEF RInit, RInv, SweepOK

(* The inductive invariant. *)
THEOREM RetentionInv == RSpec => []RInv
BY RInitOK, RStepOK, PTL DEF RSpec

(***************************************************************************)
(* Type correctness of the manager and of the sweep, whatever a sweep      *)
(* deletes while calls of add_leaf are under way.                          *)
(***************************************************************************)
THEOREM RetentionTypes == RSpec => []RetentionTypeOK
<1>1. RInv => RetentionTypeOK
  BY DEF RInv, IInv, SweepOK, RetentionTypeOK
<1> QED
  BY RetentionInv, <1>1, PTL

(***************************************************************************)
(* Pages stay within their bounds with sweeps in between: no rollup ever   *)
(* relies on a page that was deleted meanwhile.                            *)
(***************************************************************************)
THEOREM RetentionPageBounds == RSpec => []PageBounds
<1>1. RInit => BInv
  BY DEF RInit, Init, BInv, MapsBounded, HandBounded, HoldsPage
<1>2. RInv /\ BInv /\ [RNext]_rvars => BInv'
  <2> SUFFICES ASSUME RInv, BInv, [RNext]_rvars PROVE BInv'
    OBVIOUS
  <2>1. CASE AddLeafStep
    BY <2>1, BoundsOK DEF AddLeafStep, Next, RInv
  <2>2. CASE Sweep
    BY <2>2, SweepShrinks, ShrinkOK
  <2>3. CASE RestartAll
    BY <2>3, BoundsOK DEF RestartAll, Next, RInv
  <2>4. CASE UNCHANGED rvars
    BY <2>4, BoundsOK DEF rvars, RInv
  <2> QED
    BY <2>1, <2>2, <2>3, <2>4 DEF RNext
<1>3. BInv => PageBounds
  BY DEF BInv, MapsBounded, HandBounded, PageBounds, Pages, InHand
<1> QED
  BY RetentionInv, <1>1, <1>2, <1>3, PTL DEF RSpec

----------------------------------------------------------------------------
(* A sweep never has anything to delete at a level that keeps its pages. *)
LEMMA SparedOK == RInv /\ KeptLevelSpared /\ [RNext]_rvars => KeptLevelSpared'
<1> SUFFICES ASSUME RInv, KeptLevelSpared, [RNext]_rvars PROVE KeptLevelSpared'
  OBVIOUS
<1> USE DEF KeptLevelSpared
<1>1. CASE UNCHANGED <<retention, sweep>>
  BY <1>1 DEF EffectivePolicy
<1>2. CASE RestartAll
  BY <1>2 DEF RestartAll
<1>3. CASE Sweep
  <2>1. \A level : EffectivePolicy(level)' = EffectivePolicy(level)
    BY <1>3, SweepShrinks DEF EffectivePolicy
  <2>2. sweep # None => IsSweep(sweep)
    BY DEF RInv, SweepOK
  <2>3. CASE ListLevel
    <3>1. PICK D \in Doomed(sweep.level, sweep.now) : sweep' = [sweep EXCEPT !.doomed = D]
      BY <2>3, Zenon DEF ListLevel
    <3>2. sweep # None /\ sweep.level \in Levels
      BY <2>2, <2>3 DEF ListLevel, Sweeping, IsSweep
    <3>3. EffectivePolicy(sweep.level).kind = "KeepIndefinitely" => D = {}
      BY <3>2, DoomedAreListed DEF RInv
    <3>4. sweep'.level = sweep.level /\ sweep'.doomed = D
      BY <2>2, <3>1, <3>2 DEF IsSweep
    <3> QED
      BY <2>1, <3>3, <3>4
  <2>4. CASE BeginSweep \/ NextLevel
    <3>1. CASE BeginSweep
      <4>1. sweep'.doomed = None
        BY <3>1 DEF BeginSweep
      <4> QED
        BY <4>1
    <3>2. CASE NextLevel
      <4>1. sweep' = None \/ sweep'.doomed = None
        BY <2>2, <3>2 DEF NextLevel, Sweeping, IsSweep
      <4> QED
        BY <4>1
    <3> QED
      BY <2>4, <3>1, <3>2
  <2>5. CASE ListFails \/ DeletePage \/ DeleteFails
    <3>1. sweep # None /\ IsSweep(sweep)
      BY <2>2, <2>5 DEF ListFails, DeletePage, DeleteFails, Sweeping
    <3>2. /\ sweep'.level = sweep.level
          /\ sweep'.doomed = {} \/ \E s \in sweep.doomed : sweep'.doomed = sweep.doomed \ {s}
      BY <2>5, <3>1 DEF ListFails, DeletePage, DeleteFails, NextDoomed, IsSweep
    <3>3. EffectivePolicy(sweep.level).kind = "KeepIndefinitely" =>
            sweep.doomed \in {None, {}}
      BY <3>1
    <3>4. CASE ListFails
      <4>1. sweep'.doomed = {}
        BY <3>1, <3>4 DEF ListFails, IsSweep
      <4> QED
        BY <4>1
    <3>5. CASE DeletePage \/ DeleteFails
      <4>1. sweep.doomed # None /\ NextDoomed # {} /\ NextDoomed \subseteq sweep.doomed
        BY <3>5 DEF DeletePage, DeleteFails, NextDoomed
      <4>2. EffectivePolicy(sweep.level).kind # "KeepIndefinitely"
        BY <3>3, <4>1
      <4> QED
        BY <2>1, <3>2, <4>2
    <3> QED
      BY <2>5, <3>4, <3>5
  <2> QED
    BY <1>3, <2>3, <2>4, <2>5 DEF Sweep
<1> QED
  BY <1>1, <1>2, <1>3 DEF RNext, AddLeafStep, rvars, sweepVars

(* Only storing a page changes the store. *)
LEMMA StoreOrSame ==
    ASSUME AddLeafStep
    PROVE  \/ storage' = storage
           \/ \E a \in Appenders : StorePage(a)
<1>1. PICK a \in Appenders : CallAddLeaf(a) \/ Step(a)
  BY DEF AddLeafStep
<1> QED
  BY <1>1 DEF CallAddLeaf, Step, TakeActivePage, RetireActivePage, FindNoActivePage,
     CreatePage, PreFinalize, AppendLeaf, KeepActivePage, StorageFails, TrackFinalized,
     LoadChild, ChildMissing, RetireStaleParent, ParentNotStale, ReuseParent,
     ReopenParent, CreateParent, DiscardParent, FinalizeParent, KeepParent,
     ReturnToParent, ReturnToAddLeaf, managerVars

(* add_leaf writes pages and rewrites them, and removes none. *)
LEMMA AddLeafKeepsNames ==
    ASSUME AddLeafStep, NEW p \in storage
    PROVE  ~Gone(p)
BY StoreOrSame DEF StorePage, Stored, Gone

(***************************************************************************)
(* Whatever the other levels' policies, a level under KeepIndefinitely     *)
(* (its own policy, or no policy and the global section disabled) never    *)
(* loses a page to a sweep, to add_leaf or to a restart.                   *)
(***************************************************************************)
THEOREM RetentionKeepsLevels == RSpec => KeptLevelsStay
<1>1. RInit => KeptLevelSpared
  BY DEF RInit, KeptLevelSpared
<1>2. RInv /\ KeptLevelSpared /\ [RNext]_rvars =>
        [\A p \in storage :
            EffectivePolicy(p.level).kind = "KeepIndefinitely" => ~Gone(p)]_rvars
  <2> SUFFICES ASSUME RInv, KeptLevelSpared, RNext, NEW p \in storage,
                      EffectivePolicy(p.level).kind = "KeepIndefinitely"
               PROVE  ~Gone(p)
    BY DEF rvars
  <2>1. CASE AddLeafStep
    BY <2>1, AddLeafKeepsNames DEF RInv
  <2>2. CASE DeletePage
    <3>1. sweep # None /\ sweep.doomed # None /\ NextDoomed \subseteq sweep.doomed
      BY <2>2 DEF DeletePage, Sweeping, NextDoomed
    <3>2. PICK s \in NextDoomed : storage' = storage \ Stored(sweep.level, s.id)
      BY <2>2 DEF DeletePage
    <3>3. p.level # sweep.level
      BY <3>1, <3>2 DEF KeptLevelSpared
    <3> QED
      BY <3>2, <3>3 DEF Stored, Gone
  <2>3. CASE RestartAll \/ BeginSweep \/ ListLevel \/ ListFails \/ DeleteFails \/ NextLevel
    BY <2>3 DEF RestartAll, Restart, BeginSweep, ListLevel, ListFails, DeleteFails,
       NextLevel, vars, managerVars, Gone
  <2> QED
    BY <2>1, <2>2, <2>3 DEF RNext, Sweep
<1> QED
  BY RetentionInv, SparedOK, <1>1, <1>2, PTL DEF RSpec, KeptLevelsStay

----------------------------------------------------------------------------
(***************************************************************************)
(* Deleting pages, and the leaves.  A deletion above level 0 takes no leaf *)
(* away, so what QInv says of the leaves survives every sweep that spares  *)
(* level 0; and what GInv says of the pages survives any deletion.         *)
(***************************************************************************)

(* What a sweep leaves as it was. *)
LEMMA SweepAround ==
    ASSUME Sweep
    PROVE  /\ Around' \subseteq Around
           /\ \A p \in Around : p \in Around' \/ p \in storage \ storage'
<1>1. /\ storage' \subseteq storage
      /\ UNCHANGED <<activePages, nextPageId, lastFinalized, callVars, worldVars>>
  BY SweepShrinks
<1> QED
  BY <1>1 DEF Around, callVars

(* A leaf is in no more pages than before. *)
LEMMA SweepApart ==
    ASSUME LInv, Sweep
    PROVE  LInv'
BY SweepShrinks, ShrinkOK

(* Ids stay those of one page each, whatever is deleted. *)
LEMMA SweepFlow ==
    ASSUME GInv, Sweep
    PROVE  GInv'
<1>1. /\ Around' \subseteq Around /\ storage' \subseteq storage
      /\ UNCHANGED <<activePages, nextPageId, pc, call, page, frames>>
  BY SweepAround, SweepShrinks DEF callVars
<1>2. IdsOK' /\ ContentOK'
  BY <1>1 DEF GInv, IdsOK, ContentOK
<1>3. \A id : Unstored(id) => Unstored(id)'
  BY <1>1 DEF Unstored
<1>4. LiveNotStored'
  BY <1>1, <1>3 DEF GInv, LiveNotStored, ActiveAt, Depth
<1>5. \A a \in Appenders : FlowOK(a)'
  <2> SUFFICES ASSUME NEW a \in Appenders PROVE FlowOK(a)'
    OBVIOUS
  <2>1. FlowOK(a) /\ \A l : ActiveAt(l)' = ActiveAt(l)
    BY <1>1 DEF GInv, ActiveAt
  <2> QED
    BY <1>1, <1>3, <2>1 DEF FlowOK, Pending, LeafPageInHand, Depth
<1> QED
  BY <1>2, <1>4, <1>5 DEF GInv

(* No policy is Option::None. *)
NoneIsNoPolicy == Keep # None

(* A sweep deletes no leaf page where these are kept for good. *)
LEMMA SweepSparesLeaves ==
    ASSUME NoneIsNoPolicy, RInv, KeptLevelSpared, retention.policy[0] = Keep, Sweep
    PROVE  \A p \in storage : p.level = 0 => p \in storage'
<1> SUFFICES ASSUME DeletePage, NEW p \in storage, p.level = 0
             PROVE  p \in storage'
  BY DEF Sweep, BeginSweep, ListLevel, ListFails, DeleteFails, NextLevel, vars, managerVars
<1>1. sweep # None /\ sweep.doomed # None /\ NextDoomed \subseteq sweep.doomed
  BY DEF DeletePage, Sweeping, NextDoomed
<1>2. PICK s \in NextDoomed : storage' = storage \ Stored(sweep.level, s.id)
  BY DEF DeletePage
<1>3. EffectivePolicy(0).kind = "KeepIndefinitely"
  BY DEF EffectivePolicy, NoneIsNoPolicy, Keep
<1>4. sweep.level # 0
  BY <1>1, <1>2, <1>3 DEF KeptLevelSpared
<1> QED
  BY <1>2, <1>4 DEF Stored

(* So every leaf stays where it was. *)
LEMMA SweepQuiet ==
    ASSUME NoneIsNoPolicy, RInv, QInv, KeptLevelSpared, retention.policy[0] = Keep, Sweep
    PROVE  QInv'
<1>1. /\ Around' \subseteq Around /\ storage' \subseteq storage
      /\ \A p \in Around : p \in Around' \/ p \in storage \ storage'
      /\ UNCHANGED <<pc, call, page, frames, accepted, storeFailures, restarts>>
  BY SweepAround, SweepShrinks DEF callVars, worldVars
<1> SUFFICES ASSUME restarts = 0, GInv, SInv, AcceptedKept
             PROVE  GInv' /\ SInv' /\ AcceptedKept'
  BY <1>1 DEF QInv
<1>2. \A p \in storage : p \in storage' \/ p.level # 0
  BY SweepSparesLeaves
<1>3. \A p \in storage \ storage' : LeavesOf(p) = {}
  <2> SUFFICES ASSUME NEW p \in storage \ storage' PROVE LeavesOf(p) = {}
    OBVIOUS
  <2>1. p \in Around /\ IsPage(p)
    BY AroundParts, AroundArePages DEF RInv
  <2>2. p.level > 0
    BY <1>2, <2>1 DEF IsPage, Levels
  <2>3. p.leaves = <<>>
    BY <2>1, <2>2 DEF GInv, ContentOK
  <2> QED
    BY <2>3 DEF LeavesOf
<1>4. StoredLeaves \subseteq StoredLeaves'
  BY <1>3 DEF StoredLeaves
<1>5. SInv'
  <2> SUFFICES ASSUME NEW a \in Appenders PROVE LeafStored(a)'
    BY DEF SInv
  <2>1. LeafStored(a) /\ Depth(a)' = Depth(a)
    BY <1>1 DEF SInv, Depth
  <2>2. pc[a] = "track" /\ Depth(a) = 0 => page[a].level = 0
    BY DepthOK DEF RInv, HoldsPage
  <2> QED
    BY <1>1, <1>2, <1>4, <2>1, <2>2 DEF LeafStored, Pending
<1>6. AcceptedKept'
  BY <1>1, <1>3 DEF AcceptedKept
<1> QED
  BY <1>5, <1>6, SweepFlow

(***************************************************************************)
(* Where leaf pages are kept for good, a leaf add_leaf returned Ok for is  *)
(* in exactly one leaf page, once, when calls come one at a time (the      *)
(* mutex of Journal::append_leaf; a sweep is under none), whatever         *)
(* apply_retention_policies deletes above it, and whenever: also a parent  *)
(* in the middle of the rollup that has just stored it.                    *)
(***************************************************************************)
THEOREM RetentionKeepsLeaves ==
    ASSUME NoneIsNoRecord, NoneIsNoPolicy
    PROVE  RSpec /\ []Serial => []KeptLeavesHeldOnce
<1> DEFINE KInv == LInv /\ KeptLevelSpared /\ (retention.policy[0] = Keep => QInv)
<1>1. RInit => KInv
  BY ApartInit, QuietInit DEF RInit, KeptLevelSpared
<1>2. RInv /\ KInv /\ Serial /\ Serial' /\ [RNext]_rvars => KInv'
  <2> SUFFICES ASSUME RInv, KInv, Serial, Serial', [RNext]_rvars PROVE KInv'
    OBVIOUS
  <2>1. KeptLevelSpared' /\ IInv
    BY SparedOK DEF RInv
  <2>2. CASE [Next]_vars /\ retention' = retention
    <3>1. LInv' /\ (QInv => QInv')
      BY <2>1, <2>2, ApartOK, QuietOK
    <3> QED
      BY <2>1, <2>2, <3>1
  <2>3. CASE Sweep
    <3>1. LInv' /\ retention' = retention
      BY <2>3, SweepApart, SweepShrinks
    <3>2. retention.policy[0] = Keep => QInv'
      BY <2>3, SweepQuiet
    <3> QED
      BY <2>1, <3>1, <3>2
  <2>4. Sweep \/ ([Next]_vars /\ retention' = retention)
    BY DEF RNext, AddLeafStep, RestartAll, Next, rvars, sweepVars
  <2> QED
    BY <2>2, <2>3, <2>4
<1>3. RInv /\ KInv => KeptLeavesHeldOnce
  BY KeptHeldOnce DEF RInv, KeptLeavesHeldOnce
<1> QED
  BY RetentionInv, <1>1, <1>2, <1>3, PTL DEF RSpec

----------------------------------------------------------------------------
(***************************************************************************)
(* Only the policy deletes.  When a page is deleted the policy looked at   *)
(* is some steps old: what it named then is in the store still, with the   *)
(* id and the window it had, and as many newer pages as the policy keeps   *)
(* are there too.                                                          *)
(***************************************************************************)

(* One id is of one page: rewritten, it keeps its window. *)
SameStart == \A p, q \in Around : p.id = q.id => p.start = q.start

(* Why the page may still be deleted. *)
RightlyDoomed(s) ==
    LET policy == EffectivePolicy(sweep.level)
        spared == Summaries(sweep.level) \ sweep.doomed
    IN /\ s \in Summaries(sweep.level)
       /\ policy.kind = "DeleteAfterSecs" => Expired(s.end, sweep.now, policy.n)
       /\ policy.kind = "KeepNPages" =>
            \E K \in SUBSET spared :
               Cardinality(K) = policy.n /\ \A k \in K : s.end <= k.end

DoomedOK ==
    sweep # None /\ sweep.doomed # None => \A s \in sweep.doomed : RightlyDoomed(s)

DInv == restarts = 0 => GInv /\ SameStart /\ IsFiniteSet(storage) /\ DoomedOK

(* The page of a step is new, or has the window of one that was there. *)
LEMMA StepStart ==
    ASSUME IInv, LInv, GInv, SameStart, NEW a \in Appenders, Step(a)
    PROVE  SameStart'
<1>1. CASE AppendLeaf(a)
  <2>1. /\ Mine(a) /\ page[a] \in Around /\ IsPage(page[a])
        /\ page'[a] = AddLeaf(page[a], call[a].leaf) /\ call[a].leaf \in Leaf
        /\ UNCHANGED <<activePages, storage>> /\ page[a].level = 0
    BY <1>1, AppendLeafEffect DEF managerVars
  <2>2. page'[a].id = page[a].id /\ page'[a].start = page[a].start
    BY <2>1, AddLeafIsPage
  <2>3. \A p \in Around' : \E q \in Around : q.id = p.id /\ q.start = p.start
    BY <2>1, <2>2, AroundAfter, AroundParts
  <2> QED
    BY <2>3 DEF SameStart
<1>2. CASE ~AppendLeaf(a)
  <2>1. Inherits
    BY <1>2, StepInherits DEF LInv
  <2> SUFFICES ASSUME NEW p \in Around', NEW q \in Around', p.id = q.id
               PROVE  p.start = q.start
    BY DEF SameStart
  <2>2. \A r \in Around : r.id # nextPageId
    BY DEF GInv, IdsOK, IInv, TypeOK, ManagerTypeOK
  <2>3. CASE Fresh(p) \/ Fresh(q)
    <3>1. p.id = nextPageId /\ q.id = nextPageId
      BY <2>3 DEF Fresh
    <3> QED
      BY <2>1, <2>2, <3>1 DEF Inherits
  <2>4. CASE WasThere(p) /\ WasThere(q)
    BY <2>4 DEF WasThere, SameStart
  <2> QED
    BY <2>1, <2>3, <2>4 DEF Inherits
<1> QED
  BY <1>1, <1>2

(* What add_leaf stores was in a hand, and one page at a time. *)
LEMMA AddLeafStores ==
    ASSUME IInv, AddLeafStep, IsFiniteSet(storage)
    PROVE  storage' \subseteq Around /\ IsFiniteSet(storage')
<1>1. CASE storage' = storage
  BY <1>1, AroundParts
<1>2. ASSUME NEW a \in Appenders, StorePage(a)
      PROVE  storage' \subseteq Around /\ IsFiniteSet(storage')
  <2> DEFINE others == storage \ Stored(page[a].level, page[a].id)
  <2>1. storage' = others \cup {page[a]} /\ page[a] \in Around
    BY <1>2, AroundParts DEF StorePage, HoldsPage
  <2>2. IsFiniteSet(others)
    BY FS_Difference
  <2>3. IsFiniteSet(others \cup {page[a]})
    BY <2>2, FS_AddElement
  <2> QED
    BY <2>1, <2>3, AroundParts
<1> QED
  BY <1>1, <1>2, StoreOrSame

(* A page listed is listed again, also when it has been rewritten. *)
LEMMA AddLeafKeepsSummaries ==
    ASSUME IInv, SameStart, AddLeafStep, IsFiniteSet(storage), NEW level
    PROVE  Summaries(level) \subseteq Summaries(level)'
<1> SUFFICES ASSUME NEW p \in storage, p.level = level
             PROVE  \E q \in storage' : q.level = level /\ Summary(q) = Summary(p)
  BY DEF Summaries
<1>1. PICK q \in storage' : q.level = p.level /\ q.id = p.id
  BY AddLeafKeepsNames DEF Gone
<1>2. p \in Around /\ q \in Around
  BY AddLeafStores, AroundParts
<1>3. q.start = p.start
  BY <1>1, <1>2 DEF SameStart
<1> QED
  BY <1>1, <1>3 DEF Summary, EndTime

(* There are finitely many pages to list. *)
LEMMA SummariesFinite ==
    ASSUME IsFiniteSet(storage), NEW level
    PROVE  IsFiniteSet(Summaries(level))
<1> DEFINE P == {q \in storage : q.level = level}
           f == [p \in P |-> Summary(p)]
<1>1. IsFiniteSet(P)
  BY FS_Subset
<1>2. f \in Surjection(P, Summaries(level))
  BY DEF Summaries, Surjection
<1> QED
  BY <1>1, <1>2, FS_Surjection

(* The listing names pages for the right reason. *)
LEMMA ListedRightly ==
    ASSUME SweepOK, IsFiniteSet(storage), sweep # None, ListLevel
    PROVE  DoomedOK'
<1> DEFINE level == sweep.level
           policy == EffectivePolicy(level)
           listed == Summaries(level)
<1>1. PICK D \in Doomed(level, sweep.now) : sweep' = [sweep EXCEPT !.doomed = D]
  BY Zenon DEF ListLevel
<1>2. IsSweep(sweep) /\ level \in Levels
  BY DEF SweepOK, IsSweep
<1>3. /\ sweep' # None => sweep'.level = level /\ sweep'.now = sweep.now /\ sweep'.doomed = D
      /\ storage' = storage /\ retention' = retention
  BY <1>1, <1>2 DEF ListLevel, IsSweep, vars, managerVars
<1>4. D \subseteq listed /\ IsPolicy(policy)
  BY <1>2, DoomedAreListed, EffectivePolicyIsPolicy
<1>5. ASSUME policy.kind = "DeleteAfterSecs", NEW s \in D
      PROVE  Expired(s.end, sweep.now, policy.n)
  BY <1>5 DEF Doomed
<1>6. ASSUME policy.kind = "KeepNPages", NEW s \in D
      PROVE  \E K \in SUBSET (listed \ D) :
                Cardinality(K) = policy.n /\ \A k \in K : s.end <= k.end
  <2>1. D \in Oldest(listed, policy.n)
    BY <1>6 DEF Doomed
  <2>2. /\ Cardinality(D) = Cardinality(listed) - policy.n
        /\ \A k \in listed \ D : s.end <= k.end
    BY <2>1 DEF Oldest
  <2>3. Cardinality(listed \ D) = policy.n
    <3>1. IsFiniteSet(listed) /\ listed \cap D = D
      BY <1>4, SummariesFinite
    <3>2. Cardinality(listed \ D) = Cardinality(listed) - Cardinality(D)
      BY <3>1, FS_Difference
    <3>3. Cardinality(listed) \in Nat /\ policy.n \in Nat
      BY <1>4, <3>1, FS_CardinalityType DEF IsPolicy
    <3> QED
      BY <2>2, <3>2, <3>3
  <2> QED
    BY <2>2, <2>3
<1>7. \A l : Summaries(l)' = Summaries(l) /\ EffectivePolicy(l)' = EffectivePolicy(l)
  BY <1>3 DEF Summaries, EffectivePolicy
<1> SUFFICES ASSUME sweep' # None, NEW s \in D PROVE RightlyDoomed(s)'
  BY <1>3 DEF DoomedOK
<1> QED
  BY <1>3, <1>4, <1>5, <1>6, <1>7 DEF RightlyDoomed

(* Reasons last while the pages listed are there and fewer are to be deleted. *)
LEMMA ReasonsLast ==
    ASSUME NEW level, sweep.level = level, sweep'.level = level, sweep'.now = sweep.now,
           retention' = retention, sweep'.doomed \subseteq sweep.doomed,
           NEW s, RightlyDoomed(s), s \in Summaries(level)',
           Summaries(level) \ sweep.doomed \subseteq Summaries(level)'
    PROVE  RightlyDoomed(s)'
<1> DEFINE policy == EffectivePolicy(level)
           spared == Summaries(level) \ sweep.doomed
<1>1. EffectivePolicy(level)' = policy
  BY DEF EffectivePolicy
<1>2. spared \subseteq Summaries(level)' \ sweep'.doomed
  OBVIOUS
<1>3. policy.kind = "KeepNPages" =>
         \E K \in SUBSET (Summaries(level)' \ sweep'.doomed) :
            Cardinality(K) = policy.n /\ \A k \in K : s.end <= k.end
  BY <1>2 DEF RightlyDoomed
<1>4. policy.kind = "DeleteAfterSecs" => Expired(s.end, sweep.now, policy.n)
  BY DEF RightlyDoomed
<1> QED
  BY <1>1, <1>3, <1>4 DEF RightlyDoomed

(* Pages of a level have an id of their own in its listing. *)
LEMMA SummariesApart ==
    ASSUME GInv, NEW level, NEW s \in Summaries(level), NEW t \in Summaries(level),
           s.id = t.id
    PROVE  s = t
<1>1. PICK p \in storage : s = Summary(p)
  BY DEF Summaries
<1>2. PICK q \in storage : t = Summary(q)
  BY DEF Summaries
<1>3. p.id = q.id
  BY <1>1, <1>2 DEF Summary
<1> QED
  BY <1>1, <1>2, <1>3 DEF GInv, IdsOK

(* Each deletion takes the page it means, and the others stay listed. *)
LEMMA DeletionSpares ==
    ASSUME GInv, NEW level, NEW s \in Summaries(level),
           storage' = storage \ Stored(level, s.id)
    PROVE  Summaries(level) \ {s} \subseteq Summaries(level)'
<1> SUFFICES ASSUME NEW p \in storage, p.level = level, Summary(p) # s
             PROVE  p \in storage'
  BY DEF Summaries
<1>1. Summary(p) \in Summaries(level) /\ Summary(p).id = p.id
  BY DEF Summaries, Summary
<1>2. p.id # s.id
  BY <1>1, SummariesApart
<1> QED
  BY <1>2 DEF Stored

(* A sweep goes on deleting what it has a reason to delete. *)
LEMMA SweepDoomedOK ==
    ASSUME RInv, GInv, DoomedOK, IsFiniteSet(storage), Sweep
    PROVE  DoomedOK'
<1>1. retention' = retention /\ (sweep # None => IsSweep(sweep))
  BY SweepShrinks DEF RInv, SweepOK
<1>2. CASE BeginSweep
  <2>1. sweep'.doomed = None
    BY <1>2 DEF BeginSweep
  <2> QED
    BY <2>1 DEF DoomedOK
<1>3. CASE ListLevel
  BY <1>3, ListedRightly DEF RInv, ListLevel, Sweeping
<1>4. CASE ListFails
  <2>1. sweep'.doomed = {}
    BY <1>1, <1>4 DEF ListFails, Sweeping, IsSweep
  <2> QED
    BY <2>1 DEF DoomedOK
<1>5. CASE NextLevel
  <2>1. sweep' = None \/ sweep'.doomed = None
    BY <1>1, <1>5 DEF NextLevel, Sweeping, IsSweep
  <2> QED
    BY <2>1 DEF DoomedOK
<1>6. CASE DeletePage \/ DeleteFails
  <2>1. sweep # None /\ sweep.doomed # None /\ IsSweep(sweep)
    BY <1>1, <1>6 DEF DeletePage, DeleteFails, Sweeping
  <2>2. PICK s \in sweep.doomed :
           /\ sweep' = [sweep EXCEPT !.doomed = @ \ {s}]
           /\ \/ storage' = storage
              \/ storage' = storage \ Stored(sweep.level, s.id)
    BY <1>6 DEF DeletePage, DeleteFails, NextDoomed, vars, managerVars
  <2>3. /\ sweep'.level = sweep.level /\ sweep'.now = sweep.now
        /\ sweep'.doomed = sweep.doomed \ {s}
    BY <2>1, <2>2 DEF IsSweep
  <2>4. \A t \in sweep.doomed : RightlyDoomed(t)
    BY <2>1 DEF DoomedOK
  <2>5. PICK level : level = sweep.level
    OBVIOUS
  <2>6. Summaries(level) \ {s} \subseteq Summaries(level)'
    <3>1. CASE storage' = storage
      BY <3>1 DEF Summaries
    <3>2. CASE storage' = storage \ Stored(level, s.id)
      <4>1. s \in Summaries(level)
        BY <2>4, <2>5 DEF RightlyDoomed
      <4> QED
        BY <3>2, <4>1, DeletionSpares
    <3> QED
      BY <2>2, <2>5, <3>1, <3>2
  <2> SUFFICES ASSUME NEW t \in sweep.doomed, t # s PROVE RightlyDoomed(t)'
    BY <2>3 DEF DoomedOK
  <2>7. t \in Summaries(level)' /\ RightlyDoomed(t)
    BY <2>4, <2>5, <2>6 DEF RightlyDoomed
  <2>8. Summaries(level) \ sweep.doomed \subseteq Summaries(level)'
    BY <2>6
  <2> QED
    BY <1>1, <2>3, <2>5, <2>7, <2>8, ReasonsLast
<1> QED
  BY <1>2, <1>3, <1>4, <1>5, <1>6 DEF Sweep

(* While a sweep waits for the storage, add_leaf gives it no other reason. *)
LEMMA AddLeafDoomedOK ==
    ASSUME IInv, SameStart, DoomedOK, IsFiniteSet(storage), AddLeafStep
    PROVE  DoomedOK'
<1>1. UNCHANGED <<sweep, retention>>
  BY DEF AddLeafStep, sweepVars
<1> SUFFICES ASSUME sweep # None, sweep.doomed # None, NEW s \in sweep.doomed
             PROVE  RightlyDoomed(s)'
  BY <1>1 DEF DoomedOK
<1>2. PICK level : level = sweep.level
  OBVIOUS
<1>3. Summaries(level) \subseteq Summaries(level)'
  BY AddLeafKeepsSummaries
<1>4. RightlyDoomed(s) /\ s \in Summaries(level)
  BY <1>2 DEF DoomedOK, RightlyDoomed
<1> QED
  BY <1>1, <1>2, <1>3, <1>4, ReasonsLast

(* The reasons hold while the process runs. *)
LEMMA ReasonsOK ==
    ASSUME RInv, LInv, DInv, Serial, Serial', [RNext]_rvars
    PROVE  DInv'
<1> SUFFICES ASSUME restarts' = 0
             PROVE  GInv' /\ SameStart' /\ IsFiniteSet(storage') /\ DoomedOK'
  BY DEF DInv
<1>1. IInv
  BY DEF RInv
<1>2. CASE RestartAll
  <2>1. restarts \in Nat /\ restarts' = restarts + 1
    BY <1>1, <1>2 DEF RestartAll, Restart, IInv, TypeOK, CountersTypeOK
  <2> QED
    BY <2>1
<1>3. CASE UNCHANGED rvars
  <2>1. GInv /\ SameStart /\ IsFiniteSet(storage) /\ DoomedOK
    BY <1>3 DEF DInv, rvars, vars, worldVars
  <2>2. UNCHANGED <<managerVars, callVars, sweep, retention>>
    BY <1>3 DEF rvars, vars, sweepVars
  <2>3. Around' = Around
    BY <2>2 DEF managerVars, callVars, Around
  <2>4. SameStart' /\ IsFiniteSet(storage')
    BY <2>1, <2>2, <2>3 DEF SameStart, managerVars
  <2>5. GInv'
    BY <2>1, <2>2, <2>3, SameFlow
  <2>6. DoomedOK'
    BY <2>1, <2>2 DEF DoomedOK, RightlyDoomed, Summaries, EffectivePolicy, managerVars
  <2> QED
    BY <2>4, <2>5, <2>6
<1>4. CASE Sweep
  <2>1. GInv /\ SameStart /\ IsFiniteSet(storage) /\ DoomedOK
    BY <1>4, SweepShrinks DEF DInv, worldVars
  <2>2. SameStart'
    BY <1>4, <2>1, SweepAround DEF SameStart
  <2>3. IsFiniteSet(storage')
    BY <1>4, <2>1, SweepShrinks, FS_Subset
  <2> QED
    BY <1>4, <2>1, <2>2, <2>3, SweepFlow, SweepDoomedOK
<1>5. CASE AddLeafStep
  <2>1. PICK a \in Appenders : CallAddLeaf(a) \/ Step(a)
    BY <1>5 DEF AddLeafStep
  <2>2. restarts' = restarts
    BY <2>1 DEF CallAddLeaf, Step, TakeActivePage, RetireActivePage, FindNoActivePage,
       CreatePage, PreFinalize, AppendLeaf, KeepActivePage, StorePage, StorageFails,
       TrackFinalized, LoadChild, ChildMissing, RetireStaleParent, ParentNotStale,
       ReuseParent, ReopenParent, CreateParent, DiscardParent, FinalizeParent, KeepParent,
       ReturnToParent, ReturnToAddLeaf, worldVars
  <2>3. GInv /\ SameStart /\ IsFiniteSet(storage) /\ DoomedOK
    BY <2>2 DEF DInv
  <2>4. Alone(a)
    BY <1>1, <2>1, SerialAlone
  <2>5. GInv' /\ SameStart'
    <3>1. CASE Step(a)
      BY <1>1, <2>3, <2>4, <3>1, StepFlow, StepStart
    <3>2. CASE CallAddLeaf(a)
      <4>1. GInv' /\ Around' \subseteq Around
        BY <1>1, <2>3, <2>4, <3>2, CallFlow
      <4> QED
        BY <2>3, <4>1 DEF SameStart
    <3> QED
      BY <2>1, <3>1, <3>2
  <2>6. IsFiniteSet(storage')
    BY <1>1, <1>5, <2>3, AddLeafStores
  <2>7. DoomedOK'
    BY <1>1, <1>5, <2>3, AddLeafDoomedOK
  <2> QED
    BY <2>5, <2>6, <2>7
<1> QED
  BY <1>2, <1>3, <1>4, <1>5 DEF RNext

(* The pages a policy keeps are still there when another one is deleted. *)
LEMMA SparedAreNewer ==
    ASSUME IsFiniteSet(storage'), NEW p, NEW K, K \subseteq Summaries(p.level)',
           \A k \in K : EndTime(p) <= k.end
    PROVE  IsFiniteSet(K) /\ Cardinality(K) <= Cardinality(NoOlderThan(p, storage'))
<1> DEFINE N == NoOlderThan(p, storage')
           pageOf == [k \in K |-> CHOOSE q \in storage' : q.level = p.level /\ Summary(q) = k]
<1>1. \A k \in K : \E q \in storage' : q.level = p.level /\ Summary(q) = k
  BY DEF Summaries
<1>2. \A k \in K : /\ pageOf[k] \in storage' /\ pageOf[k].level = p.level
                   /\ Summary(pageOf[k]) = k
  BY <1>1
<1> HIDE DEF pageOf
<1>3. \A k \in K : EndTime(pageOf[k]) = k.end
  BY <1>2 DEF Summary
<1>4. \A k \in K : pageOf[k] \in N
  BY <1>2, <1>3 DEF NoOlderThan
<1>5. pageOf \in Injection(K, N)
  <2>1. pageOf \in [K -> N]
    BY <1>4 DEF pageOf
  <2>2. \A j, k \in K : pageOf[j] = pageOf[k] => j = k
    BY <1>2
  <2> QED
    BY <2>1, <2>2 DEF Injection, IsInjective
<1>6. IsFiniteSet(N)
  BY FS_Subset DEF NoOlderThan
<1> QED
  BY <1>5, <1>6, FS_Injection

(* So each page that goes is one its level's policy lets go. *)
LEMMA DeletedRightly ==
    ASSUME RInv, GInv, KeptLevelSpared, DoomedOK, IsFiniteSet(storage), DeletePage,
           NEW p \in storage, Gone(p)
    PROVE  DeletedByPolicy(p)
<1>1. /\ sweep # None /\ sweep.doomed # None /\ IsSweep(sweep)
      /\ NextDoomed \subseteq sweep.doomed
  BY DEF DeletePage, Sweeping, NextDoomed, RInv, SweepOK
<1>2. PICK s \in sweep.doomed : storage' = storage \ Stored(sweep.level, s.id)
  BY <1>1 DEF DeletePage
<1>3. p.level = sweep.level /\ p.id = s.id
  BY <1>2 DEF Gone, Stored
<1>4. RightlyDoomed(s) /\ s \in Summaries(p.level)
  BY <1>1, <1>3 DEF DoomedOK, RightlyDoomed
<1>5. s = Summary(p)
  <2>1. Summary(p) \in Summaries(p.level) /\ Summary(p).id = p.id
    BY DEF Summaries, Summary
  <2> QED
    BY <1>3, <1>4, <2>1, SummariesApart
<1>6. s.end = EndTime(p)
  BY <1>5 DEF Summary
<1> DEFINE policy == EffectivePolicy(p.level)
<1>7. IsPolicy(policy)
  BY <1>1, <1>3, EffectivePolicyIsPolicy DEF RInv, IsSweep
<1>8. policy.kind = "DeleteAfterSecs" =>
         policy.n > 0 /\ sweep.now - EndTime(p) > policy.n
  BY <1>3, <1>4, <1>6 DEF RightlyDoomed, Expired
<1>9. policy.kind = "KeepNPages" => Cardinality(NoOlderThan(p, storage')) >= policy.n
  <2> SUFFICES ASSUME policy.kind = "KeepNPages"
               PROVE  Cardinality(NoOlderThan(p, storage')) >= policy.n
    OBVIOUS
  <2>1. PICK K \in SUBSET (Summaries(p.level) \ sweep.doomed) :
           Cardinality(K) = policy.n /\ \A k \in K : EndTime(p) <= k.end
    BY <1>3, <1>4, <1>6 DEF RightlyDoomed
  <2>2. Summaries(p.level) \ {s} \subseteq Summaries(p.level)'
    BY <1>2, <1>3, <1>4, DeletionSpares
  <2>3. IsFiniteSet(storage')
    BY <1>2, FS_Difference
  <2>4. Cardinality(K) <= Cardinality(NoOlderThan(p, storage'))
    BY <2>1, <2>2, <2>3, SparedAreNewer
  <2>5. IsFiniteSet(NoOlderThan(p, storage'))
    BY <2>3, FS_Subset DEF NoOlderThan
  <2>6. Cardinality(NoOlderThan(p, storage')) \in Nat /\ policy.n \in Nat
    BY <1>7, <2>5, FS_CardinalityType DEF IsPolicy
  <2> QED
    BY <2>1, <2>4, <2>6
<1>10. policy.kind # "KeepIndefinitely"
  BY <1>1, <1>2, <1>3 DEF KeptLevelSpared
<1>11. CASE policy.kind = "DeleteAfterSecs"
  BY <1>8, <1>11 DEF DeletedByPolicy
<1>12. CASE policy.kind = "KeepNPages"
  BY <1>9, <1>12 DEF DeletedByPolicy
<1> QED
  BY <1>7, <1>10, <1>11, <1>12 DEF IsPolicy

(***************************************************************************)
(* A page leaves the store only by its own level's policy, judged by the   *)
(* page as it is when apply_retention_policies deletes it: it is older     *)
(* than the limit, or as many pages at least as recent remain as the       *)
(* policy keeps.  Calls of add_leaf come one at a time (Journal's mutex)   *)
(* and go on while a sweep waits for the storage: they store pages, write  *)
(* reopened ones again and give ids back.  A step after a restart is left  *)
(* out, as in the property.                                                *)
(***************************************************************************)
THEOREM RetentionDeletesByPolicy == RSpec /\ []Serial => OnlyPolicyDeletes
<1> DEFINE KInv == LInv /\ KeptLevelSpared /\ DInv
<1>1. RInit => KInv
  <2> SUFFICES ASSUME RInit PROVE KInv
    OBVIOUS
  <2>1. Init /\ sweep = None
    BY DEF RInit
  <2>2. GInv
    BY <2>1, QuietInit DEF QInv, Init
  <2>3. Around = {} /\ storage = {}
    BY <2>1 DEF Init, Around, HoldsPage
  <2> QED
    BY <2>1, <2>2, <2>3, ApartInit, FS_EmptySet
       DEF KeptLevelSpared, DInv, SameStart, DoomedOK
<1>2. RInv /\ KInv /\ Serial /\ Serial' /\ [RNext]_rvars => KInv'
  <2> SUFFICES ASSUME RInv, KInv, Serial, Serial', [RNext]_rvars PROVE KInv'
    OBVIOUS
  <2>1. LInv'
    <3>1. CASE Sweep
      BY <3>1, SweepApart
    <3>2. CASE [Next]_vars
      BY <3>2, ApartOK DEF RInv
    <3> QED
      BY <3>1, <3>2 DEF RNext, AddLeafStep, RestartAll, Next, rvars
  <2> QED
    BY <2>1, SparedOK, ReasonsOK
<1>3. RInv /\ KInv /\ [RNext]_rvars =>
        [restarts' = 0 => \A p \in storage : Gone(p) => DeletedByPolicy(p)]_rvars
  <2> SUFFICES ASSUME RInv, KInv, RNext, restarts' = 0, NEW p \in storage, Gone(p)
               PROVE  DeletedByPolicy(p)
    BY DEF rvars
  <2>1. CASE AddLeafStep
    BY <2>1, AddLeafKeepsNames
  <2>2. CASE DeletePage
    <3>1. restarts = 0
      BY <2>2 DEF DeletePage, worldVars
    <3> QED
      BY <2>2, <3>1, DeletedRightly DEF DInv
  <2>3. CASE RestartAll \/ BeginSweep \/ ListLevel \/ ListFails \/ DeleteFails \/ NextLevel
    BY <2>3 DEF RestartAll, Restart, BeginSweep, ListLevel, ListFails, DeleteFails,
       NextLevel, vars, managerVars, Gone
  <2> QED
    BY <2>1, <2>2, <2>3 DEF RNext, Sweep
<1> QED
  BY RetentionInv, <1>1, <1>2, <1>3, PTL DEF RSpec, OnlyPolicyDeletes
=============================================================================
