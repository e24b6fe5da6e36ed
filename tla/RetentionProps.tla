--------------------------- MODULE RetentionProps ---------------------------
(* What retention promises while leaves are being added. *)
EXTENDS Retention, TimeManagerProps

(* Type invariant, of the pages and calls under sweeps as well. *)
IsSweep(s) ==
    /\ s = [now |-> s.now, level |-> s.level, doomed |-> s.doomed]
    /\ s.now \in Clock
    /\ s.level \in Levels
    /\ s.doomed # None => \A d \in s.doomed : d.id \in Nat /\ d.end \in Nat

RetentionTypeOK ==
    /\ TypeOK
    /\ retention \in RetentionConfigs
    /\ sweep # None => IsSweep(sweep)
    /\ sweeps \in 0 .. MaxSweeps
    /\ sweepFailures \in 0 .. MaxSweepFailures

(***************************************************************************)
(* The names of the pages: a page that is rewritten is not gone.           *)
(***************************************************************************)
Gone(p) == \A q \in storage' : q.level # p.level \/ q.id # p.id

NoOlderThan(p, pages) ==
    {q \in pages : q.level = p.level /\ EndTime(q) >= EndTime(p)}

(***************************************************************************)
(* A page leaves the store only by its own level's policy, judged by the   *)
(* page as it is when it is deleted and not as it was when it was listed:  *)
(* it is older than the limit, or n pages of its level at least as recent  *)
(* remain.  Between the listing and the deletion add_leaf stores pages,    *)
(* rewrites reopened ones and gives ids back.  A restart is left out: the  *)
(* ids it hands out again name other pages.                                *)
(***************************************************************************)
DeletedByPolicy(p) ==
    LET policy == EffectivePolicy(p.level)
    IN CASE policy.kind = "KeepIndefinitely" -> FALSE
         [] policy.kind = "DeleteAfterSecs" ->
              policy.n > 0 /\ sweep.now - EndTime(p) > policy.n
         [] policy.kind = "KeepNPages" ->
              Cardinality(NoOlderThan(p, storage')) >= policy.n

OnlyPolicyDeletes ==
    [][restarts' = 0 => \A p \in storage : Gone(p) => DeletedByPolicy(p)]_rvars

(***************************************************************************)
(* A level that keeps its pages indefinitely loses none, not even to       *)
(* overlapping calls and restarts: pages are only ever rewritten there.    *)
(***************************************************************************)
KeptLevelsStay ==
    [][\A p \in storage :
          EffectivePolicy(p.level).kind = "KeepIndefinitely" => ~Gone(p)]_rvars

(***************************************************************************)
(* Where leaf pages are kept for good, an accepted leaf stays in its page, *)
(* whatever is deleted above it, also when a parent is deleted in the      *)
(* middle of the rollup that has just stored it.                           *)
(***************************************************************************)
KeptLeavesHeldOnce == retention.policy[0] = Keep => AcceptedLeafHeldOnce

(***************************************************************************)
(* Deletion by age takes pages away at the old end only: between sweeps, a *)
(* stored page either follows an older stored page or is the oldest one of *)
(* its level, although the page a new one should link to may have been     *)
(* deleted before or while the link was made.                              *)
(***************************************************************************)
Follows(p, q) == Hash(q) = p.prev /\ q.id < p.id

DeletesOldEnd ==
    sweep = None /\ sweepFailures = 0 /\ Undisturbed =>
        \A l \in Levels : EffectivePolicy(l).kind = "DeleteAfterSecs" =>
            \A p \in StoredAt(l) :
                \/ \E q \in StoredAt(l) : Follows(p, q)
                \/ \A q \in StoredAt(l) : p.id <= q.id
=============================================================================
