----------------------------- MODULE Retention -----------------------------
(***************************************************************************)
(* TimeHierarchyManager::apply_retention_policies, run while leaves are    *)
(* added: TimeManager with a sweep that lists the stored pages of one      *)
(* level after the other and deletes what the level's policy names.        *)
(*                                                                         *)
(* A sweep holds no lock.  Its steps end where it awaits the storage: one  *)
(* for a listing, one for every deletion.  Sweeps follow each other.       *)
(***************************************************************************)
EXTENDS TimeManager

CONSTANTS
    RetentionConfigs,  \* retention sections and level policies to choose from
    Clock,             \* what Utc::now() may be when a sweep starts
    MaxSweeps,         \* bound: calls of apply_retention_policies
    MaxSweepFailures   \* bound: listings and deletions that fail

Keep == [kind |-> "KeepIndefinitely", n |-> 0]

DeleteAfterSecs(n) == [kind |-> "DeleteAfterSecs", n |-> n]

KeepNPages(n) == [kind |-> "KeepNPages", n |-> n]

IsPolicy(p) ==
    /\ p.kind \in {"KeepIndefinitely", "DeleteAfterSecs", "KeepNPages"}
    /\ p.n \in Nat

ASSUME RetentionAssumption ==
    /\ \A c \in RetentionConfigs :
          /\ c.enabled \in BOOLEAN /\ c.period \in Nat
          /\ \A l \in Levels : c.policy[l] = None \/ IsPolicy(c.policy[l])
    /\ Clock \subseteq Nat
    /\ MaxSweeps \in Nat /\ MaxSweepFailures \in Nat

VARIABLES
    retention,      \* config.retention and the levels' retention_policy
    sweep,          \* the sweep going on: now, level, and the pages to delete
    sweeps, sweepFailures

sweepVars == <<retention, sweep, sweeps, sweepFailures>>
rvars     == <<vars, sweepVars>>

(* Mutant: the global section is looked at first. *)
GlobalPolicyFirst(level) ==
    IF retention.enabled THEN DeleteAfterSecs(retention.period)
    ELSE IF retention.policy[level] # None THEN retention.policy[level]
    ELSE Keep

EffectivePolicy(level) ==
    IF retention.policy[level] # None THEN retention.policy[level]
    ELSE IF retention.enabled THEN DeleteAfterSecs(retention.period)
    ELSE Keep

(* Older than the limit; a limit of 0 deletes nothing. *)
Expired(end, now, secs) == secs > 0 /\ end <= now /\ now - end > secs

Summary(p) == [id |-> p.id, end |-> EndTime(p)]

Summaries(level) == {Summary(p) : p \in {q \in storage : q.level = level}}

(* Mutant: sorted newest first. *)
Newest(listed, n) ==
    {D \in SUBSET listed :
        /\ Cardinality(D) = Cardinality(listed) - n
        /\ \A s \in D, t \in listed \ D : s.end >= t.end}

(* All but n, by end time; among equals the unstable sort decides. *)
Oldest(listed, n) ==
    {D \in SUBSET listed :
        /\ Cardinality(D) = Cardinality(listed) - n
        /\ \A s \in D, t \in listed \ D : s.end <= t.end}

(* Mutant: the period of the global section on every level. *)
GloballyDoomed(level, now) ==
    {{s \in Summaries(level) : Expired(s.end, now, retention.period)}}

(* The sets of pages a level's policy may name. *)
Doomed(level, now) ==
    LET policy == EffectivePolicy(level)
        listed == Summaries(level)
    IN CASE policy.kind = "KeepIndefinitely" -> {{}}
         [] policy.kind = "DeleteAfterSecs" ->
              {{s \in listed : Expired(s.end, now, policy.n)}}
         [] policy.kind = "KeepNPages" ->
              IF Cardinality(listed) <= policy.n THEN {{}}
              ELSE Oldest(listed, policy.n)

----------------------------------------------------------------------------
RInit ==
    /\ Init
    /\ retention \in RetentionConfigs
    /\ sweep = None
    /\ sweeps = 0
    /\ sweepFailures = 0

BeginSweep ==
    /\ sweep = None
    /\ sweeps < MaxSweeps
    /\ \E now \in Clock :
          sweep' = [now |-> now, level |-> 0, doomed |-> None]
    /\ sweeps' = sweeps + 1
    /\ UNCHANGED <<vars, retention, sweepFailures>>

Sweeping == sweep # None

ListLevel ==
    /\ Sweeping /\ sweep.doomed = None
    /\ \E D \in Doomed(sweep.level, sweep.now) : sweep' = [sweep EXCEPT !.doomed = D]
    /\ UNCHANGED <<vars, retention, sweeps, sweepFailures>>

(* A level that deletes nothing is not listed. *)
Lists(policy) ==
    \/ policy.kind = "KeepNPages"
    \/ policy.kind = "DeleteAfterSecs" /\ policy.n > 0

(* The listing fails: the level is skipped. *)
ListFails ==
    /\ Sweeping /\ sweep.doomed = None
    /\ Lists(EffectivePolicy(sweep.level))
    /\ sweepFailures < MaxSweepFailures
    /\ sweepFailures' = sweepFailures + 1
    /\ sweep' = [sweep EXCEPT !.doomed = {}]
    /\ UNCHANGED <<vars, retention, sweeps>>

(***************************************************************************)
(* Which page is next: KeepNPages has sorted them by end time, otherwise   *)
(* they come as listed, in the order of the directory for FileStorage.     *)
(***************************************************************************)
NextDoomed ==
    {s \in sweep.doomed :
        EffectivePolicy(sweep.level).kind = "KeepNPages" =>
            \A t \in sweep.doomed : s.end <= t.end}

DeletePage ==
    /\ Sweeping /\ sweep.doomed # None
    /\ \E s \in NextDoomed :
          /\ storage' = storage \ Stored(sweep.level, s.id)
          /\ sweep' = [sweep EXCEPT !.doomed = @ \ {s}]
    /\ UNCHANGED <<activePages, nextPageId, lastFinalized, callVars, worldVars,
                   retention, sweeps, sweepFailures>>

(* delete_page fails: the sweep goes on with the next page. *)
DeleteFails ==
    /\ Sweeping /\ sweep.doomed # None
    /\ sweepFailures < MaxSweepFailures
    /\ sweepFailures' = sweepFailures + 1
    /\ \E s \in NextDoomed : sweep' = [sweep EXCEPT !.doomed = @ \ {s}]
    /\ UNCHANGED <<vars, retention, sweeps>>

(* Mutant: one level too many. *)
NextLevelPastTop ==
    /\ Sweeping /\ sweep.doomed = {}
    /\ sweep' = IF sweep.level > Top THEN None
                ELSE [sweep EXCEPT !.level = @ + 1, !.doomed = None]
    /\ UNCHANGED <<vars, retention, sweeps, sweepFailures>>

NextLevel ==
    /\ Sweeping /\ sweep.doomed = {}
    /\ sweep' = IF sweep.level = Top THEN None
                ELSE [sweep EXCEPT !.level = @ + 1, !.doomed = None]
    /\ UNCHANGED <<vars, retention, sweeps, sweepFailures>>

Sweep ==
    \/ BeginSweep \/ ListLevel \/ ListFails
    \/ DeletePage \/ DeleteFails \/ NextLevel

RestartAll ==
    /\ Restart
    /\ sweep' = None
    /\ UNCHANGED <<retention, sweeps, sweepFailures>>

AddLeafStep ==
    /\ \E a \in Appenders : CallAddLeaf(a) \/ Step(a)
    /\ UNCHANGED sweepVars

RNext == AddLeafStep \/ Sweep \/ RestartAll

RSpec == RInit /\ [][RNext]_rvars
=============================================================================
