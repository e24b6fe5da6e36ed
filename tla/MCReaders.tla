----------------------------- MODULE MCReaders -----------------------------
(* Readers on a two-level hierarchy: constants for the configurations. *)
EXTENDS ReadersProps

MCDuration == [l \in 0 .. 1 |-> 2 * 2 ^ (l + 1) - 2]
MCMaxItems == [l \in 0 .. 1 |-> 2]
MCAgeOfWindow == [l \in 0 .. 1 |-> IF l = 0 THEN 0 ELSE 6]
MCHashes == [l \in 0 .. 1 |-> "ChildHashes"]
MCTimes == {0, 1, 2}

(* Two fields of one container. *)
MCContainerOf == [o \in Objects |-> "c"]

MCProof(api, id, hint) ==
    [api |-> api, kind |-> "proof", leaf |-> id, hint |-> hint]

MCState(api, to) == [api |-> api, kind |-> "state", of |-> "c", from |-> 0, to |-> to]

MCReport(api, from, to, offset, limit) ==
    [api |-> api, kind |-> "report", of |-> "c", from |-> from, to |-> to,
     offset |-> offset, limit |-> limit]

MCQueries ==
    {MCProof("async", id, hint) : id \in {1, 2}, hint \in {None, [level |-> 0, id |-> 0]}}
    \cup {MCState("async", to) : to \in {0, 2}}
    \cup {MCReport("async", 1, 2, 0, None), MCReport("async", 0, 2, 1, 2),
          MCReport("async", 2, 1, 0, None), MCReport("async", 0, 1, 0, 0)}
    \cup {MCProof("sync", 1, None), MCState("sync", 2), MCReport("sync", 0, 2, 0, None)}

(***************************************************************************)
(* For snapshots and integrity checks: leaf pages of one second, and       *)
(* patches alone above them, in windows of four.                           *)
(***************************************************************************)
MCShortDuration == [l \in 0 .. 1 |-> IF l = 0 THEN 1 ELSE 4]
MCTwoItems == [l \in 0 .. 1 |-> 2]
MCShortAge == [l \in 0 .. 1 |-> IF l = 0 THEN 0 ELSE 4]
MCPatches == [l \in 0 .. 1 |-> IF l = 0 THEN "ChildHashes" ELSE "NetPatches"]
MCShortTimes == {0, 2, 5}

(* With a leaf dated exactly at the end of the first page of patches. *)
MCEdgeTimes == {0, 2, 4, 5}

MCWholeQueries ==
    {[api |-> api, kind |-> "integrity", level |-> l, from |-> None, to |-> None] :
        api \in {"async", "sync"}, l \in 0 .. 1}
    \cup {[api |-> "async", kind |-> "snapshot", of |-> None, to |-> to] : to \in {2, 4, 5}}
=============================================================================
