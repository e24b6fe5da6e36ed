---------------------------- MODULE MCRetention ----------------------------
(* Retention on a two-level hierarchy: constants for the configuration. *)
EXTENDS RetentionProps

MCDuration == [l \in 0 .. 1 |-> 2 ^ (l + 1)]
MCMaxItems == [l \in 0 .. 1 |-> 2]
MCAgeOfWindow == [l \in 0 .. 1 |-> IF l = 0 THEN 0 ELSE 4]
MCHashes == [l \in 0 .. 1 |-> "ChildHashes"]
MCTimes == {0, 3, 4, 8}

(***************************************************************************)
(* Leaves kept although the global section deletes by age; the newest page *)
(* of each level; everything by age; all leaf pages at once.               *)
(***************************************************************************)
MCConfig(enabled, l0, l1) ==
    [enabled |-> enabled, period |-> 1, policy |-> [l \in 0 .. 1 |-> <<l0, l1>>[l + 1]]]

MCConfigs ==
    {MCConfig(TRUE, Keep, None), MCConfig(FALSE, KeepNPages(1), KeepNPages(1)),
     MCConfig(TRUE, None, DeleteAfterSecs(0)), MCConfig(TRUE, KeepNPages(0), None),
     MCConfig(TRUE, None, None)}

MCClock == {5, 9}
=============================================================================
