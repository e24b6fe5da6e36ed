--------------------------- MODULE MCTimeManager ---------------------------
(* TimeManager on small hierarchies: constants for the configurations. *)
EXTENDS TimeManagerProps

(* Three levels whose windows nest, two items a page. *)
MCDuration == [l \in 0 .. 2 |-> 2 ^ (l + 1)]
MCMaxItems == [l \in 0 .. 2 |-> 2]
MCThreeLeaves == [l \in 0 .. 2 |-> IF l = 0 THEN 3 ELSE 2]

(* No age trigger for leaves; a parent ages with its window. *)
MCAgeOfWindow == [l \in 0 .. 2 |-> IF l = 0 THEN 0 ELSE 2 ^ (l + 1)]

MCHashes == [l \in 0 .. 2 |-> "ChildHashes"]

MCTimes == 0 .. 8

(***************************************************************************)
(* Every age trigger at work: leaf pages age after a second, level 1 pages *)
(* after half their window, so that a finalized page can be found again    *)
(* with space; level 2 keeps patches only and can stay empty.              *)
(***************************************************************************)
MCShortAges == [l \in 0 .. 2 |-> <<1, 2, 4>>[l + 1]]
MCMixedContent ==
    [l \in 0 .. 2 |-> <<"ChildHashes", "ChildHashesAndNetPatches", "NetPatches">>[l + 1]]

MCShortTimes == 0 .. 5

(* Three leaf windows, two of them in one window of level 1. *)
MCRestartTimes == {0, 2, 4}

(* Two levels, for calls that overlap. *)
MCDuration2 == [l \in 0 .. 1 |-> 2 ^ (l + 1)]
MCMaxItems2 == [l \in 0 .. 1 |-> 2]
MCAges2 == [l \in 0 .. 1 |-> <<1, 4>>[l + 1]]
MCHashes2 == [l \in 0 .. 1 |-> "ChildHashes"]
MCTimes2 == {0, 2, 3}

AppenderSymmetry == Permutations(Appenders)
=============================================================================
