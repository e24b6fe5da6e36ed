--------------------------- MODULE MCFileStorage ---------------------------
(* FileStorage with a page of level 0 and one of level 1. *)
EXTENDS FileStorage, TLC

MCKeys == {<<0, 0>>, <<1, 0>>}

ContentSymmetry == Permutations(Contents)

MCSettings ==
    {[enabled |-> TRUE, algorithm |-> "Zstd"], [enabled |-> FALSE, algorithm |-> "Zstd"]}
=============================================================================
