------------------------------- MODULE Merkle -------------------------------
(***************************************************************************)
(* The Merkle tree of a list of hashes: src/core/merkle.rs.                *)
(*                                                                         *)
(* A hash is a term: Digest(x) for what is hashed outside the tree, a pair *)
(* for an inner node (SHA-256 is taken as injective).                      *)
(***************************************************************************)
EXTENDS Integers, Sequences

Digest(x) == <<x>>

(* The next level; the last node of an odd level is paired with itself. *)
Paired(level) ==
    [i \in 1 .. (Len(level) + 1) \div 2 |->
        <<level[2 * i - 1], IF 2 * i <= Len(level) THEN level[2 * i] ELSE level[2 * i - 1]>>]

(* MerkleTree::nodes from the leaves up, as if the loop went on. *)
MerkleNodes(hashes) ==
    LET nodes[h \in 0 .. Len(hashes)] ==
            IF h = 0 THEN hashes ELSE Paired(nodes[h - 1])
    IN nodes

(* Where the loop ends: at the first level of one node. *)
Height(hashes) ==
    LET nodes == MerkleNodes(hashes)
    IN CHOOSE h \in 0 .. Len(hashes) :
          Len(nodes[h]) <= 1 /\ \A k \in 0 .. h - 1 : Len(nodes[k]) > 1

MerkleRoot(hashes) == MerkleNodes(hashes)[Height(hashes)][1]

(* Mutant: every sibling is taken for the one on the right. *)
SiblingOnRight(level, i) ==
    [hash |-> level[IF i % 2 = 0 THEN i - 1 ELSE IF i < Len(level) THEN i + 1 ELSE i],
     side |-> "Right"]

Sibling(level, i) ==
    IF i % 2 = 0 THEN [hash |-> level[i - 1], side |-> "Left"]
    ELSE [hash |-> level[IF i < Len(level) THEN i + 1 ELSE i], side |-> "Right"]

(* The node above the i-th leaf in every level, by its place in the level. *)
Ancestors(hashes, i) ==
    LET index[h \in 0 .. Len(hashes)] == IF h = 0 THEN i ELSE (index[h - 1] + 1) \div 2
    IN index

(* get_proof for the i-th leaf: the siblings on the way up. *)
MerkleProof(hashes, i) ==
    [h \in 1 .. Height(hashes) |->
        Sibling(MerkleNodes(hashes)[h - 1], Ancestors(hashes, i)[h - 1])]

(* A hash and the one beside it, in their order. *)
Joined(hash, step) ==
    IF step.side = "Left" THEN <<step.hash, hash>> ELSE <<hash, step.hash>>

(* The hashes verify_merkle_proof computes on its way through the proof. *)
Climb(hash, proof) ==
    LET current[h \in 0 .. Len(proof)] ==
            IF h = 0 THEN hash ELSE Joined(current[h - 1], proof[h])
    IN current

(* verify_merkle_proof *)
ProofVerifies(hash, proof, root) == Climb(hash, proof)[Len(proof)] = root
=============================================================================
