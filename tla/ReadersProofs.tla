---------------------------- MODULE ReadersProofs ----------------------------
(***************************************************************************)
(* Theorems about Merkle trees (Merkle) and about readers (Readers): for   *)
(* every list of hashes, and for every configuration and workload.         *)
(***************************************************************************)
EXTENDS ReadersProps, LeafProofs

----------------------------------------------------------------------------
(***************************************************************************)
(* Merkle trees.  What MerkleNodes computes, level by level.               *)
(***************************************************************************)
NodesMade(nodes, hashes, n) ==
    \A h \in 0 .. n : nodes[h] = IF h = 0 THEN hashes ELSE Paired(nodes[h - 1])

LEMMA NodesExist ==
    ASSUME NEW hashes, NEW N \in Nat
    PROVE  \E nodes : nodes = [h \in 0 .. N |-> nodes[h]] /\ NodesMade(nodes, hashes, N)
<1> DEFINE T == {n \in Nat : \E nodes : /\ nodes = [h \in 0 .. n |-> nodes[h]]
                                         /\ NodesMade(nodes, hashes, n)}
<1>1. 0 \in T
  <2> DEFINE f == [h \in 0 .. 0 |-> hashes]
  <2>1. f = [h \in 0 .. 0 |-> f[h]] /\ NodesMade(f, hashes, 0)
    BY DEF NodesMade
  <2> QED
    BY <2>1
<1>2. ASSUME NEW n \in Nat, n \in T PROVE n + 1 \in T
  <2>1. PICK f : f = [h \in 0 .. n |-> f[h]] /\ NodesMade(f, hashes, n)
    BY <1>2
  <2> DEFINE next == Paired(f[n])
             g == [h \in 0 .. n + 1 |-> IF h = n + 1 THEN next ELSE f[h]]
  <2>2. g[n + 1] = next /\ \A h \in 0 .. n : g[h] = f[h]
    <3> HIDE DEF next
    <3> QED
      OBVIOUS
  <2>3. g = [h \in 0 .. n + 1 |-> g[h]]
    OBVIOUS
  <2> HIDE DEF g
  <2>4. NodesMade(g, hashes, n + 1)
    <3> SUFFICES ASSUME NEW h \in 0 .. n + 1
                 PROVE  g[h] = IF h = 0 THEN hashes ELSE Paired(g[h - 1])
      BY DEF NodesMade
    <3>1. CASE h = n + 1
      <4>1. h # 0 /\ h - 1 = n /\ n \in 0 .. n
        BY <3>1
      <4>2. g[h - 1] = f[n]
        BY <2>2, <4>1
      <4> QED
        BY <2>2, <3>1, <4>1, <4>2
    <3>2. CASE h # n + 1
      <4>1. h \in 0 .. n /\ (h # 0 => h - 1 \in 0 .. n)
        BY <3>2
      <4>2. f[h] = IF h = 0 THEN hashes ELSE Paired(f[h - 1])
        BY <2>1, <4>1 DEF NodesMade
      <4>3. g[h] = f[h] /\ (h # 0 => g[h - 1] = f[h - 1])
        BY <2>2, <4>1
      <4> QED
        BY <4>2, <4>3
    <3> QED
      BY <3>1, <3>2
  <2> QED
    BY <2>3, <2>4
<1>3. N \in T
  <2> HIDE DEF T
  <2> QED
    BY <1>1, <1>2, Induction
<1> QED
  BY <1>3

(* The first level is the list, each of the others is made of the one below. *)
LEMMA MerkleLevels ==
    ASSUME NEW hashes, IsList(hashes)
    PROVE  /\ MerkleNodes(hashes)[0] = hashes
           /\ \A h \in 1 .. Len(hashes) :
                 MerkleNodes(hashes)[h] = Paired(MerkleNodes(hashes)[h - 1])
<1> DEFINE N == Len(hashes)
           Made(f) == f = [h \in 0 .. N |-> IF h = 0 THEN hashes ELSE Paired(f[h - 1])]
           nodes == CHOOSE f : Made(f)
<1>1. N \in Nat
  BY DEF IsList
<1>2. Made(nodes)
  <2>1. PICK f : f = [h \in 0 .. N |-> f[h]] /\ NodesMade(f, hashes, N)
    BY <1>1, NodesExist
  <2>2. Made(f)
    BY <2>1 DEF NodesMade
  <2> QED
    BY <2>2
<1>3. MerkleNodes(hashes) = nodes
  BY DEF MerkleNodes
<1> HIDE DEF nodes
<1>4. nodes[0] = hashes /\ \A h \in 1 .. N : nodes[h] = Paired(nodes[h - 1])
  <2>1. 0 \in 0 .. N /\ \A h \in 1 .. N : h \in 0 .. N /\ h # 0
    BY <1>1
  <2> QED
    BY <1>2, <2>1
<1> QED
  BY <1>3, <1>4

(* Pairing halves a list, the odd one out paired with itself. *)
LEMMA PairedIs ==
    ASSUME NEW level, IsList(level)
    PROVE  /\ IsList(Paired(level))
           /\ Len(Paired(level)) = (Len(level) + 1) \div 2
           /\ \A j \in 1 .. (Len(level) + 1) \div 2 :
                 /\ 2 * j - 1 \in 1 .. Len(level)
                 /\ Paired(level)[j] = <<level[2 * j - 1],
                        IF 2 * j <= Len(level) THEN level[2 * j] ELSE level[2 * j - 1]>>
<1> DEFINE n == Len(level)
           half == (n + 1) \div 2
           p == Paired(level)
<1>1. n \in Nat /\ half \in Nat /\ 2 * half <= n + 1 /\ n <= 2 * half
  BY DEF IsList
<1>2. p = [j \in 1 .. half |->
             <<level[2 * j - 1], IF 2 * j <= n THEN level[2 * j] ELSE level[2 * j - 1]>>]
  BY DEF Paired
<1>3. \A j \in 1 .. half : 2 * j - 1 \in 1 .. n
  <2> HIDE DEF n, half
  <2> QED
    BY <1>1
<1> HIDE DEF p, n, half
<1>4. Len(p) = half /\ IsList(p)
  <2> DEFINE S == {p[j] : j \in 1 .. half}
  <2>1. p \in [1 .. half -> S]
    BY <1>2
  <2>2. p \in Seq(S) /\ Len(p) = half
    BY <1>1, <2>1
  <2> QED
    BY <2>2, SeqIsList
<1> QED
  BY <1>2, <1>3, <1>4 DEF p, n, half

(* No level is empty, and they get shorter until one node is left. *)
LevelLens(hashes, h) ==
    LET level == MerkleNodes(hashes)[h]
    IN /\ IsList(level)
       /\ Len(level) >= 1
       /\ Len(level) <= 1 \/ Len(level) + h <= Len(hashes)

LEMMA LevelsShrink ==
    ASSUME NEW hashes, IsList(hashes), Len(hashes) >= 1
    PROVE  \A h \in 0 .. Len(hashes) : LevelLens(hashes, h)
<1> DEFINE N == Len(hashes)
           T == {h \in Nat : h <= N => LevelLens(hashes, h)}
<1>0. N \in Nat
  BY DEF IsList
<1>1. 0 \in T
  BY MerkleLevels DEF LevelLens
<1>2. ASSUME NEW h \in Nat, h \in T PROVE h + 1 \in T
  <2> SUFFICES ASSUME h + 1 <= N PROVE LevelLens(hashes, h + 1)
    OBVIOUS
  <2> DEFINE level == MerkleNodes(hashes)[h]
             next == MerkleNodes(hashes)[h + 1]
  <2>1. LevelLens(hashes, h)
    BY <1>0, <1>2
  <2>2. h + 1 \in 1 .. N /\ (h + 1) - 1 = h
    BY <1>0
  <2>3. next = Paired(level)
    BY <2>2, MerkleLevels
  <2> HIDE DEF level, next
  <2>4. IsList(next) /\ Len(next) = (Len(level) + 1) \div 2
    BY <2>1, <2>3, PairedIs DEF LevelLens, level
  <2>5. /\ Len(level) \in Nat /\ Len(level) >= 1
        /\ Len(level) <= 1 \/ Len(level) + h <= N
    BY <2>1 DEF LevelLens, level, IsList
  <2>6. Len(next) >= 1 /\ (Len(next) <= 1 \/ Len(next) + h + 1 <= N)
    BY <1>0, <2>4, <2>5
  <2> QED
    BY <1>0, <2>4, <2>6 DEF LevelLens, next
<1>3. Nat \subseteq T
  <2> HIDE DEF T
  <2> QED
    BY <1>1, <1>2, Induction
<1> QED
  BY <1>0, <1>3

(* So the loop ends: Height is the first level of one node. *)
LEMMA HeightIs ==
    ASSUME NEW hashes, IsList(hashes), Len(hashes) >= 1
    PROVE  /\ Height(hashes) \in 0 .. Len(hashes)
           /\ Len(MerkleNodes(hashes)[Height(hashes)]) = 1
           /\ \A k \in 0 .. Height(hashes) - 1 : Len(MerkleNodes(hashes)[k]) > 1
<1> DEFINE N == Len(hashes)
           nodes == MerkleNodes(hashes)
           T == {h \in 0 .. N : Len(nodes[h]) <= 1}
<1>0. N \in Nat /\ \A h \in 0 .. N : LevelLens(hashes, h)
  BY LevelsShrink DEF IsList
<1>1. \A h \in 0 .. N : Len(nodes[h]) \in Nat /\ Len(nodes[h]) >= 1
  BY <1>0 DEF LevelLens, IsList
<1>2. N \in T
  BY <1>0, <1>1 DEF LevelLens
<1> HIDE DEF nodes
<1>3. PICK g \in T : \A m \in T : g <= m
  <2>1. T \subseteq Nat /\ T # {}
    BY <1>0, <1>2
  <2> HIDE DEF T
  <2> QED
    BY <2>1, LeastOf
<1>4. /\ g \in 0 .. N
      /\ Len(nodes[g]) <= 1 /\ \A k \in 0 .. g - 1 : Len(nodes[k]) > 1
  BY <1>0, <1>1, <1>3
<1>5. /\ Height(hashes) \in 0 .. N
      /\ Len(nodes[Height(hashes)]) <= 1
      /\ \A k \in 0 .. Height(hashes) - 1 : Len(nodes[k]) > 1
  BY <1>4 DEF Height, nodes
<1>6. \A h \in 0 .. N : Len(nodes[h]) <= 1 => Len(nodes[h]) = 1
  <2> SUFFICES ASSUME NEW h \in 0 .. N, Len(nodes[h]) <= 1
               PROVE  Len(nodes[h]) = 1
    OBVIOUS
  <2> DEFINE n == Len(nodes[h])
  <2>1. n \in Nat /\ n >= 1 /\ n <= 1
    BY <1>1
  <2> HIDE DEF n
  <2>2. n = 1
    BY <2>1
  <2> QED
    BY <2>2 DEF n
<1> QED
  BY <1>5, <1>6 DEF nodes

(* The place of the node above the i-th leaf is halved from level to level. *)
LEMMA AncestorsAre ==
    ASSUME NEW hashes, IsList(hashes), NEW i \in Nat
    PROVE  /\ Ancestors(hashes, i)[0] = i
           /\ \A h \in 1 .. Len(hashes) :
                 Ancestors(hashes, i)[h] = (Ancestors(hashes, i)[h - 1] + 1) \div 2
<1> DEFINE N == Len(hashes)
           Made(f) == f = [h \in 0 .. N |-> IF h = 0 THEN i ELSE (f[h - 1] + 1) \div 2]
           index == CHOOSE f : Made(f)
           step == [x \in (1 .. N) \X Nat |-> (x[2] + 1) \div 2]
<1>1. N \in Nat
  BY DEF IsList
<1>2. \A h \in 1 .. N : \A v \in Nat : step[<<h, v>>] = (v + 1) \div 2 /\ step[<<h, v>>] \in Nat
  OBVIOUS
<1> HIDE DEF step
<1>3. PICK f \in [0 .. N -> Nat] : MadeBy(f, i, step, N)
  <2>1. StaysIn(step, N, Nat)
    BY <1>2 DEF StaysIn
  <2> QED
    BY <1>1, <2>1, Recursion
<1>4. Made(f)
  <2>1. \A h \in 0 .. N : f[h] = IF h = 0 THEN i ELSE (f[h - 1] + 1) \div 2
    <3> SUFFICES ASSUME NEW h \in 0 .. N, h # 0 PROVE f[h] = (f[h - 1] + 1) \div 2
      BY <1>3 DEF MadeBy
    <3>1. h \in 1 .. N /\ h - 1 \in 0 .. N
      BY <1>1
    <3>2. f[h - 1] \in Nat /\ f[h] = step[<<h, f[h - 1]>>]
      BY <3>1, <1>3 DEF MadeBy
    <3> QED
      BY <1>2, <3>1, <3>2
  <2> QED
    BY <2>1
<1>5. Made(index)
  BY <1>4
<1>6. Ancestors(hashes, i) = index
  BY DEF Ancestors
<1> HIDE DEF index
<1>7. index[0] = i /\ \A h \in 1 .. N : index[h] = (index[h - 1] + 1) \div 2
  <2>1. 0 \in 0 .. N /\ \A h \in 1 .. N : h \in 0 .. N /\ h # 0
    BY <1>1
  <2> QED
    BY <1>5, <2>1
<1> QED
  BY <1>6, <1>7

(* A node joined with its sibling is the node above it. *)
LEMMA SiblingJoins ==
    ASSUME NEW level, IsList(level), NEW i \in 1 .. Len(level)
    PROVE  /\ (i + 1) \div 2 \in 1 .. Len(Paired(level))
           /\ Joined(level[i], Sibling(level, i)) = Paired(level)[(i + 1) \div 2]
<1> DEFINE n == Len(level)
           j == (i + 1) \div 2
<1>1. n \in Nat /\ i \in Nat /\ 1 <= i /\ i <= n
  BY DEF IsList
<1>2. j \in 1 .. (n + 1) \div 2
  BY <1>1
<1>3. /\ Len(Paired(level)) = (n + 1) \div 2
      /\ Paired(level)[j] = <<level[2 * j - 1],
                               IF 2 * j <= n THEN level[2 * j] ELSE level[2 * j - 1]>>
  BY <1>2, PairedIs
<1>4. CASE i % 2 = 0
  <2>1. 2 * j = i
    BY <1>1, <1>4
  <2>2. Joined(level[i], Sibling(level, i)) = <<level[i - 1], level[i]>>
    BY <1>4 DEF Joined, Sibling
  <2> HIDE DEF j
  <2>3. 2 * j - 1 = i - 1 /\ 2 * j <= n
    BY <1>1, <2>1
  <2> QED
    BY <1>2, <1>3, <2>1, <2>2, <2>3 DEF j
<1>5. CASE i % 2 # 0
  <2>1. 2 * j = i + 1
    BY <1>1, <1>5
  <2>2. Joined(level[i], Sibling(level, i)) = <<level[i], level[IF i < n THEN i + 1 ELSE i]>>
    BY <1>5 DEF Joined, Sibling
  <2> HIDE DEF j
  <2>3. 2 * j - 1 = i /\ (2 * j <= n <=> i < n)
    BY <1>1, <2>1
  <2>4. Paired(level)[j] = <<level[i], IF i < n THEN level[i + 1] ELSE level[i]>>
    BY <1>3, <2>1, <2>3
  <2> QED
    BY <1>2, <1>3, <2>2, <2>4 DEF j
<1> QED
  BY <1>4, <1>5

(***************************************************************************)
(* The hashes verify_merkle_proof computes on its way.                     *)
(***************************************************************************)
ClimbMade(f, hash, proof, n) ==
    \A k \in 0 .. n : f[k] = IF k = 0 THEN hash ELSE Joined(f[k - 1], proof[k])

LEMMA ClimbExists ==
    ASSUME NEW hash, NEW proof, NEW N \in Nat
    PROVE  \E f : f = [k \in 0 .. N |-> f[k]] /\ ClimbMade(f, hash, proof, N)
<1> DEFINE T == {n \in Nat : \E f : /\ f = [k \in 0 .. n |-> f[k]]
                                      /\ ClimbMade(f, hash, proof, n)}
<1>1. 0 \in T
  <2> DEFINE f == [k \in 0 .. 0 |-> hash]
  <2>1. f = [k \in 0 .. 0 |-> f[k]] /\ ClimbMade(f, hash, proof, 0)
    BY DEF ClimbMade
  <2> QED
    BY <2>1
<1>2. ASSUME NEW n \in Nat, n \in T PROVE n + 1 \in T
  <2>1. PICK f : f = [k \in 0 .. n |-> f[k]] /\ ClimbMade(f, hash, proof, n)
    BY <1>2
  <2> DEFINE next == Joined(f[n], proof[n + 1])
             g == [k \in 0 .. n + 1 |-> IF k = n + 1 THEN next ELSE f[k]]
  <2>2. g[n + 1] = next /\ \A k \in 0 .. n : g[k] = f[k]
    <3> HIDE DEF next
    <3> QED
      OBVIOUS
  <2>3. g = [k \in 0 .. n + 1 |-> g[k]]
    OBVIOUS
  <2> HIDE DEF g
  <2>4. ClimbMade(g, hash, proof, n + 1)
    <3> SUFFICES ASSUME NEW k \in 0 .. n + 1
                 PROVE  g[k] = IF k = 0 THEN hash ELSE Joined(g[k - 1], proof[k])
      BY DEF ClimbMade
    <3>1. CASE k = n + 1
      <4>1. k # 0 /\ k - 1 = n /\ n \in 0 .. n
        BY <3>1
      <4>2. g[k - 1] = f[n]
        BY <2>2, <4>1
      <4> QED
        BY <2>2, <3>1, <4>1, <4>2
    <3>2. CASE k # n + 1
      <4>1. k \in 0 .. n /\ (k # 0 => k - 1 \in 0 .. n)
        BY <3>2
      <4>2. f[k] = IF k = 0 THEN hash ELSE Joined(f[k - 1], proof[k])
        BY <2>1, <4>1 DEF ClimbMade
      <4>3. g[k] = f[k] /\ (k # 0 => g[k - 1] = f[k - 1])
        BY <2>2, <4>1
      <4> QED
        BY <4>2, <4>3
    <3> QED
      BY <3>1, <3>2
  <2> QED
    BY <2>3, <2>4
<1>3. N \in T
  <2> HIDE DEF T
  <2> QED
    BY <1>1, <1>2, Induction
<1> QED
  BY <1>3

LEMMA ClimbIs ==
    ASSUME NEW hash, NEW proof, Len(proof) \in Nat
    PROVE  /\ Climb(hash, proof)[0] = hash
           /\ \A k \in 1 .. Len(proof) :
                 Climb(hash, proof)[k] = Joined(Climb(hash, proof)[k - 1], proof[k])
<1> DEFINE N == Len(proof)
           Made(f) == f = [k \in 0 .. N |-> IF k = 0 THEN hash ELSE Joined(f[k - 1], proof[k])]
           current == CHOOSE f : Made(f)
<1>0. N \in Nat
  OBVIOUS
<1>1. Made(current)
  <2>1. PICK f : f = [k \in 0 .. N |-> f[k]] /\ ClimbMade(f, hash, proof, N)
    BY <1>0, ClimbExists
  <2>2. Made(f)
    BY <2>1 DEF ClimbMade
  <2> QED
    BY <2>2
<1>2. Climb(hash, proof) = current
  BY DEF Climb
<1> HIDE DEF current
<1>3. current[0] = hash /\ \A k \in 1 .. N : current[k] = Joined(current[k - 1], proof[k])
  <2>1. 0 \in 0 .. N /\ \A k \in 1 .. N : k \in 0 .. N /\ k # 0
    OBVIOUS
  <2> QED
    BY <1>1, <2>1
<1> QED
  BY <1>2, <1>3

(* The proof of the i-th leaf: one step for each level below the root. *)
LEMMA MerkleProofIs ==
    ASSUME NEW hashes, IsList(hashes), Len(hashes) >= 1, NEW i
    PROVE  /\ Len(MerkleProof(hashes, i)) = Height(hashes)
           /\ \A h \in 1 .. Height(hashes) :
                 MerkleProof(hashes, i)[h] =
                    Sibling(MerkleNodes(hashes)[h - 1], Ancestors(hashes, i)[h - 1])
<1> DEFINE H == Height(hashes)
           proof == MerkleProof(hashes, i)
           S == {proof[h] : h \in 1 .. H}
<1>1. H \in Nat
  BY HeightIs DEF IsList
<1>2. proof = [h \in 1 .. H |->
                 Sibling(MerkleNodes(hashes)[h - 1], Ancestors(hashes, i)[h - 1])]
  BY DEF MerkleProof
<1> HIDE DEF proof, H
<1>3. proof \in [1 .. H -> S]
  BY <1>2
<1>4. Len(proof) = H
  BY <1>1, <1>3
<1> QED
  BY <1>2, <1>4 DEF proof, H

(* On the way up, what is computed of the leaf are the nodes above it. *)
LEMMA ClimbFollowsNodes ==
    ASSUME NEW hashes, IsList(hashes), NEW i \in 1 .. Len(hashes)
    PROVE  \A h \in 0 .. Height(hashes) :
              /\ Ancestors(hashes, i)[h] \in 1 .. Len(MerkleNodes(hashes)[h])
              /\ Climb(hashes[i], MerkleProof(hashes, i))[h]
                    = MerkleNodes(hashes)[h][Ancestors(hashes, i)[h]]
<1> DEFINE N == Len(hashes)
           H == Height(hashes)
           nodes == MerkleNodes(hashes)
           index == Ancestors(hashes, i)
           proof == MerkleProof(hashes, i)
           hash == hashes[i]
           climb == Climb(hash, proof)
           Good(h) == /\ index[h] \in 1 .. Len(nodes[h])
                      /\ climb[h] = nodes[h][index[h]]
           T == {h \in Nat : h <= H => Good(h)}
<1>0. N \in Nat /\ N >= 1 /\ H \in 0 .. N /\ i \in Nat
  BY HeightIs DEF IsList
<1>1. nodes[0] = hashes /\ \A h \in 1 .. N : nodes[h] = Paired(nodes[h - 1])
  BY MerkleLevels
<1>2. index[0] = i /\ \A h \in 1 .. N : index[h] = (index[h - 1] + 1) \div 2
  BY <1>0, AncestorsAre
<1>3. Len(proof) = H /\ \A h \in 1 .. H : proof[h] = Sibling(nodes[h - 1], index[h - 1])
  BY <1>0, MerkleProofIs
<1>4. climb[0] = hash /\ \A h \in 1 .. H : climb[h] = Joined(climb[h - 1], proof[h])
  BY <1>0, <1>3, ClimbIs
<1>5. \A h \in 0 .. N : IsList(nodes[h])
  BY <1>0, LevelsShrink DEF LevelLens
<1> HIDE DEF nodes, index, proof, climb, H, N
<1>6. 0 \in T
  BY <1>0, <1>1, <1>2, <1>4 DEF N
<1>7. ASSUME NEW h \in Nat, h \in T PROVE h + 1 \in T
  <2> SUFFICES ASSUME h + 1 <= H PROVE Good(h + 1)
    OBVIOUS
  <2> DEFINE level == nodes[h]
             k == index[h]
  <2>1. h \in 0 .. N /\ h + 1 \in 1 .. N /\ h + 1 \in 1 .. H /\ (h + 1) - 1 = h
    BY <1>0
  <2>2. Good(h)
    BY <1>0, <1>7
  <2>3. IsList(level) /\ k \in 1 .. Len(level) /\ climb[h] = level[k]
    BY <1>5, <2>1, <2>2
  <2>4. /\ nodes[h + 1] = Paired(level)
        /\ index[h + 1] = (k + 1) \div 2
        /\ climb[h + 1] = Joined(climb[h], Sibling(level, k))
    BY <1>1, <1>2, <1>3, <1>4, <2>1
  <2> HIDE DEF level, k
  <2> QED
    BY <2>3, <2>4, SiblingJoins
<1>8. Nat \subseteq T
  <2> HIDE DEF T
  <2> QED
    BY <1>6, <1>7, Induction
<1>9. \A h \in 0 .. H : Good(h)
  BY <1>0, <1>8
<1> QED
  BY <1>9 DEF nodes, index, proof, climb, H

(* Two hashes that end in the same one along a proof are the same. *)
LEMMA ClimbInjective ==
    ASSUME NEW proof, Len(proof) \in Nat, NEW x, NEW y,
           Climb(x, proof)[Len(proof)] = Climb(y, proof)[Len(proof)]
    PROVE  x = y
<1> DEFINE N == Len(proof)
           f == Climb(x, proof)
           g == Climb(y, proof)
           T == {d \in Nat : d <= N => f[N - d] = g[N - d]}
<1>0. N \in Nat
  OBVIOUS
<1>1. /\ f[0] = x /\ \A k \in 1 .. N : f[k] = Joined(f[k - 1], proof[k])
      /\ g[0] = y /\ \A k \in 1 .. N : g[k] = Joined(g[k - 1], proof[k])
  BY ClimbIs
<1>2. \A u, v, step : Joined(u, step) = Joined(v, step) => u = v
  BY DEF Joined
<1>3. f[N] = g[N]
  OBVIOUS
<1> HIDE DEF f, g, N
<1>4. 0 \in T
  BY <1>0, <1>3
<1>5. ASSUME NEW d \in Nat, d \in T PROVE d + 1 \in T
  <2> SUFFICES ASSUME d + 1 <= N PROVE f[N - (d + 1)] = g[N - (d + 1)]
    OBVIOUS
  <2> DEFINE k == N - d
  <2>1. k \in 1 .. N /\ k - 1 = N - (d + 1)
    BY <1>0
  <2>2. f[k] = g[k]
    BY <1>0, <1>5
  <2> HIDE DEF k
  <2>3. f[k - 1] = g[k - 1]
    BY <1>1, <1>2, <2>1, <2>2
  <2> QED
    BY <2>1, <2>3
<1>6. N \in T
  <2> HIDE DEF T
  <2> QED
    BY <1>0, <1>4, <1>5, Induction
<1> QED
  BY <1>0, <1>1, <1>6

(***************************************************************************)
(* The proof get_proof makes of a leaf verifies against the root of the    *)
(* tree for that leaf and for no other: lists of any length, odd levels    *)
(* with their last node paired with itself included.                       *)
(***************************************************************************)
THEOREM MerkleProofExact ==
    ASSUME NEW hashes, IsList(hashes), NEW i \in 1 .. Len(hashes), NEW hash
    PROVE  ProofVerifies(hash, MerkleProof(hashes, i), MerkleRoot(hashes))
             <=> hash = hashes[i]
<1> DEFINE H == Height(hashes)
           proof == MerkleProof(hashes, i)
           top == MerkleNodes(hashes)[H]
<1>1. Len(hashes) \in Nat /\ Len(hashes) >= 1
  BY DEF IsList
<1>2. H \in Nat /\ H \in 0 .. H /\ Len(top) = 1 /\ Len(proof) = H
  BY <1>1, HeightIs, MerkleProofIs
<1>3. Climb(hashes[i], proof)[H] = MerkleRoot(hashes)
  <2>1. /\ Ancestors(hashes, i)[H] \in 1 .. Len(top)
        /\ Climb(hashes[i], proof)[H] = top[Ancestors(hashes, i)[H]]
    BY <1>2, ClimbFollowsNodes
  <2>2. Ancestors(hashes, i)[H] = 1
    BY <1>2, <2>1
  <2> QED
    BY <2>1, <2>2 DEF MerkleRoot
<1> HIDE DEF H, proof
<1>4. Climb(hash, proof)[H] = Climb(hashes[i], proof)[H] => hash = hashes[i]
  BY <1>2, ClimbInjective
<1>5. ProofVerifies(hash, proof, MerkleRoot(hashes))
        <=> Climb(hash, proof)[H] = MerkleRoot(hashes)
  BY <1>2 DEF ProofVerifies
<1> QED
  BY <1>3, <1>4, <1>5 DEF proof

(***************************************************************************)
(* Whoever made the proof: if it is as long as the tree is high and        *)
(* verifies against the root, the hash is one of the leaves.               *)
(***************************************************************************)
THEOREM MerkleProofSound ==
    ASSUME NEW hashes, IsList(hashes), Len(hashes) >= 1, NEW hash,
           NEW proof, Len(proof) = Height(hashes),
           ProofVerifies(hash, proof, MerkleRoot(hashes))
    PROVE  \E i \in 1 .. Len(hashes) : hash = hashes[i]
<1> DEFINE N == Len(hashes)
           H == Height(hashes)
           nodes == MerkleNodes(hashes)
           climb == Climb(hash, proof)
           Among(h) == \E k \in 1 .. Len(nodes[h]) : climb[h] = nodes[h][k]
           T == {d \in Nat : d <= H => Among(H - d)}
<1>0. N \in Nat /\ H \in 0 .. N /\ Len(nodes[H]) = 1
  BY HeightIs DEF IsList
<1>1. nodes[0] = hashes /\ \A h \in 1 .. N : nodes[h] = Paired(nodes[h - 1])
  BY MerkleLevels
<1>2. \A h \in 0 .. N : IsList(nodes[h])
  BY LevelsShrink DEF LevelLens
<1>3. climb[0] = hash /\ \A h \in 1 .. H : climb[h] = Joined(climb[h - 1], proof[h])
  BY <1>0, ClimbIs
<1>4. climb[H] = nodes[H][1]
  BY DEF ProofVerifies, MerkleRoot
<1> HIDE DEF nodes, climb, H, N
<1>5. 0 \in T
  <2>1. 1 \in 1 .. Len(nodes[H]) /\ H - 0 = H
    BY <1>0
  <2> QED
    BY <1>4, <2>1
<1>6. ASSUME NEW d \in Nat, d \in T PROVE d + 1 \in T
  <2> SUFFICES ASSUME d + 1 <= H PROVE Among(H - (d + 1))
    OBVIOUS
  <2> DEFINE h == H - d
             level == nodes[h - 1]
  <2>1. h \in 1 .. N /\ h \in 1 .. H /\ h - 1 \in 0 .. N /\ h - 1 = H - (d + 1)
    BY <1>0
  <2>2. PICK k \in 1 .. Len(nodes[h]) : climb[h] = nodes[h][k]
    BY <1>0, <1>6
  <2> HIDE DEF h
  <2>3. IsList(level) /\ nodes[h] = Paired(level) /\ climb[h] = Joined(climb[h - 1], proof[h])
    BY <1>1, <1>2, <1>3, <2>1
  <2> HIDE DEF level
  <2>4. /\ Len(level) \in Nat
        /\ k \in Nat /\ k >= 1 /\ k <= (Len(level) + 1) \div 2
        /\ 2 * k - 1 \in 1 .. Len(level)
        /\ climb[h] = <<level[2 * k - 1],
                        IF 2 * k <= Len(level) THEN level[2 * k] ELSE level[2 * k - 1]>>
    <3>1. Len(level) \in Nat
      BY <2>3 DEF IsList
    <3>2. k \in 1 .. (Len(level) + 1) \div 2
      BY <2>2, <2>3, PairedIs
    <3>3. 2 * k - 1 \in 1 .. Len(level)
      BY <2>3, <3>2, PairedIs
    <3>4. Paired(level)[k] = <<level[2 * k - 1],
             IF 2 * k <= Len(level) THEN level[2 * k] ELSE level[2 * k - 1]>>
      BY <2>3, <3>2, PairedIs
    <3> QED
      BY <2>2, <2>3, <3>1, <3>2, <3>3, <3>4
  <2>5. \/ climb[h - 1] = level[2 * k - 1]
        \/ 2 * k <= Len(level) /\ climb[h - 1] = level[2 * k]
    BY <2>3, <2>4 DEF Joined
  <2>6. 2 * k <= Len(level) => 2 * k \in 1 .. Len(level)
    BY <2>4
  <2>7. \E j \in 1 .. Len(level) : climb[h - 1] = level[j]
    BY <2>4, <2>5, <2>6
  <2> QED
    BY <2>1, <2>7 DEF level
<1>7. Nat \subseteq T
  <2> HIDE DEF T
  <2> QED
    BY <1>5, <1>6, Induction
<1>8. Among(0)
  <2>1. H \in Nat /\ H <= H /\ H - H = 0
    BY <1>0
  <2>2. H \in T
    BY <1>7, <2>1
  <2>3. H <= H => Among(H - H)
    BY <2>2
  <2> QED
    BY <2>1, <2>3
<1> QED
  BY <1>1, <1>3, <1>8
----------------------------------------------------------------------------
(***************************************************************************)
(* Leaves that are done with.  A leaf once stored is, with one call at a   *)
(* time, in no page that may still be written: so a page that has it and   *)
(* is in the store was in the store before, and never comes back to it.    *)
(***************************************************************************)
Ids(p) == {p.leaves[i].id : i \in DOMAIN p.leaves}

LEMMA IdsAreNumbers ==
    ASSUME NEW p, IsPage(p)
    PROVE  Ids(p) \subseteq Nat /\ \A leaf \in LeavesOf(p) : leaf \in Leaf /\ leaf.id \in Ids(p)
<1>1. \A i \in DOMAIN p.leaves : p.leaves[i] \in Leaf
  BY DEF IsPage
<1> QED
  BY <1>1 DEF Ids, LeavesOf, Leaf

LEMMA IdsOfAppend ==
    ASSUME NEW p, p.leaves \in Seq(Leaf), NEW q, NEW leaf,
           q.leaves = Append(p.leaves, leaf)
    PROVE  Ids(q) = Ids(p) \cup {leaf.id}
<1> DEFINE n == Len(p.leaves)
<1>1. IsList(p.leaves) /\ n \in Nat /\ DOMAIN p.leaves = 1 .. n
  BY SeqIsList
<1>2. /\ Len(q.leaves) = n + 1 /\ IsList(q.leaves) /\ q.leaves[n + 1] = leaf
      /\ \A i \in 1 .. n : q.leaves[i] = p.leaves[i]
  BY <1>1, AppendList
<1>3. DOMAIN q.leaves = 1 .. n + 1
  BY <1>2 DEF IsList
<1> HIDE DEF n
<1>4. \A i \in 1 .. n + 1 : i \in 1 .. n \/ i = n + 1
  BY <1>1
<1>5. n + 1 \in 1 .. n + 1 /\ \A i \in 1 .. n : i \in 1 .. n + 1
  BY <1>1
<1> QED
  BY <1>1, <1>2, <1>3, <1>4, <1>5 DEF Ids

(* No call will write the leaf again. *)
Apart(x) ==
    /\ x \in Nat /\ x < leafCount
    /\ \A a \in Appenders : Pending(a) => call[a].leaf.id # x
    /\ \A a \in Appenders : LeafPageInHand(a) /\ ~Tracking(a) => x \notin Ids(page[a])
    /\ (\A a \in Appenders : ~Tracking(a)) => \A p \in ActiveAt(0) : x \notin Ids(p)

StoredUnique == \A p, q \in storage : p.level = q.level /\ p.id = q.id => p = q

Leafless == \A p \in Around : p.level > 0 => p.leaves = <<>>

(* A page retired to make room for a new one was taken out of the map first. *)
RetiredFirst ==
    \A a \in Appenders :
        pc[a] \in {"store", "track"} /\ Depth(a) = 0 /\ call[a].after = "create" =>
            ActiveAt(0) = {}

StoredApart == \A p \in storage : \A x \in Ids(p) : Apart(x)

AInv == StoredUnique /\ Leafless /\ RetiredFirst /\ StoredApart

(* A page with the leaf in the store after a step was there before. *)
NotWritten(x) == \A p \in storage' : x \in Ids(p) => p \in storage

(* With one call going on, it is enough to look at that one. *)
LacksNow(a, x) ==
    /\ LeafPageInHand(a) /\ ~Tracking(a) => x \notin Ids(page[a])
    /\ ~Tracking(a) => \A p \in ActiveAt(0) : x \notin Ids(p)

LEMMA ApartOfOne ==
    ASSUME NEW a \in Appenders, Alone(a), NEW x
    PROVE  Apart(x) <=> /\ x \in Nat /\ x < leafCount
                        /\ Pending(a) => call[a].leaf.id # x
                        /\ LacksNow(a, x)
BY DEF Apart, LacksNow, Alone, Pending, LeafPageInHand, Tracking

LEMMA ApartAfter ==
    ASSUME NEW a \in Appenders, Alone(a)', NEW x, x \in Nat, x < leafCount',
           Pending(a)' => call'[a].leaf.id # x, LacksNow(a, x)'
    PROVE  Apart(x)'
BY DEF Apart, LacksNow, Alone, Pending, LeafPageInHand, Tracking

(* A step of the call keeps parents without leaves. *)
LEMMA LeaflessOK ==
    ASSUME IInv, HandsOK, Leafless, NEW a \in Appenders, Step(a)
    PROVE  Leafless'
<1>1. CASE AppendLeaf(a)
  <2>1. \A p \in Around' : p \in Around \/ p = page'[a]
    BY <1>1, AppendLeafEffect, AroundAfter, AroundParts DEF managerVars
  <2>2. page'[a].level = 0
    BY <1>1, AppendLeafEffect
  <2> QED
    BY <2>1, <2>2 DEF Leafless
<1>2. CASE ~AppendLeaf(a)
  BY <1>2, StepInherits DEF Inherits, Fresh, WasThere, Leafless
<1> QED
  BY <1>1, <1>2

LEMMA ApartStep ==
    ASSUME IInv, LInv, AInv, NEW a \in Appenders, Alone(a), Step(a)
    PROVE  AInv' /\ \A x : Apart(x) => Apart(x)' /\ NotWritten(x)
<1> USE DEF AInv
<1>1. /\ Mine(a) /\ Alone(a)' /\ Depth(a) \in Nat /\ Leafless'
      /\ pc[a] \in HoldsPage => IsPage(page[a]) /\ page[a].level = Depth(a)
                                /\ page[a] \in Around
      /\ pc[a] \in InAddLeaf => Depth(a) = 0
      /\ leafCount' = leafCount
      /\ \/ pc'[a] = "idle"
         \/ call'[a].leaf = call[a].leaf /\ (Pending(a)' => Pending(a))
  BY CallStepOK, OnlyHand, DepthOK, LeaflessOK, AroundParts, StepSameLeaf DEF SameLeaf, LInv
<1>2. \A x : Apart(x) => (Pending(a)' => call'[a].leaf.id # x)
  BY <1>1, ApartOfOne DEF Pending
(* What is left to be shown, for the call going on. *)
<1> DEFINE Retired == pc'[a] \in {"store", "track"} /\ Depth(a)' = 0
                        /\ call'[a].after = "create" => ActiveAt(0)' = {}
<1>3. ASSUME NEW x, Apart(x), LacksNow(a, x)' PROVE Apart(x)'
  <2>1. x \in Nat /\ x < leafCount'
    BY <1>1, <1>3 DEF Apart
  <2> QED
    BY <1>1, <1>2, <1>3, <2>1, ApartAfter
<1>4. ASSUME Retired PROVE RetiredFirst'
  BY <1>1, <1>4 DEF RetiredFirst, Alone
<1>5. ASSUME Retired, storage' = storage, \A x : Apart(x) => LacksNow(a, x)'
      PROVE  AInv' /\ \A x : Apart(x) => Apart(x)' /\ NotWritten(x)
  <2>1. \A x : Apart(x) => Apart(x)' /\ NotWritten(x)
    BY <1>3, <1>5 DEF NotWritten
  <2>2. StoredApart' /\ StoredUnique'
    BY <1>5, <2>1 DEF StoredApart, StoredUnique
  <2> QED
    BY <1>1, <1>4, <1>5, <2>1, <2>2
<1>6. \A p : p.leaves = <<>> => Ids(p) = {}
  BY DEF Ids
(* A step that brings no page with leaves from elsewhere. *)
<1>7. ASSUME Retired, storage' = storage, ~Tracking(a) \/ ActiveAt(0)' = {},
             ActiveAt(0)' \subseteq ActiveAt(0),
             LeafPageInHand(a)' => \/ ~Tracking(a) /\ page'[a] \in ActiveAt(0)
                                   \/ page'[a].leaves = <<>>
                                   \/ LeafPageInHand(a) /\ ~Tracking(a) /\ page'[a] = page[a]
      PROVE  AInv' /\ \A x : Apart(x) => Apart(x)' /\ NotWritten(x)
  <2>1. ASSUME NEW x, Apart(x) PROVE LacksNow(a, x)'
    <3>1. /\ LeafPageInHand(a) /\ ~Tracking(a) => x \notin Ids(page[a])
          /\ ~Tracking(a) => \A p \in ActiveAt(0) : x \notin Ids(p)
      BY <2>1, ApartOfOne DEF LacksNow
    <3> QED
      BY <1>6, <1>7, <3>1 DEF LacksNow
  <2> QED
    BY <1>5, <1>7, <2>1
<1>8. CASE TakeActivePage(a)
  BY <1>1, <1>7, <1>8, TakeEffect DEF managerVars, Tracking, ActiveAt
<1>9. CASE RetireActivePage(a)
  <2>1. /\ pc[a] = "take" /\ storage' = storage /\ activePages' = Without(0)
        /\ \/ page'[a] \in ActiveAt(0)
           \/ pc'[a] = "create"
    <3>2. PICK p \in ActiveAt(0) :
             IF IsContentEmpty(p) THEN Goto(a, "create") ELSE Hold(a, p)
      BY <1>9 DEF RetireActivePage
    <3>3. page'[a] \in ActiveAt(0) \/ pc'[a] = "create"
      BY <3>2 DEF Goto, Hold, IInv, TypeOK
    <3> QED
      BY <1>9, <3>3, RetireEffect
  <2>2. ActiveAt(0)' = {}
    BY <2>1 DEF ActiveAt, Without
  <2> QED
    BY <1>7, <2>1, <2>2 DEF Tracking, LeafPageInHand
<1>10. CASE FindNoActivePage(a)
  <2>1. pc[a] = "take" /\ pc'[a] = "create" /\ UNCHANGED managerVars
    BY <1>10 DEF FindNoActivePage, Goto, IInv, TypeOK
  <2> QED
    BY <1>7, <2>1 DEF managerVars, Tracking, ActiveAt, LeafPageInHand
<1>11. CASE CreatePage(a)
  BY <1>7, <1>11, CreateEffect DEF Tracking, ActiveAt
<1>12. CASE PreFinalize(a)
  BY <1>1, <1>7, <1>12, PreFinalizeEffect
     DEF managerVars, Tracking, ActiveAt, LeafPageInHand, InAddLeaf
<1>13. CASE AppendLeaf(a)
  <2>1. /\ pc[a] = "have" /\ pc'[a] \in {"store", "insert"} /\ Depth(a) = 0
        /\ page'[a].leaves = Append(page[a].leaves, call[a].leaf)
        /\ IsPage(page[a]) /\ call'[a].after = "done" /\ UNCHANGED managerVars
    BY <1>1, <1>13, AppendLeafEffect DEF InAddLeaf
  <2>2. Ids(page'[a]) = Ids(page[a]) \cup {call[a].leaf.id}
    <3>1. page[a].leaves \in Seq(Leaf)
      BY <2>1 DEF IsPage
    <3>2. page'[a].leaves = Append(page[a].leaves, call[a].leaf)
      BY <2>1
    <3> QED
      BY <3>1, <3>2, IdsOfAppend
  <2>3. ASSUME NEW x, Apart(x) PROVE LacksNow(a, x)'
    <3>1. /\ call[a].leaf.id # x /\ x \notin Ids(page[a])
          /\ \A p \in ActiveAt(0) : x \notin Ids(p)
      BY <2>1, <2>3, ApartOfOne DEF LacksNow, Pending, LeafPageInHand, Tracking
    <3> QED
      BY <2>1, <2>2, <3>1 DEF LacksNow, ActiveAt, managerVars
  <2> QED
    BY <1>5, <2>1, <2>3 DEF managerVars
<1>14. CASE KeepActivePage(a)
  <2>1. /\ pc[a] = "insert" /\ pc'[a] = "idle" /\ activePages' = WithActive(page[a])
        /\ storage' = storage
    BY <1>14, KeepActiveEffect, LeaveEffect
  <2>2. Depth(a) = 0 /\ page[a].level = 0
    BY <1>1, <2>1 DEF InAddLeaf, HoldsPage
  <2>3. ActiveAt(0)' = {page[a]}
    BY <2>1, <2>2 DEF ActiveAt, WithActive, Without
  <2>4. \A x : Apart(x) => LacksNow(a, x)'
    BY <2>1, <2>2, <2>3, ApartOfOne DEF LacksNow, LeafPageInHand, Tracking
  <2> QED
    BY <1>5, <2>1, <2>4
<1>15. CASE StorageFails(a) \/ ChildMissing(a)
  <2>1. /\ pc[a] \in {"store", "load", "create", "parent"} /\ pc'[a] = "idle"
        /\ UNCHANGED managerVars
    BY <1>15, StorageFailsEffect, ChildMissingEffect, LeaveEffect
  <2> QED
    BY <1>7, <2>1 DEF managerVars, Tracking, ActiveAt, LeafPageInHand
<1>16. CASE StorePage(a)
  <2>1. /\ pc[a] = "store" /\ pc'[a] = "track" /\ page' = page /\ call' = call
        /\ Depth(a)' = Depth(a) /\ activePages' = activePages
        /\ storage' = (storage \ Stored(page[a].level, page[a].id)) \cup {page[a]}
    BY <1>16, StoreEffect DEF Depth
  <2>2. page[a] \in Around /\ page[a].level = Depth(a) /\ ActiveAt(0)' = ActiveAt(0)
    BY <1>1, <2>1 DEF HoldsPage, ActiveAt
  <2>3. Retired
    BY <2>1, <2>2 DEF RetiredFirst
  <2>4. Depth(a) # 0 => Ids(page[a]) = {}
    BY <1>1, <1>6, <2>2 DEF Leafless
  <2>5. ASSUME NEW x, Apart(x) PROVE Apart(x)' /\ NotWritten(x)
    <3>1. x \notin Ids(page[a])
      BY <2>1, <2>4, <2>5, ApartOfOne DEF LacksNow, LeafPageInHand, Tracking
    <3>2. LacksNow(a, x)'
      BY <2>1, <2>2, <2>5, <3>1, ApartOfOne DEF LacksNow, Tracking
    <3> QED
      BY <1>3, <2>1, <2>5, <3>1, <3>2 DEF NotWritten, Stored
  <2>6. ASSUME NEW x \in Ids(page[a]) PROVE Apart(x)'
    <3>1. x < leafCount' /\ (Pending(a)' => call'[a].leaf.id # x)
      BY <1>1, <2>1, <2>2, <2>6 DEF LInv, FreshIds, PendingAway, Ids
    <3>2. x \in Nat
      BY <1>1, <2>1, <2>6, IdsAreNumbers DEF HoldsPage
    <3>3. Tracking(a)'
      BY <2>1, <2>4, <2>6 DEF Tracking
    <3> QED
      BY <1>1, <3>1, <3>2, <3>3, ApartAfter DEF LacksNow
  <2>7. StoredApart' /\ StoredUnique'
    <3>1. \A p \in storage' :
             \/ p = page[a]
             \/ p \in storage /\ ~(p.level = page[a].level /\ p.id = page[a].id)
      BY <2>1 DEF Stored
    <3> QED
      BY <2>5, <2>6, <3>1 DEF StoredApart, StoredUnique
  <2> QED
    BY <1>1, <1>4, <2>3, <2>5, <2>7
<1>17. CASE TrackFinalized(a)
  <2>1. /\ pc[a] = "track" /\ pc'[a] = "load" /\ storage' = storage
        /\ activePages' = IF Depth(a) = 0 /\ call[a].after # "create"
                          THEN Without(0) ELSE activePages
    BY <1>17, TrackEffect
  <2>2. Depth(a) = 0 => ActiveAt(0)' = {}
    BY <2>1 DEF RetiredFirst, ActiveAt, Without
  <2>3. ActiveAt(0)' \subseteq ActiveAt(0)
    BY <2>1 DEF ActiveAt, Without
  <2> QED
    BY <1>7, <2>1, <2>2, <2>3 DEF Tracking, LeafPageInHand
<1>18. CASE LoadChild(a) \/ ParentNotStale(a) \/ ReturnToParent(a)
  BY <1>7, <1>18, RollupRestsEffect DEF managerVars, Tracking, ActiveAt, LeafPageInHand
<1>19. CASE RetireStaleParent(a)
  <2>1. /\ pc[a] = "stale" /\ Depth(a) > 0 /\ Depth(a)' = Depth(a)
        /\ activePages' = Without(Depth(a)) /\ storage' = storage
    BY <1>19, RetireStaleEffect
  <2> QED
    BY <1>7, <2>1 DEF Tracking, ActiveAt, Without, LeafPageInHand
<1>20. CASE ReuseParent(a) \/ ReopenParent(a) \/ CreateParent(a)
  <2>1. /\ pc[a] = "parent" /\ pc'[a] = "settle" /\ UNCHANGED <<activePages, storage>>
    BY <1>20, ParentEffect DEF Obtained
  <2> QED
    BY <1>7, <2>1 DEF Tracking, ActiveAt, LeafPageInHand
<1>21. CASE DiscardParent(a) \/ FinalizeParent(a) \/ KeepParent(a)
  <2>1. /\ pc[a] = "settle" /\ page[a].level > 0 /\ Depth(a)' > 0 /\ storage' = storage
        /\ \/ activePages' = Without(page[a].level)
           \/ activePages' = WithActive(page[a])
    BY <1>21, SettleEffect
  <2> QED
    BY <1>7, <2>1 DEF Tracking, ActiveAt, Without, WithActive, LeafPageInHand
<1>22. CASE ReturnToAddLeaf(a)
  <2>1. /\ pc[a] = "return" /\ pc'[a] \in {"idle", "create", "take"}
        /\ UNCHANGED managerVars
    BY <1>22, ReturnEffect, LeaveEffect
  <2> QED
    BY <1>7, <2>1 DEF managerVars, Tracking, ActiveAt, LeafPageInHand
<1> QED
  BY <1>8, <1>9, <1>10, <1>11, <1>12, <1>13, <1>14, <1>15, <1>16, <1>17, <1>18, <1>19,
     <1>20, <1>21, <1>22 DEF Step

(* What goes on with the manager beside a reader. *)
LEMMA ReadsChangeNothing ==
    ASSUME Ask \/ ReadStep
    PROVE  UNCHANGED vars
BY DEF Ask, ReadStep, OnlyReads, List, ListActive, HoldActive, ActiveId, FindActiveInStore,
   ActiveLeaves, TryHint, LoadForProof, LoadLeaf, NoProof, LoadForState, StateRebuilt,
   LoadForReport, ReportDone, LoadForIntegrity, PeekActive, IntegrityDone, LoadForSnapshot,
   LevelRead, StoreSnapshot, StoreUnlinkedSnapshot, WriteSnapshot, ListFails, LoadFails,
   StoreSnapshotFails

LEMMA ManagerMoves ==
    ASSUME [DNext]_dvars
    PROVE  \/ UNCHANGED vars
           \/ \E a \in Appenders : CallAddLeaf(a) \/ Step(a)
           \/ Restart
           \/ /\ storage' \subseteq storage
              /\ UNCHANGED <<activePages, nextPageId, lastFinalized, callVars, worldVars>>
<1>1. DeletePage => /\ storage' \subseteq storage
                    /\ UNCHANGED <<activePages, nextPageId, lastFinalized, callVars, worldVars>>
  BY DEF DeletePage
<1>2. AddLeafStep => \E a \in Appenders : CallAddLeaf(a) \/ Step(a)
  BY DEF AddLeafStep
<1>3. RestartAll => Restart
  BY DEF RestartAll
<1>4. UNCHANGED dvars => UNCHANGED vars
  BY DEF dvars
<1> QED
  BY <1>1, <1>2, <1>3, <1>4, ReadsChangeNothing DEF DNext

LEMMA ManagerOK ==
    IInv /\ BInv /\ LInv /\ [DNext]_dvars => IInv' /\ BInv' /\ LInv'
<1>1. [Next]_vars => (IInv /\ BInv /\ LInv => IInv' /\ BInv' /\ LInv')
  BY StepOK, BoundsOK, ApartOK
<1> QED
  BY <1>1, ManagerMoves, ShrinkOK DEF Next

(* A new call, whose leaf is a new one. *)
LEMMA ApartCall ==
    ASSUME IInv, LInv, AInv, NEW a \in Appenders, Alone(a), CallAddLeaf(a)
    PROVE  AInv' /\ \A x : Apart(x) => Apart(x)' /\ NotWritten(x)
<1>1. /\ Mine(a) /\ pc[a] = "idle" /\ pc'[a] = "take" /\ page' = page /\ frames' = frames
      /\ activePages' = activePages /\ storage' = storage
  BY CallEffect DEF managerVars
<1>2. /\ leafCount \in Nat /\ leafCount' = leafCount + 1
      /\ call'[a].leaf.id = leafCount
  BY DEF CallAddLeaf, IInv, TypeOK, CountersTypeOK
<1>3. Around' = Around
  BY <1>1, AroundAfter DEF Around, Mine, HoldsPage
<1>4. Alone(a)'
  BY <1>1 DEF Alone, Mine
<1>5. ASSUME NEW x, Apart(x) PROVE Apart(x)'
  <2>1. x \in Nat /\ x < leafCount /\ LacksNow(a, x)
    BY <1>5, ApartOfOne
  <2>2. x < leafCount' /\ call'[a].leaf.id # x
    BY <1>2, <2>1
  <2>3. LacksNow(a, x)'
    BY <1>1, <2>1 DEF LacksNow, LeafPageInHand, Tracking, ActiveAt
  <2> QED
    BY <1>4, <2>1, <2>2, <2>3, ApartAfter
<1>6. RetiredFirst'
  BY <1>1, <1>4 DEF RetiredFirst, Alone
<1> QED
  BY <1>1, <1>3, <1>5, <1>6 DEF AInv, NotWritten, StoredUnique, Leafless, StoredApart

(* Nothing, a restart, or a page taken out of the store. *)
LEMMA ApartElsewhere ==
    ASSUME IInv, AInv,
           \/ UNCHANGED vars \/ Restart
           \/ /\ storage' \subseteq storage
              /\ UNCHANGED <<activePages, nextPageId, lastFinalized, callVars, worldVars>>
    PROVE  AInv' /\ \A x : Apart(x) => Apart(x)' /\ NotWritten(x)
<1>1. storage' \subseteq storage /\ leafCount' = leafCount
  BY DEF Restart, vars, managerVars, worldVars
<1>2. CASE Restart
  <2>1. activePages' = {} /\ \A a \in Appenders : pc'[a] = "idle"
    BY <1>2 DEF Restart
  <2>2. \A x : Apart(x) => Apart(x)'
    BY <1>1, <2>1 DEF Apart, Pending, LeafPageInHand, ActiveAt
  <2>3. Around' \subseteq Around
    BY <1>1, <2>1 DEF Around, HoldsPage
  <2>4. RetiredFirst'
    BY <2>1 DEF RetiredFirst
  <2> QED
    BY <1>1, <2>2, <2>3, <2>4 DEF AInv, NotWritten, StoredUnique, Leafless, StoredApart
<1>3. CASE ~Restart
  <2>1. UNCHANGED <<activePages, pc, call, page, frames>>
    BY <1>3 DEF vars, managerVars, callVars
  <2>2. \A x : Apart(x) => Apart(x)'
    BY <1>1, <2>1 DEF Apart, Pending, LeafPageInHand, Tracking, Depth, ActiveAt
  <2>3. Around' \subseteq Around
    BY <1>1, <2>1 DEF Around
  <2>4. RetiredFirst'
    BY <2>1 DEF AInv, RetiredFirst, Depth, ActiveAt
  <2> QED
    BY <1>1, <2>2, <2>3, <2>4 DEF AInv, NotWritten, StoredUnique, Leafless, StoredApart
<1> QED
  BY <1>2, <1>3

(* So, whatever happens, one call of add_leaf at a time. *)
LEMMA ApartGoesOn ==
    ASSUME IInv, LInv, AInv, Serial, Serial', [DNext]_dvars
    PROVE  AInv' /\ \A x : Apart(x) => Apart(x)' /\ NotWritten(x)
<1>1. CASE \E a \in Appenders : CallAddLeaf(a) \/ Step(a)
  <2>1. PICK a \in Appenders : CallAddLeaf(a) \/ Step(a)
    BY <1>1
  <2>2. Alone(a)
    BY <2>1, SerialAlone
  <2> QED
    BY <2>1, <2>2, ApartCall, ApartStep
<1> QED
  BY <1>1, ManagerMoves, ApartElsewhere

LEMMA ApartFromStart == DInit => IInv /\ BInv /\ LInv /\ AInv
<1> SUFFICES ASSUME DInit PROVE IInv /\ BInv /\ LInv /\ AInv
  OBVIOUS
<1>1. Init
  BY DEF DInit
<1>2. IInv /\ LInv
  BY <1>1, InitOK, ApartInit
<1>3. BInv /\ AInv
  BY <1>1 DEF Init, BInv, MapsBounded, HandBounded, HoldsPage, AInv, StoredUnique, Leafless,
     RetiredFirst, StoredApart, Around
<1> QED
  BY <1>2, <1>3

----------------------------------------------------------------------------
(***************************************************************************)
(* What a reader makes of the leaves of a page.                            *)
(***************************************************************************)

(* A set of one list, or of none, as one list. *)
LEMMA ListOfNone == SetToSeq({}) = <<>>
<1>1. Cardinality({}) = 0
  BY FS_EmptySet
<1>2. \A f \in [1 .. 0 -> {}] : f = <<>>
  OBVIOUS
<1>3. \E f \in [1 .. 0 -> {}] : IsInjective(f)
  <2> DEFINE f == [i \in 1 .. 0 |-> 0]
  <2>1. f \in [1 .. 0 -> {}] /\ IsInjective(f)
    BY DEF IsInjective
  <2> QED
    BY <2>1
<1>4. SetToSeq({}) \in [1 .. 0 -> {}]
  BY <1>1, <1>3 DEF SetToSeq
<1> QED
  BY <1>2, <1>4

LEMMA ListOfOne ==
    ASSUME NEW x
    PROVE  SetToSeq({x}) = <<x>>
<1>1. Cardinality({x}) = 1
  BY FS_Singleton
<1>2. \A f \in [1 .. 1 -> {x}] : f = <<x>>
  OBVIOUS
<1>3. \E f \in [1 .. 1 -> {x}] : IsInjective(f)
  <2> DEFINE f == [i \in 1 .. 1 |-> x]
  <2>1. f \in [1 .. 1 -> {x}] /\ IsInjective(f)
    BY DEF IsInjective
  <2> QED
    BY <2>1
<1>4. SetToSeq({x}) \in [1 .. 1 -> {x}]
  BY <1>1, <1>3 DEF SetToSeq
<1> QED
  BY <1>2, <1>4

LEMMA FlattenFound ==
    ASSUME NEW S, NEW found, found \subseteq Seq(S), \A m, n \in found : m = n
    PROVE  /\ FlattenSeq(SetToSeq(found)) \in Seq(S)
           /\ \A m \in found : FlattenSeq(SetToSeq(found)) = m
<1>1. CASE found = {}
  <2>1. <<>> \in Seq(S)
    OBVIOUS
  <2> QED
    BY <1>1, <2>1, ListOfNone, FlattenNothing
<1>2. CASE found # {}
  <2>1. PICK m \in Seq(S) : found = {m}
    BY <1>2
  <2>2. SetToSeq(found) = <<m>> /\ FlattenSeq(<<m>>) = m
    BY <2>1, ListOfOne, FlattenOne
  <2> QED
    BY <2>1, <2>2
<1> QED
  BY <1>1, <1>2

(* A list and one element more. *)
LEMMA AppendedSet ==
    ASSUME NEW S, NEW s \in Seq(S), NEW e
    PROVE  ToSet(Append(s, e)) = ToSet(s) \cup {e}
<1> DEFINE n == Len(s)
           t == Append(s, e)
<1>1. IsList(s) /\ n \in Nat /\ DOMAIN s = 1 .. n
  BY SeqIsList
<1>2. DOMAIN t = 1 .. n + 1 /\ t[n + 1] = e /\ \A i \in 1 .. n : t[i] = s[i]
  BY <1>1, AppendList
<1> HIDE DEF n, t
<1>3. \A i : i \in 1 .. n + 1 <=> i \in 1 .. n \/ i = n + 1
  BY <1>1
<1> QED
  BY <1>1, <1>2, <1>3 DEF ToSet, t

(* The leaves that are to be kept are those that are kept. *)
LEMMA OnlyKeeps ==
    ASSUME NEW leaves \in Seq(Leaf), NEW keep
    PROVE  /\ Only(leaves, keep) \in Seq(Leaf)
           /\ ToSet(Only(leaves, keep)) = ToSet(leaves) \cap keep
<1> DEFINE N == Len(leaves)
           V == Seq(Leaf)
           next(i, v) == IF leaves[i] \in keep THEN Append(v, leaves[i]) ELSE v
           step == [x \in (1 .. N) \X V |-> next(x[1], x[2])]
           body(f) == [n \in 0 .. N |-> IF n = 0 THEN <<>>
                                        ELSE IF leaves[n] \in keep
                                        THEN Append(f[n - 1], leaves[n]) ELSE f[n - 1]]
           kept == CHOOSE f : f = body(f)
<1>1. N \in Nat /\ leaves \in [1 .. N -> Leaf] /\ <<>> \in V
  OBVIOUS
<1>2. \A i \in 1 .. N : \A v \in V : step[<<i, v>>] = next(i, v) /\ next(i, v) \in V
  BY <1>1
<1>3. StaysIn(step, N, V)
  BY <1>2 DEF StaysIn
<1>4. PICK f \in [0 .. N -> V] : MadeBy(f, <<>>, step, N)
  <2> HIDE DEF step, V, N
  <2> QED
    BY <1>1, <1>3, Recursion
<1> HIDE DEF step
<1>5. f = body(f)
  <2>1. ASSUME NEW n \in 0 .. N PROVE f[n] = body(f)[n]
    <3>1. CASE n = 0
      BY <1>4, <3>1 DEF MadeBy
    <3>2. CASE n # 0
      <4>1. n \in 1 .. N /\ f[n - 1] \in V
        BY <1>4, <3>2
      <4>2. f[n] = next(n, f[n - 1])
        BY <1>2, <1>4, <4>1 DEF MadeBy
      <4> QED
        BY <3>2, <4>2
    <3> QED
      BY <3>1, <3>2
  <2> QED
    BY <2>1
<1>6. kept = body(kept)
  <2>1. \E g : g = body(g)
    BY <1>5
  <2> QED
    BY <2>1
<1>7. Only(leaves, keep) = kept[N]
  BY DEF Only
<1> HIDE DEF kept
<1>8. /\ kept[0] = <<>>
      /\ \A n \in 1 .. N : kept[n] = next(n, kept[n - 1])
  <2>1. \A n \in 0 .. N : kept[n] = body(kept)[n]
    BY <1>6
  <2> QED
    BY <1>1, <2>1
<1> DEFINE First(n) == {leaves[i] : i \in 1 .. n}
           T == {n \in Nat : n <= N => /\ kept[n] \in Seq(Leaf)
                                       /\ ToSet(kept[n]) = First(n) \cap keep}
<1>9. 0 \in T
  <2>1. First(0) = {} /\ ToSet(<<>>) = {} /\ <<>> \in Seq(Leaf)
    BY DEF ToSet
  <2> HIDE DEF First
  <2> QED
    BY <1>8, <2>1
<1>10. ASSUME NEW n \in Nat, n \in T PROVE n + 1 \in T
  <2> SUFFICES ASSUME n + 1 <= N
               PROVE  /\ kept[n + 1] \in Seq(Leaf)
                      /\ ToSet(kept[n + 1]) = First(n + 1) \cap keep
    OBVIOUS
  <2> DEFINE l == leaves[n + 1]
  <2>1. /\ kept[n] \in Seq(Leaf) /\ ToSet(kept[n]) = First(n) \cap keep
        /\ l \in Leaf /\ kept[n + 1] = IF l \in keep THEN Append(kept[n], l) ELSE kept[n]
    BY <1>1, <1>8, <1>10
  <2>2. First(n + 1) = First(n) \cup {l}
    <3>1. \A i : i \in 1 .. n + 1 <=> i \in 1 .. n \/ i = n + 1
      OBVIOUS
    <3> QED
      BY <3>1
  <2> HIDE DEF l, First
  <2>3. ToSet(Append(kept[n], l)) = ToSet(kept[n]) \cup {l}
    BY <2>1, AppendedSet
  <2> QED
    BY <2>1, <2>2, <2>3
<1>11. N \in T
  <2> HIDE DEF T
  <2> QED
    BY <1>1, <1>9, <1>10, Induction
<1>12. First(N) = ToSet(leaves)
  BY <1>1 DEF ToSet
<1> QED
  BY <1>1, <1>7, <1>11, <1>12

(* Of leaves up to a time, none is cut off that no later one comes before. *)
LEMMA UpToKeeps ==
    ASSUME NEW leaves \in Seq(Leaf), NEW to
    PROVE  /\ UpTo(leaves, to) \in Seq(Leaf)
           /\ \A i \in DOMAIN leaves :
                 (\A j \in 1 .. i : ~(leaves[j].ts > to)) => leaves[i] \in ToSet(UpTo(leaves, to))
<1> DEFINE n == Len(leaves)
           I == {i \in 1 .. n : leaves[i].ts > to}
           late == IF I # {} THEN Min(I) ELSE 0
<1>1. UpTo(leaves, to) = IF late = 0 THEN leaves ELSE SubSeq(leaves, 1, late - 1)
  BY DEF UpTo, SelectInSeq
<1>2. n \in Nat /\ DOMAIN leaves = 1 .. n
  OBVIOUS
<1>3. CASE I = {}
  BY <1>1, <1>2, <1>3 DEF ToSet
<1>4. CASE I # {}
  <2>1. I \subseteq Nat
    BY <1>2
  <2>2. \E x \in I : \A y \in I : x =< y
    BY <1>4, <2>1, LeastOf
  <2>3. late \in I /\ \A y \in I : late =< y
    BY <1>4, <2>2 DEF Min
  <2> HIDE DEF late
  <2>4. late \in 1 .. n /\ late - 1 \in 0 .. n
    BY <1>2, <2>3
  <2> DEFINE cut == SubSeq(leaves, 1, late - 1)
  <2>5. /\ cut \in Seq(Leaf) /\ DOMAIN cut = 1 .. late - 1
        /\ \A i \in 1 .. late - 1 : cut[i] = leaves[i]
    BY <1>2, <2>4
  <2>6. UpTo(leaves, to) = cut
    BY <1>1, <2>4
  <2>7. ASSUME NEW i \in 1 .. n, \A j \in 1 .. i : ~(leaves[j].ts > to)
        PROVE  i \in 1 .. late - 1
    <3>1. late \notin 1 .. i
      BY <2>3, <2>7
    <3> QED
      BY <1>2, <2>4, <3>1
  <2> HIDE DEF cut
  <2> QED
    BY <1>2, <2>5, <2>6, <2>7 DEF ToSet
<1> QED
  BY <1>3, <1>4

(* The leaves of a page a query is about, of a page in order of time. *)
LEMMA MatchesHas ==
    ASSUME NEW leaves \in Seq(Leaf), NEW q
    PROVE  /\ Matches(leaves, q) \in Seq(Leaf)
           /\ \A i \in DOMAIN leaves :
                 /\ leaves[i].ts >= q.from /\ Concerns(leaves[i], q.of)
                 /\ \A j \in 1 .. i : ~(leaves[j].ts > q.to)
                 => leaves[i] \in ToSet(Matches(leaves, q))
<1> DEFINE cut == UpTo(leaves, q.to)
           keep == {leaf \in ToSet(leaves) : leaf.ts >= q.from /\ Concerns(leaf, q.of)}
<1>1. /\ cut \in Seq(Leaf)
      /\ \A i \in DOMAIN leaves :
            (\A j \in 1 .. i : ~(leaves[j].ts > q.to)) => leaves[i] \in ToSet(cut)
  BY UpToKeeps
<1>2. Matches(leaves, q) = Only(cut, keep)
  BY DEF Matches
<1>3. \A i \in DOMAIN leaves : leaves[i] \in ToSet(leaves)
  BY DEF ToSet
<1>4. \A i \in DOMAIN leaves :
          leaves[i].ts >= q.from /\ Concerns(leaves[i], q.of) => leaves[i] \in keep
  BY <1>3
<1> HIDE DEF cut, keep
<1>5. Only(cut, keep) \in Seq(Leaf) /\ ToSet(Only(cut, keep)) = ToSet(cut) \cap keep
  BY <1>1, OnlyKeeps
<1> QED
  BY <1>1, <1>2, <1>4, <1>5

(* Sorting loses no leaf. *)
LEMMA ByTimeKeeps ==
    ASSUME NEW leaves \in Seq(Leaf)
    PROVE  ToSet(leaves) \subseteq ToSet(ByTime(leaves))
<1> DEFINE n == Len(leaves)
           R(i) == {j \in DOMAIN leaves : \/ leaves[j].ts < leaves[i].ts
                                          \/ leaves[j].ts = leaves[i].ts /\ j <= i}
           Rank(i) == Cardinality(R(i))
<1>1. /\ n \in Nat /\ DOMAIN leaves = 1 .. n
      /\ \A i \in 1 .. n : leaves[i].ts \in Nat
  <2>1. n \in Nat /\ DOMAIN leaves = 1 .. n /\ \A i \in 1 .. n : leaves[i] \in Leaf
    OBVIOUS
  <2>2. \A l \in Leaf : l.ts \in Nat
    BY DEF Leaf
  <2> QED
    BY <2>1, <2>2
<1>2. ByTime(leaves) = [k \in 1 .. n |-> leaves[CHOOSE i \in 1 .. n : Rank(i) = k]]
  BY <1>1 DEF ByTime
<1>3. IsFiniteSet(1 .. n) /\ Cardinality(1 .. n) = n
  BY <1>1, FS_Interval
<1>4. ASSUME NEW i \in 1 .. n
      PROVE  i \in R(i) /\ IsFiniteSet(R(i)) /\ Rank(i) \in 1 .. n
  <2>1. i \in R(i) /\ R(i) \subseteq 1 .. n
    BY <1>1
  <2> HIDE DEF R
  <2>2. IsFiniteSet(R(i)) /\ Rank(i) <= n
    BY <1>3, <2>1, FS_Subset
  <2>3. Rank(i) \in Nat /\ Rank(i) # 0
    BY <2>1, <2>2, FS_CardinalityType, FS_EmptySet
  <2> QED
    BY <1>1, <2>1, <2>2, <2>3
<1>5. ASSUME NEW i \in 1 .. n, NEW k \in 1 .. n,
             leaves[i].ts < leaves[k].ts \/ (leaves[i].ts = leaves[k].ts /\ i < k)
      PROVE  Rank(i) < Rank(k)
  <2>1. R(i) \subseteq R(k) \ {k}
    BY <1>1, <1>5
  <2>2. k \in R(k) /\ IsFiniteSet(R(k)) /\ Rank(k) \in 1 .. n /\ Rank(i) \in 1 .. n
    BY <1>4
  <2> HIDE DEF R
  <2>3. IsFiniteSet(R(k) \ {k}) /\ Cardinality(R(k) \ {k}) = Rank(k) - 1
    BY <2>2, FS_RemoveElement
  <2>4. Rank(i) <= Cardinality(R(k) \ {k})
    BY <2>1, <2>3, FS_Subset
  <2> QED
    BY <1>1, <2>2, <2>3, <2>4
<1>6. \A i \in 1 .. n : Rank(i) \in 1 .. n
  BY <1>4
<1>7. \A i, k \in 1 .. n : Rank(i) = Rank(k) => i = k
  <2> SUFFICES ASSUME NEW i \in 1 .. n, NEW k \in 1 .. n, Rank(i) = Rank(k), i # k
               PROVE  FALSE
    OBVIOUS
  <2> HIDE DEF Rank
  <2>1. Rank(i) \in Nat /\ Rank(k) \in Nat
    BY <1>1, <1>6
  <2>2. \/ leaves[i].ts < leaves[k].ts \/ (leaves[i].ts = leaves[k].ts /\ i < k)
        \/ leaves[k].ts < leaves[i].ts \/ (leaves[k].ts = leaves[i].ts /\ k < i)
    BY <1>1
  <2> QED
    BY <1>5, <2>1, <2>2
<1> HIDE DEF Rank
<1>8. ASSUME NEW i \in 1 .. n PROVE leaves[i] \in ToSet(ByTime(leaves))
  <2> DEFINE k == Rank(i)
             c == CHOOSE j \in 1 .. n : Rank(j) = k
  <2>1. c \in 1 .. n /\ Rank(c) = k
    OBVIOUS
  <2>2. c = i
    BY <1>7, <2>1
  <2>3. k \in 1 .. n
    BY <1>6
  <2> HIDE DEF k
  <2>4. ByTime(leaves)[k] = leaves[c] /\ DOMAIN ByTime(leaves) = 1 .. n
    BY <1>2, <2>3
  <2> QED
    BY <2>2, <2>3, <2>4 DEF ToSet
<1> QED
  BY <1>1, <1>8 DEF ToSet

----------------------------------------------------------------------------
(***************************************************************************)
(* The type invariant of a reader, inductively: with what it holds between *)
(* two steps, which depends on the query and on the step.                  *)
(***************************************************************************)
HeldOK(r) ==
    /\ r.at = "leaf" => r.query.kind = "proof" /\ IsPage(r.held)
    /\ r.at = "peek" => r.query.kind = "integrity" /\ IsSummary(r.held)
    /\ r.query.kind = "report" /\ r.held # None => IsPage(r.held)

IsReader(r) ==
    /\ r = [query |-> r.query, at |-> r.at, answer |-> r.answer, level |-> r.level,
            todo |-> r.todo, held |-> r.held, pages |-> r.pages, leaves |-> r.leaves,
            prev |-> r.prev, valid |-> r.valid, seen |-> r.seen]
    /\ "pages" \in DOMAIN r.seen
    /\ r.query \in Queries /\ r.at \in Steps
    /\ r.level \in Nat /\ (r.query.kind \in {"proof", "state", "report"} => r.level = 0)
    /\ \A s \in r.todo : IsSummary(s)
    /\ \A p \in r.pages : IsPage(p)
    /\ r.leaves \in Seq(Leaf)
    /\ ~r.answer.ok => r.answer.is \in QueryErrors \cup {"StorageError"}
    /\ HeldOK(r)

ReaderOK == reader # None => IsReader(reader)

ReadsOK ==
    /\ \A s \in snapshots : s.id \in Nat /\ (s.id < nextSnapshotId \/ restarts > 0)
    /\ nextSnapshotId \in Nat
    /\ queries \in 0 .. MaxQueries
    /\ readFailures \in 0 .. MaxFaults
    /\ IsFiniteSet(deleted) /\ \A p \in deleted : IsPage(p)

(* What a page is listed as. *)
LEMMA SummaryOfPage ==
    ASSUME NEW p, IsPage(p), NEW added \in BOOLEAN
    PROVE  /\ IsSummary(PageSummary(p, added))
           /\ IsSummary([PageSummary(p, added) EXCEPT !.start = 0])
BY DEF IsSummary, PageSummary, IsPage

LEMMA ListedOK ==
    ASSUME IInv, NEW level
    PROVE  /\ \A s \in Listing(level) : IsSummary(s) /\ IsSummary([s EXCEPT !.start = 0])
           /\ \A p \in ActiveSeen(level) : IsPage(p)
           /\ \A s \in ActiveSummary(level) : IsSummary(s)
<1>1. \A p \in storage \cup activePages : IsPage(p)
  BY DEF IInv, TypeOK, ManagerTypeOK
<1>2. \A p \in ActiveSeen(level) : p \in activePages
  BY DEF ActiveSeen, ActiveAt
<1> QED
  BY <1>1, <1>2, SummaryOfPage DEF Listing, ActiveSummary

(* Listing the store and asking for the active page. *)
LEMMA ListingOK ==
    ASSUME IInv, reader # None, IsReader(reader),
           List \/ ListActive \/ HoldActive \/ ActiveId \/ FindActiveInStore \/ ActiveLeaves
    PROVE  IsReader(reader')
<1>1. 0 \in Levels
  BY ConfigAssumption DEF Levels
<1>2. CASE List
  <2> DEFINE q == reader.query
             listed == {s \in Listing(reader.level) : q.kind = "snapshot" => s.start <= q.to}
             new == reader.todo \cup (IF q.kind = "proof"
                                      THEN {[s EXCEPT !.start = 0] : s \in listed}
                                      ELSE listed)
             at == IF q.kind \in {"proof", "snapshot"} THEN "load" ELSE "active"
  <2>1. reader' = [reader EXCEPT !.todo = new, !.at = at]
    BY <1>2 DEF List, Becomes
  <2>2. \A s \in listed : IsSummary(s) /\ IsSummary([s EXCEPT !.start = 0])
    BY ListedOK
  <2>3. \A s \in new : IsSummary(s)
    BY <2>2 DEF IsReader
  <2>4. at \in {"load", "active"}
    OBVIOUS
  <2> HIDE DEF new, at
  <2> QED
    BY <2>1, <2>3, <2>4 DEF IsReader, HeldOK, Steps
<1>3. CASE ListActive
  <2> DEFINE new == reader.todo \cup ActiveSummary(reader.level)
             at == IF reader.query.kind = "report" THEN "again" ELSE "load"
  <2>1. reader' = [reader EXCEPT !.todo = new, !.at = at]
    BY <1>3 DEF ListActive, Becomes
  <2>2. (\A s \in new : IsSummary(s)) /\ at \in {"load", "again"}
    BY ListedOK DEF IsReader
  <2> HIDE DEF new, at
  <2> QED
    BY <2>1, <2>2 DEF IsReader, HeldOK, Steps
<1>4. CASE HoldActive
  <2> DEFINE held == IF ActiveSeen(0) = {} THEN None ELSE CHOOSE p \in ActiveSeen(0) : TRUE
  <2>1. reader' = [reader EXCEPT !.held = held, !.at = "load"]
    BY <1>4 DEF HoldActive, Becomes
  <2>2. held # None => IsPage(held)
    BY ListedOK
  <2> HIDE DEF held
  <2> QED
    BY <2>1, <2>2 DEF IsReader, HeldOK, Steps
<1>5. CASE ActiveId
  <2> DEFINE new == reader.todo \cup (IF reader.query.kind = "state" THEN {}
                                      ELSE {[id |-> p.id, level |-> 0, start |-> 0,
                                             added |-> FALSE] : p \in ActiveSeen(0)})
             held == IF ActiveSeen(0) = {} THEN None
                     ELSE (CHOOSE p \in ActiveSeen(0) : TRUE).id
             at == IF reader.query.kind = "state" THEN "again" ELSE "list"
  <2>1. /\ reader' = [reader EXCEPT !.todo = new, !.held = held, !.at = at]
        /\ reader.query.kind \in {"proof", "state"}
    BY <1>5 DEF ActiveId, Becomes, At
  <2>2. \A p \in ActiveSeen(0) : p.id \in Nat
    BY ListedOK DEF IsPage
  <2>3. \A p \in ActiveSeen(0) :
            IsSummary([id |-> p.id, level |-> 0, start |-> 0, added |-> FALSE])
    BY <1>1, <2>2 DEF IsSummary
  <2>4. \A s \in new : IsSummary(s)
    BY <2>3 DEF IsReader
  <2>5. at \in {"list", "again"}
    OBVIOUS
  <2> HIDE DEF new, held, at
  <2> QED
    BY <2>1, <2>4, <2>5 DEF IsReader, HeldOK, Steps
<1>6. CASE FindActiveInStore
  <2> DEFINE new == reader.todo \cup (IF reader.held = None THEN {}
                                      ELSE {PageSummary(p, TRUE) :
                                               p \in Stored(0, reader.held)})
  <2>1. /\ reader' = [reader EXCEPT !.todo = new, !.at = "load"]
        /\ reader.query.kind = "state"
    BY <1>6 DEF FindActiveInStore, Becomes, At
  <2>2. \A p \in Stored(0, reader.held) : IsPage(p)
    BY DEF IInv, TypeOK, ManagerTypeOK, Stored
  <2>3. \A s \in new : IsSummary(s)
    BY <2>2, SummaryOfPage DEF IsReader
  <2> HIDE DEF new
  <2> QED
    BY <2>1, <2>3 DEF IsReader, HeldOK, Steps
<1>7. CASE ActiveLeaves
  <2> DEFINE leaves == IF ActiveSeen(0) = {} THEN <<>>
                       ELSE InTime((CHOOSE p \in ActiveSeen(0) : TRUE).leaves)
  <2>1. /\ reader' = [reader EXCEPT !.leaves = leaves, !.at = "store"]
        /\ reader.query.kind = "snapshot"
    BY <1>7 DEF ActiveLeaves, Becomes, At
  <2>2. leaves \in Seq(Leaf)
    <3>1. \A p \in ActiveSeen(0) : p.leaves \in Seq(Leaf)
      BY ListedOK DEF IsPage
    <3>2. \A p \in ActiveSeen(0) : InTime(p.leaves) \in Seq(Leaf)
      BY <3>1, OnlyKeeps DEF InTime
    <3>3. <<>> \in Seq(Leaf)
      OBVIOUS
    <3> QED
      BY <3>2, <3>3
  <2> HIDE DEF leaves
  <2> QED
    BY <2>1, <2>2 DEF IsReader, HeldOK, Steps
<1> QED
  BY <1>2, <1>3, <1>4, <1>5, <1>6, <1>7

(* The steps of a query that load a page, or look at one, or answer. *)
LEMMA LoadingOK ==
    ASSUME IInv, StoredUnique, reader # None, IsReader(reader),
           \/ TryHint \/ LoadForProof \/ LoadLeaf \/ NoProof
           \/ LoadForState \/ StateRebuilt \/ LoadForReport \/ ReportDone
    PROVE  IsReader(reader')
<1>1. /\ \A s \in NextPages : s \in reader.todo
      /\ \A p \in storage : IsPage(p) /\ p.leaves \in Seq(Leaf)
  BY DEF NextPages, IInv, TypeOK, ManagerTypeOK, IsPage
<1>2. ASSUME NEW answer, reader' = [reader EXCEPT !.at = "done", !.answer = answer],
             ~answer.ok => answer.is \in QueryErrors
      PROVE  IsReader(reader')
  BY <1>2 DEF IsReader, HeldOK, Steps
<1>3. ASSUME NEW a, Answer(a) PROVE IsReader(reader')
  <2>1. reader' = [reader EXCEPT !.at = "done", !.answer = Result(TRUE, a)]
    BY <1>3 DEF Answer, Becomes
  <2>2. Result(TRUE, a).ok
    BY DEF Result
  <2> QED
    BY <1>2, <2>1, <2>2
<1>4. ASSUME NEW e \in QueryErrors, Refuse(e) PROVE IsReader(reader')
  <2>1. reader' = [reader EXCEPT !.at = "done", !.answer = Result(FALSE, e)]
    BY <1>4 DEF Refuse, Becomes
  <2>2. Result(FALSE, e).is \in QueryErrors
    BY DEF Result
  <2> QED
    BY <1>2, <2>1, <2>2
<1>5. ASSUME NEW s, reader' = [reader EXCEPT !.todo = @ \ {s}] PROVE IsReader(reader')
  BY <1>5 DEF IsReader, HeldOK
<1>6. ASSUME NEW s, NEW found \in Seq(Leaf),
             reader' = [reader EXCEPT !.todo = @ \ {s}, !.leaves = @ \o found]
      PROVE  IsReader(reader')
  <2>1. reader.leaves \o found \in Seq(Leaf)
    BY DEF IsReader
  <2> QED
    BY <1>6, <2>1 DEF IsReader, HeldOK
<1>7. CASE TryHint
  <2>1. (\E a : Answer(a)) \/ GoOn("active")
    BY <1>7 DEF TryHint
  <2>2. GoOn("active") => IsReader(reader')
    BY DEF GoOn, Becomes, IsReader, HeldOK, Steps
  <2> QED
    BY <1>3, <2>1, <2>2
<1>8. CASE LoadForProof
  <2>1. PICK s : \/ \E p \in Stored(0, s.id) :
                       reader' = [reader EXCEPT !.held = p, !.at = "leaf"]
                 \/ reader' = [reader EXCEPT !.todo = @ \ {s}]
    BY <1>8 DEF LoadForProof, Becomes
  <2>2. reader.query.kind = "proof"
    BY <1>8 DEF LoadForProof, At
  <2>3. ASSUME NEW p \in Stored(0, s.id), reader' = [reader EXCEPT !.held = p, !.at = "leaf"]
        PROVE  IsReader(reader')
    <3>1. IsPage(p)
      BY <1>1 DEF Stored
    <3> QED
      BY <2>2, <2>3, <3>1 DEF IsReader, HeldOK, Steps
  <2> QED
    BY <1>5, <2>1, <2>3
<1>9. CASE LoadLeaf \/ NoProof \/ StateRebuilt \/ ReportDone
  <2>1. (\E a : Answer(a)) \/ \E e \in QueryErrors : Refuse(e)
    BY <1>9 DEF LoadLeaf, NoProof, StateRebuilt, ReportDone, QueryErrors
  <2> QED
    BY <1>3, <1>4, <2>1
<1>10. ASSUME NEW pages, \A p \in pages : IsPage(p), \A p, r \in pages : p = r
       PROVE  LET found == {Matches(p.leaves, reader.query) : p \in pages}
              IN FlattenSeq(SetToSeq(found)) \in Seq(Leaf)
  <2> DEFINE found == {Matches(p.leaves, reader.query) : p \in pages}
  <2>1. \A p \in pages : Matches(p.leaves, reader.query) \in Seq(Leaf)
    BY <1>10, MatchesHas DEF IsPage
  <2>2. found \subseteq Seq(Leaf) /\ \A m, n \in found : m = n
    BY <1>10, <2>1
  <2> HIDE DEF found
  <2> QED
    BY <2>2, FlattenFound DEF found
<1>11. \A s : /\ \A p \in Stored(0, s.id) : IsPage(p)
              /\ \A p, r \in Stored(0, s.id) : p = r
  BY <1>1 DEF Stored, StoredUnique
<1>12. CASE LoadForState
  <2> DEFINE found(s) == FlattenSeq(SetToSeq({Matches(p.leaves, reader.query) :
                                                  p \in Stored(0, s.id)}))
  <2>1. PICK s : reader' = [reader EXCEPT !.todo = @ \ {s}, !.leaves = @ \o found(s)]
    BY <1>12 DEF LoadForState, Becomes
  <2>2. found(s) \in Seq(Leaf)
    BY <1>10, <1>11
  <2> HIDE DEF found
  <2> QED
    BY <1>6, <2>1, <2>2
<1>13. CASE LoadForReport
  <2> DEFINE found(s) == IF Overlaps(s, reader.query)
                         THEN {Matches(p.leaves, reader.query) : p \in StoredOrActive(s)}
                         ELSE {}
             list(s) == FlattenSeq(SetToSeq(found(s)))
  <2>1. PICK s : reader' = [reader EXCEPT !.todo = @ \ {s}, !.leaves = @ \o list(s)]
    BY <1>13 DEF LoadForReport, Becomes
  <2>2. /\ \A p \in StoredOrActive(s) : IsPage(p)
        /\ \A p, r \in StoredOrActive(s) : p = r
    <3>1. reader.held # None => IsPage(reader.held)
      BY <1>13 DEF LoadForReport, At, IsReader, HeldOK
    <3> QED
      BY <1>11, <3>1 DEF StoredOrActive
  <2>3. list(s) \in Seq(Leaf)
    <3>1. CASE Overlaps(s, reader.query)
      BY <1>10, <2>2, <3>1
    <3>2. CASE ~Overlaps(s, reader.query)
      <4>1. list(s) = <<>>
        BY <3>2, ListOfNone, FlattenNothing
      <4>2. <<>> \in Seq(Leaf)
        OBVIOUS
      <4> QED
        BY <4>1, <4>2
    <3> QED
      BY <3>1, <3>2
  <2> HIDE DEF list
  <2> QED
    BY <1>6, <2>1, <2>3
<1> QED
  BY <1>7, <1>8, <1>9, <1>12, <1>13

(* The steps of an integrity check or a snapshot, and of what fails. *)
LEMMA RestOK ==
    ASSUME IInv, reader # None, IsReader(reader),
           \/ LoadForIntegrity \/ PeekActive \/ IntegrityDone
           \/ LoadForSnapshot \/ LevelRead \/ StoreSnapshot \/ StoreUnlinkedSnapshot
           \/ ListFails \/ LoadFails \/ StoreSnapshotFails
    PROVE  IsReader(reader')
<1>1. /\ \A s \in NextPages : s \in reader.todo
      /\ \A p \in storage : IsPage(p)
  BY DEF NextPages, IInv, TypeOK, ManagerTypeOK
<1>2. ASSUME NEW answer, reader' = [reader EXCEPT !.at = "done", !.answer = answer],
             ~answer.ok => answer.is \in QueryErrors \cup {"StorageError"}
      PROVE  IsReader(reader')
  BY <1>2 DEF IsReader, HeldOK, Steps
<1>3. ASSUME NEW a, Answer(a) PROVE IsReader(reader')
  <2>1. reader' = [reader EXCEPT !.at = "done", !.answer = Result(TRUE, a)]
    BY <1>3 DEF Answer, Becomes
  <2>2. Result(TRUE, a).ok
    BY DEF Result
  <2> QED
    BY <1>2, <2>1, <2>2
<1>4. ASSUME NEW e \in QueryErrors \cup {"StorageError"}, Refuse(e) PROVE IsReader(reader')
  <2>1. reader' = [reader EXCEPT !.at = "done", !.answer = Result(FALSE, e)]
    BY <1>4 DEF Refuse, Becomes
  <2>2. Result(FALSE, e).is = e
    BY DEF Result
  <2> QED
    BY <1>2, <1>4, <2>1, <2>2
<1>5. ASSUME NEW s, reader' = [reader EXCEPT !.todo = @ \ {s}] PROVE IsReader(reader')
  BY <1>5 DEF IsReader, HeldOK
<1>6. ASSUME NEW at \in {"active", "load"}, GoOn(at) PROVE IsReader(reader')
  BY <1>6 DEF GoOn, Becomes, IsReader, HeldOK, Steps
<1>7. ASSUME NEW s, NEW valid, NEW prev, reader.query.kind = "integrity",
             Reported(s, valid, prev)
      PROVE  IsReader(reader')
  <2> DEFINE list == Append(reader.valid, PageIntegrityReport(s, valid))
  <2>1. reader' = [reader EXCEPT !.todo = @ \ {s}, !.at = "load", !.held = None,
                                 !.valid = list, !.prev = prev]
    BY <1>7 DEF Reported, Becomes
  <2> HIDE DEF list
  <2> QED
    BY <1>7, <2>1 DEF IsReader, HeldOK, Steps
<1>8. CASE LoadForIntegrity
  <2>1. /\ reader.query.kind = "integrity"
        /\ \E s \in NextPages :
              \/ reader' = [reader EXCEPT !.todo = @ \ {s}]
              \/ \E valid, prev : Reported(s, valid, prev)
              \/ reader' = [reader EXCEPT !.held = s, !.at = "peek"]
    BY <1>8 DEF LoadForIntegrity, At, Becomes
  <2>2. ASSUME NEW s \in NextPages, reader' = [reader EXCEPT !.held = s, !.at = "peek"]
        PROVE  IsReader(reader')
    BY <1>1, <2>1, <2>2 DEF IsReader, HeldOK, Steps
  <2> QED
    BY <1>5, <1>7, <2>1, <2>2
<1>9. CASE PeekActive
  <2>1. /\ reader.query.kind = "integrity"
        /\ \E s, valid, prev : Reported(s, valid, prev)
    BY <1>9 DEF PeekActive, At
  <2> QED
    BY <1>7, <2>1
<1>10. CASE IntegrityDone
  BY <1>3, <1>10 DEF IntegrityDone
<1>11. CASE LoadForSnapshot
  <2> DEFINE pages(s) == reader.pages \cup Stored(reader.level, s.id)
  <2>1. PICK s : reader' = [reader EXCEPT !.todo = @ \ {s}, !.pages = pages(s)]
    BY <1>11 DEF LoadForSnapshot, Becomes
  <2>2. \A p \in pages(s) : IsPage(p)
    BY <1>1 DEF IsReader, Stored
  <2> HIDE DEF pages
  <2> QED
    BY <2>1, <2>2 DEF IsReader, HeldOK
<1>12. CASE LevelRead
  <2>1. /\ reader.query.kind = "snapshot"
        /\ reader' = [reader EXCEPT !.level = @ + 1, !.at = "list"] \/ GoOn("active")
    BY <1>12 DEF LevelRead, At, Becomes
  <2>2. ASSUME reader' = [reader EXCEPT !.level = @ + 1, !.at = "list"]
        PROVE  IsReader(reader')
    <3>1. reader.level + 1 \in Nat
      BY DEF IsReader
    <3> QED
      BY <2>1, <2>2, <3>1 DEF IsReader, HeldOK, Steps
  <2> QED
    BY <1>6, <2>1, <2>2
<1>13. CASE StoreSnapshot \/ StoreUnlinkedSnapshot
  <2>1. \E previous : WriteSnapshot(previous)
    BY <1>13 DEF StoreSnapshot, StoreUnlinkedSnapshot
  <2>2. \E a : Answer(a)
    BY <2>1 DEF WriteSnapshot
  <2> QED
    BY <1>3, <2>2
<1>14. CASE StoreSnapshotFails
  BY <1>4, <1>14 DEF StoreSnapshotFails
<1>15. CASE ListFails
  <2>1. GoOn("load") \/ Refuse("CoreError")
    BY <1>15 DEF ListFails
  <2> QED
    BY <1>4, <1>6, <2>1 DEF QueryErrors
<1>16. CASE LoadFails
  <2>1. \/ GoOn("active") \/ Refuse("CoreError")
        \/ \E s : reader' = [reader EXCEPT !.todo = @ \ {s}]
    BY <1>16 DEF LoadFails, Becomes
  <2> QED
    BY <1>4, <1>5, <1>6, <2>1 DEF QueryErrors
<1> QED
  BY <1>8, <1>9, <1>10, <1>11, <1>12, <1>13, <1>14, <1>15, <1>16

(* A new call. *)
LEMMA AskOK ==
    ASSUME Ask
    PROVE  IsReader(reader')
<1>1. PICK q \in Queries : \E at, answer, level, seen :
         /\ reader' = [query |-> q, at |-> at, answer |-> answer, level |-> level,
                       todo |-> {}, held |-> None, pages |-> {}, leaves |-> <<>>,
                       prev |-> None, valid |-> <<>>, seen |-> seen]
         /\ "pages" \in DOMAIN seen
         /\ at \in {"done", "hint", "active", "list"}
         /\ ~answer.ok => answer.is \in QueryErrors
         /\ level = IF q.kind = "integrity" THEN q.level ELSE 0
  <2> DEFINE known == {r.leaf : r \in accepted}
             alone == \A a \in Appenders : pc[a] = "idle"
             now == [pages |-> storage, accepted |-> known, alone |-> alone]
             Begins(q) == IF EmptyRange(q) \/ (q.kind = "report" /\ q.limit = 0)
                      THEN "done" ELSE FirstStep(q)
             With(q) == IF EmptyRange(q) THEN Result(FALSE, "InvalidParameters")
                        ELSE Result(TRUE, <<>>)
             Level(q) == IF q.kind = "integrity" THEN q.level ELSE 0
  <2>1. PICK q \in Queries :
           reader' = [query |-> q, at |-> Begins(q), answer |-> With(q), level |-> Level(q),
                      todo |-> {}, held |-> None, pages |-> {}, leaves |-> <<>>,
                      prev |-> None, valid |-> <<>>, seen |-> now]
    BY DEF Ask, Becomes
  <2>2. "pages" \in DOMAIN now
    OBVIOUS
  <2>3. Begins(q) \in {"done", "hint", "active", "list"}
    BY DEF FirstStep
  <2>4. ~With(q).ok => With(q).is \in QueryErrors
    BY DEF Result, QueryErrors
  <2>5. Level(q) = IF q.kind = "integrity" THEN q.level ELSE 0
    OBVIOUS
  <2> HIDE DEF now, Begins, With, Level
  <2> QED
    BY <2>1, <2>2, <2>3, <2>4, <2>5
<1>2. (IF q.kind = "integrity" THEN q.level ELSE 0) \in Nat
  BY ReaderAssumption
<1>3. <<>> \in Seq(Leaf)
  OBVIOUS
<1> QED
  BY <1>1, <1>2, <1>3 DEF IsReader, HeldOK, Steps

(* What goes on beside the reader: it goes on, or is forgotten. *)
LEMMA DisturbedOK ==
    ASSUME ReaderOK, Disturbed
    PROVE  ReaderOK'
<1>1. CASE reader = None \/ reader.at = "done"
  BY <1>1 DEF Disturbed, ReaderOK
<1>2. CASE ~(reader = None \/ reader.at = "done")
  <2> DEFINE seen == [reader.seen EXCEPT !.alone = FALSE]
  <2>1. reader' = [reader EXCEPT !.seen = seen] /\ IsReader(reader)
    BY <1>2 DEF Disturbed, ReaderOK
  <2>2. "pages" \in DOMAIN seen
    BY <2>1 DEF IsReader
  <2> HIDE DEF seen
  <2>3. IsReader(reader')
    BY <2>1, <2>2 DEF IsReader, HeldOK
  <2> QED
    BY <2>3 DEF ReaderOK
<1> QED
  BY <1>1, <1>2

LEMMA ReaderMoves ==
    ASSUME IInv, StoredUnique, ReaderOK, [DNext]_dvars
    PROVE  ReaderOK'
<1>1. CASE ReadStep
  <2>1. reader # None
    BY <1>1 DEF ReadStep, At, List, ListActive, HoldActive, ActiveId, FindActiveInStore,
       ActiveLeaves, TryHint, LoadForProof, LoadLeaf, NoProof, LoadForState, StateRebuilt,
       LoadForReport, ReportDone, LoadForIntegrity, PeekActive, IntegrityDone,
       LoadForSnapshot, LevelRead, StoreSnapshot, StoreUnlinkedSnapshot, WriteSnapshot,
       ListFails, LoadFails, StoreSnapshotFails
  <2>2. IsReader(reader)
    BY <2>1 DEF ReaderOK
  <2>3. IsReader(reader')
    BY <1>1, <2>1, <2>2, ListingOK, LoadingOK, RestOK DEF ReadStep
  <2> QED
    BY <2>3 DEF ReaderOK
<1>2. CASE Ask
  BY <1>2, AskOK DEF ReaderOK
<1>3. CASE AddLeafStep \/ DeletePage
  BY <1>3, DisturbedOK DEF AddLeafStep, DeletePage
<1>4. CASE RestartAll
  BY <1>4 DEF RestartAll, ReaderOK
<1>5. CASE UNCHANGED dvars
  BY <1>5 DEF dvars, readerVars, ReaderOK
<1> QED
  BY <1>1, <1>2, <1>3, <1>4, <1>5 DEF DNext

(* The counters, the snapshots and the pages deleted. *)
LEMMA ReadsMove ==
    ASSUME IInv, ReadsOK, [DNext]_dvars
    PROVE  ReadsOK'
<1>1. /\ restarts \in Nat /\ Cardinality(deleted) \in Nat
      /\ MaxFaults \in Nat /\ MaxQueries \in Nat
      /\ queries \in Nat /\ readFailures \in Nat /\ nextSnapshotId \in Nat
  BY ReaderAssumption, FS_CardinalityType DEF IInv, TypeOK, CountersTypeOK, ReadsOK
<1>2. MayFail => readFailures + 1 \in 0 .. MaxFaults
  BY <1>1 DEF MayFail
<1>3. ASSUME NEW s, s.id = nextSnapshotId, snapshots' \subseteq snapshots \cup {s},
             nextSnapshotId' = nextSnapshotId + 1, restarts' = restarts
      PROVE  /\ \A t \in snapshots' : t.id \in Nat /\ (t.id < nextSnapshotId' \/ restarts' > 0)
             /\ nextSnapshotId' \in Nat
  <2>1. ASSUME NEW t \in snapshots'
        PROVE  t.id \in Nat /\ (t.id < nextSnapshotId' \/ restarts' > 0)
    <3>1. CASE t \in snapshots
      <4>1. t.id \in Nat /\ (t.id < nextSnapshotId \/ restarts > 0)
        BY <3>1 DEF ReadsOK
      <4> QED
        BY <1>1, <1>3, <4>1
    <3>2. CASE t = s
      BY <1>1, <1>3, <3>2
    <3> QED
      BY <1>3, <3>1, <3>2
  <2> QED
    BY <1>1, <1>3, <2>1
<1>4. CASE UNCHANGED <<snapshots, nextSnapshotId, queries, readFailures, deleted>>
             /\ restarts' = restarts
  BY <1>4 DEF ReadsOK
<1>5. \A a \in Appenders : CallAddLeaf(a) \/ Step(a) => restarts' = restarts
  BY DEF CallAddLeaf, Step, TakeActivePage, RetireActivePage, FindNoActivePage,
     CreatePage, PreFinalize, AppendLeaf, KeepActivePage, StorePage, StorageFails,
     TrackFinalized, LoadChild, ChildMissing, RetireStaleParent, ParentNotStale,
     ReuseParent, ReopenParent, CreateParent, DiscardParent, FinalizeParent, KeepParent,
     ReturnToParent, ReturnToAddLeaf, worldVars
<1>6. CASE Ask
  BY <1>1, <1>6 DEF Ask, vars, worldVars, ReadsOK
<1>7. CASE AddLeafStep
  BY <1>4, <1>5, <1>7 DEF AddLeafStep
<1>8. CASE DeletePage
  <2>1. PICK p \in storage : deleted' = deleted \cup {p}
    BY <1>8 DEF DeletePage
  <2>2. IsFiniteSet(deleted \cup {p})
    BY FS_AddElement DEF ReadsOK
  <2>3. IsPage(p)
    BY DEF IInv, TypeOK, ManagerTypeOK
  <2> QED
    BY <1>8, <2>1, <2>2, <2>3 DEF DeletePage, worldVars, ReadsOK
<1>9. CASE RestartAll
  <2>1. restarts' = restarts + 1 /\ restarts' > 0
    BY <1>1, <1>9 DEF RestartAll, Restart
  <2> QED
    BY <1>1, <1>9, <2>1 DEF RestartAll, ReadsOK
<1>10. CASE UNCHANGED dvars
  BY <1>4, <1>10 DEF dvars, readerVars, vars, worldVars
<1>11. CASE ReadStep
  <2>1. restarts' = restarts
    BY <1>11, ReadsChangeNothing DEF vars, worldVars
  <2>2. CASE OnlyReads
    BY <1>4, <2>1, <2>2 DEF OnlyReads
  <2>3. CASE ListFails \/ LoadFails
    BY <1>1, <1>2, <2>1, <2>3 DEF ListFails, LoadFails, ReadsOK
  <2>4. CASE StoreSnapshotFails
    BY <1>1, <1>2, <1>3, <2>1, <2>4 DEF StoreSnapshotFails, ReadsOK
  <2>5. ASSUME NEW previous, WriteSnapshot(previous),
               readFailures' = readFailures \/ (MayFail /\ readFailures' = readFailures + 1)
        PROVE  ReadsOK'
    <3>1. PICK states : snapshots' = {s \in snapshots : s.id # nextSnapshotId}
                                       \cup {Snapshot(states, previous)}
      BY <2>5 DEF WriteSnapshot
    <3>2. Snapshot(states, previous).id = nextSnapshotId
      BY DEF Snapshot
    <3>3. /\ nextSnapshotId' = nextSnapshotId + 1 /\ queries' = queries /\ deleted' = deleted
          /\ snapshots' \subseteq snapshots \cup {Snapshot(states, previous)}
      BY <2>5, <3>1 DEF WriteSnapshot
    <3>4. /\ \A t \in snapshots' : t.id \in Nat /\ (t.id < nextSnapshotId' \/ restarts' > 0)
          /\ nextSnapshotId' \in Nat
      BY <1>3, <2>1, <3>2, <3>3
    <3> QED
      BY <1>2, <2>5, <3>3, <3>4 DEF ReadsOK
  <2>6. CASE StoreSnapshot \/ StoreUnlinkedSnapshot
    BY <2>5, <2>6 DEF StoreSnapshot, StoreUnlinkedSnapshot
  <2>7. OnlyReads \/ ListFails \/ LoadFails \/ StoreSnapshotFails \/ StoreSnapshot
          \/ StoreUnlinkedSnapshot
    BY <1>11 DEF ReadStep, List, ListActive, HoldActive, ActiveId, FindActiveInStore,
       ActiveLeaves, TryHint, LoadForProof, LoadLeaf, NoProof, LoadForState, StateRebuilt,
       LoadForReport, ReportDone, LoadForIntegrity, PeekActive, IntegrityDone,
       LoadForSnapshot, LevelRead
  <2> QED
    BY <2>2, <2>3, <2>4, <2>6, <2>7
<1> QED
  BY <1>6, <1>7, <1>8, <1>9, <1>10, <1>11 DEF DNext

(* A page of a level and an id is in the store once. *)
LEMMA UniqueOK ==
    ASSUME StoredUnique, [DNext]_dvars
    PROVE  StoredUnique'
<1>1. ASSUME NEW a \in Appenders, CallAddLeaf(a) \/ Step(a)
      PROVE  StoredUnique'
  <2>1. CASE StorePage(a)
    BY <2>1 DEF StorePage, Stored, StoredUnique
  <2>2. storage' = storage \/ StorePage(a)
    BY <1>1 DEF CallAddLeaf, Step, TakeActivePage, RetireActivePage, FindNoActivePage,
       CreatePage, PreFinalize, AppendLeaf, KeepActivePage, StorageFails,
       TrackFinalized, LoadChild, ChildMissing, RetireStaleParent, ParentNotStale,
       ReuseParent, ReopenParent, CreateParent, DiscardParent, FinalizeParent, KeepParent,
       ReturnToParent, ReturnToAddLeaf, managerVars
  <2> QED
    BY <2>1, <2>2 DEF StoredUnique
<1>2. Restart => storage' = storage
  BY DEF Restart
<1>3. UNCHANGED vars => storage' = storage
  BY DEF vars, managerVars
<1> QED
  BY <1>1, <1>2, <1>3, ManagerMoves DEF StoredUnique

DInv == IInv /\ BInv /\ LInv /\ StoredUnique /\ ReaderOK /\ ReadsOK

LEMMA ReadersInv == DSpec => []DInv
<1>1. DInit => DInv
  <2> SUFFICES ASSUME DInit PROVE DInv
    OBVIOUS
  <2>1. IInv /\ BInv /\ LInv /\ StoredUnique
    BY ApartFromStart DEF AInv
  <2>2. ReaderOK /\ ReadsOK
    BY ReaderAssumption, FS_EmptySet DEF DInit, ReaderOK, ReadsOK
  <2> QED
    BY <2>1, <2>2 DEF DInv
<1>2. DInv /\ [DNext]_dvars => DInv'
  BY ManagerOK, UniqueOK, ReaderMoves, ReadsMove DEF DInv
<1> QED
  BY <1>1, <1>2, PTL DEF DSpec

(***************************************************************************)
(* Types, of the manager and of whoever reads beside it (QueryEngine and   *)
(* SnapshotManager::create_snapshot): for every configuration and          *)
(* workload, with any calls of add_leaf going on, failing reads, pages     *)
(* deleted by another task, and restarts.                                  *)
(***************************************************************************)
THEOREM SpecReaderTypeOK == DSpec => []ReaderTypeOK
<1>1. DInv => ReaderTypeOK
  BY DEF DInv, ReaderOK, IsReader, ReadsOK, IInv, ReaderTypeOK
<1> QED
  BY <1>1, ReadersInv, PTL

----------------------------------------------------------------------------
(***************************************************************************)
(* Inclusion proofs of what is stored.                                     *)
(***************************************************************************)

(* Of a call, the query and what the store held when it began stay. *)
LEMMA CallStays ==
    ASSUME ReaderOK, [DNext]_dvars, ~Ask, reader' # None
    PROVE  /\ reader # None
           /\ reader'.query = reader.query
           /\ reader'.seen.pages = reader.seen.pages
<1>1. CASE ReadStep
  <2>1. reader # None
    BY <1>1 DEF ReadStep, At, List, ListActive, HoldActive, ActiveId, FindActiveInStore,
       ActiveLeaves, TryHint, LoadForProof, LoadLeaf, NoProof, LoadForState, StateRebuilt,
       LoadForReport, ReportDone, LoadForIntegrity, PeekActive, IntegrityDone,
       LoadForSnapshot, LevelRead, StoreSnapshot, StoreUnlinkedSnapshot, WriteSnapshot,
       ListFails, LoadFails, StoreSnapshotFails
  <2>2. IsReader(reader)
    BY <2>1 DEF ReaderOK
  <2>3. CASE List \/ ListActive \/ HoldActive \/ ActiveId \/ FindActiveInStore \/ ActiveLeaves
    BY <2>1, <2>2, <2>3 DEF IsReader, Becomes, List, ListActive, HoldActive, ActiveId,
       FindActiveInStore, ActiveLeaves
  <2>4. (\E a : Answer(a)) \/ (\E e : Refuse(e)) \/ (\E at : GoOn(at)) =>
          reader'.query = reader.query /\ reader'.seen.pages = reader.seen.pages
    BY <2>2 DEF IsReader, Becomes, Answer, Refuse, GoOn
  <2>5. CASE TryHint \/ LoadLeaf \/ NoProof \/ StateRebuilt \/ ReportDone \/ IntegrityDone
               \/ StoreSnapshot \/ StoreUnlinkedSnapshot \/ StoreSnapshotFails \/ ListFails
    BY <2>1, <2>4, <2>5 DEF TryHint, LoadLeaf, NoProof, StateRebuilt, ReportDone, IntegrityDone,
       StoreSnapshot, StoreUnlinkedSnapshot, WriteSnapshot, StoreSnapshotFails, ListFails
  <2>6. CASE LoadForProof
    BY <2>1, <2>2, <2>6 DEF LoadForProof, IsReader, Becomes
  <2>7. CASE LoadForState
    BY <2>1, <2>2, <2>7 DEF LoadForState, IsReader, Becomes
  <2>8. CASE LoadForReport
    BY <2>1, <2>2, <2>8 DEF LoadForReport, IsReader, Becomes
  <2>9. CASE LoadForIntegrity
    BY <2>1, <2>2, <2>9 DEF LoadForIntegrity, Reported, IsReader, Becomes
  <2>10. CASE PeekActive
    BY <2>1, <2>2, <2>10 DEF PeekActive, Reported, IsReader, Becomes
  <2>11. CASE LoadForSnapshot
    BY <2>1, <2>2, <2>11 DEF LoadForSnapshot, IsReader, Becomes
  <2>12. CASE LevelRead
    BY <2>1, <2>2, <2>4, <2>12 DEF LevelRead, IsReader, Becomes
  <2>13. CASE LoadFails
    BY <2>1, <2>2, <2>4, <2>13 DEF LoadFails, IsReader, Becomes
  <2> QED
    BY <1>1, <2>3, <2>5, <2>6, <2>7, <2>8, <2>9, <2>10, <2>11, <2>12, <2>13 DEF ReadStep
<1>2. CASE AddLeafStep \/ DeletePage
  <2>1. reader # None /\ reader' = [reader EXCEPT !.seen.alone = FALSE]
    BY <1>2 DEF AddLeafStep, DeletePage, Disturbed
  <2>2. IsReader(reader)
    BY <2>1 DEF ReaderOK
  <2>3. reader'.query = reader.query /\ reader'.seen = [reader.seen EXCEPT !.alone = FALSE]
    BY <2>1, <2>2 DEF IsReader
  <2> QED
    BY <2>1, <2>2, <2>3 DEF IsReader
<1>3. CASE RestartAll
  BY <1>3 DEF RestartAll
<1>4. CASE UNCHANGED dvars
  BY <1>4 DEF dvars, readerVars
<1> QED
  BY <1>1, <1>2, <1>3, <1>4 DEF DNext

(* The leaves the store held when the call began, which are done with. *)
SeenIds == UNION {Ids(p) : p \in reader.seen.pages}

SeenApart == reader # None => \A x \in SeenIds : Apart(x)

LEMMA SeenOK ==
    ASSUME IInv, LInv, AInv, Serial, Serial', ReaderOK, SeenApart, [DNext]_dvars
    PROVE  SeenApart'
<1>1. \A x : Apart(x) => Apart(x)'
  BY ApartGoesOn
<1>2. CASE Ask
  <2>1. reader'.seen.pages = storage
    BY <1>2 DEF Ask, Becomes
  <2>2. \A x \in SeenIds' : Apart(x)
    BY <2>1 DEF SeenIds, Ids, AInv, StoredApart
  <2> QED
    BY <1>1, <2>2 DEF SeenApart
<1>3. CASE ~Ask
  <2>1. reader' # None => reader # None /\ SeenIds' = SeenIds
    BY <1>3, CallStays DEF SeenIds, Ids
  <2> QED
    BY <1>1, <2>1 DEF SeenApart
<1> QED
  BY <1>2, <1>3

(* A leaf of the store is in one page of it. *)
LEMMA OnePageHas ==
    ASSUME IInv, LInv, AInv, NEW p \in storage, NEW x \in Ids(p)
    PROVE  /\ IsPage(p) /\ p.level = 0 /\ Apart(x)
           /\ \A q \in storage : x \in Ids(q) => q = p
<1>1. \A q \in storage : /\ q \in Around /\ IsPage(q) /\ q.level \in Nat
                         /\ q.level > 0 => q.leaves = <<>>
  BY DEF Around, AInv, Leafless, IInv, TypeOK, ManagerTypeOK, IsPage, Levels
<1>2. \A q \in storage : x \in Ids(q) => q.level = 0
  BY <1>1 DEF Ids
<1>3. \A q \in storage : x \in Ids(q) => q.id = p.id
  BY <1>1 DEF Ids, LInv, OnePlace
<1> QED
  BY <1>1, <1>2, <1>3 DEF AInv, StoredApart, StoredUnique

(* Where a page has a leaf. *)
LEMMA PositionHas ==
    ASSUME NEW p, IsPage(p), NEW x
    PROVE  /\ PositionIn(p, x) # 0 <=> x \in Ids(p)
           /\ x \in Ids(p) => /\ PositionIn(p, x) \in 1 .. Len(p.leaves)
                              /\ p.leaves[PositionIn(p, x)].id = x
<1> DEFINE n == Len(p.leaves)
           I == {i \in 1 .. n : p.leaves[i].id = x}
<1>1. PositionIn(p, x) = IF I # {} THEN Min(I) ELSE 0
  BY DEF PositionIn, SelectInSeq
<1>2. n \in Nat /\ DOMAIN p.leaves = 1 .. n
  BY DEF IsPage
<1>3. x \in Ids(p) <=> I # {}
  BY <1>2 DEF Ids
<1>4. CASE I = {}
  BY <1>1, <1>3, <1>4
<1>5. CASE I # {}
  <2>1. I \subseteq Nat
    BY <1>2
  <2>2. \E m \in I : \A y \in I : m =< y
    BY <1>5, <2>1, LeastOf
  <2>3. PositionIn(p, x) \in I
    BY <1>1, <1>5, <2>2 DEF Min
  <2> QED
    BY <1>2, <1>3, <1>5, <2>3
<1> QED
  BY <1>4, <1>5

(* Its proof there verifies for it alone. *)
LEMMA ProofOfLeaf ==
    ASSUME NEW p, IsPage(p), NEW x \in Ids(p)
    PROVE  /\ Proof(p, x).page = p.id
           /\ Proof(p, x).root = MerkleRoot(LeafHashes(p))
           /\ \A id : ProofVerifies(Digest(id), Proof(p, x).proof, Proof(p, x).root)
                         <=> id = x
<1> DEFINE n == Len(p.leaves)
           hashes == LeafHashes(p)
           i == PositionIn(p, x)
           proof == MerkleProof(hashes, i)
           root == MerkleRoot(hashes)
<1>1. n \in Nat /\ DOMAIN p.leaves = 1 .. n
  BY DEF IsPage
<1>2. i \in 1 .. n /\ p.leaves[i].id = x
  BY PositionHas
<1>3. hashes = [k \in 1 .. n |-> Digest(p.leaves[k].id)]
  BY <1>1 DEF LeafHashes
<1> HIDE DEF hashes, i, n
<1>4. IsList(hashes) /\ Len(hashes) = n
  <2> DEFINE S == {Digest(p.leaves[k].id) : k \in 1 .. n}
  <2>1. hashes \in [1 .. n -> S] /\ n \in Nat
    BY <1>1, <1>3
  <2> HIDE DEF S
  <2>2. hashes \in Seq(S) /\ Len(hashes) = n
    BY <2>1
  <2> QED
    BY <2>2, SeqIsList
<1>5. hashes[i] = Digest(x)
  BY <1>2, <1>3
<1>6. \A id : ProofVerifies(Digest(id), proof, root) <=> Digest(id) = Digest(x)
  BY <1>2, <1>4, <1>5, MerkleProofExact
<1>7. \A id : Digest(id) = Digest(x) <=> id = x
  BY DEF Digest
<1> HIDE DEF proof, root
<1>8. /\ Proof(p, x).page = p.id /\ Proof(p, x).proof = proof /\ Proof(p, x).root = root
  BY DEF Proof, proof, root, hashes, i
<1> QED
  BY <1>6, <1>7, <1>8 DEF root, hashes

(***************************************************************************)
(* What a search for a leaf has when it answers, and on its way: while     *)
(* pages are loaded, the one that has the leaf is still to be loaded; when *)
(* it has been, it is the only one in the store that has it.               *)
(***************************************************************************)
ToBeLoaded(x) ==
    \A q \in storage : x \in Ids(q) => \E s \in reader.todo : s.id = q.id

LoadedFor(x) ==
    /\ x \in Ids(reader.held) /\ reader.held.level = 0 /\ Apart(x)
    /\ \A q \in storage : x \in Ids(q) => q = reader.held

Proved ==
    \/ /\ ~reader.answer.ok
       /\ \A l \in StoredAllAlong : l.id # reader.query.leaf
    \/ /\ reader.answer.ok
       /\ \E p \in storage :
            /\ p.level = 0 /\ reader.query.leaf \in Ids(p) /\ IsPage(p)
            /\ reader.answer.is = Proof(p, reader.query.leaf)

ProofOK ==
    reader # None /\ reader.query.kind = "proof" /\ readFailures = 0 =>
        /\ reader.at = "load" /\ reader.query.leaf \in SeenIds
             => ToBeLoaded(reader.query.leaf)
        /\ reader.at = "leaf" => LoadedFor(reader.query.leaf)
        /\ reader.at = "done" => Proved

LEMMA ProofFollows ==
    ASSUME ProofOK
    PROVE  StoredLeafProved
<1> SUFFICES ASSUME Answered("proof"), readFailures = 0
             PROVE  \/ /\ ~reader.answer.ok
                       /\ \A l \in StoredAllAlong : l.id # reader.query.leaf
                    \/ reader.answer.ok /\ \E p \in storage :
                         /\ p.id = reader.answer.is.page /\ p.level = 0
                         /\ reader.answer.is.root = MerkleRoot(LeafHashes(p))
                         /\ \A id \in 0 .. leafCount :
                               ProofVerifies(Digest(id), reader.answer.is.proof,
                                             reader.answer.is.root)
                                 <=> id = reader.query.leaf
  BY DEF StoredLeafProved
<1>1. Proved
  BY DEF ProofOK, Answered
<1>2. ASSUME reader.answer.ok
      PROVE  \E p \in storage :
                /\ p.id = reader.answer.is.page /\ p.level = 0
                /\ reader.answer.is.root = MerkleRoot(LeafHashes(p))
                /\ \A id : ProofVerifies(Digest(id), reader.answer.is.proof,
                                         reader.answer.is.root)
                             <=> id = reader.query.leaf
  <2>1. PICK p \in storage : /\ p.level = 0 /\ reader.query.leaf \in Ids(p) /\ IsPage(p)
                             /\ reader.answer.is = Proof(p, reader.query.leaf)
    BY <1>1, <1>2 DEF Proved
  <2> QED
    BY <2>1, ProofOfLeaf
<1> QED
  BY <1>1, <1>2 DEF Proved

(* A step of the search. *)
LEMMA SearchStep ==
    ASSUME IInv, LInv, AInv, ReaderOK, ReadsOK, SeenApart, ProofOK, ReadStep,
           readFailures' = 0, reader'.query.kind = "proof", reader' # None, reader # None,
           reader'.query = reader.query, SeenIds' = SeenIds, storage' = storage,
           reader # None, readFailures = 0
    PROVE  /\ reader'.at = "load" /\ reader.query.leaf \in SeenIds
                => \A q \in storage : reader.query.leaf \in Ids(q)
                                        => \E s \in reader'.todo : s.id = q.id
           /\ reader'.at = "leaf" =>
                LET p == reader'.held
                IN /\ p \in storage /\ reader.query.leaf \in Ids(p)
           /\ reader'.at = "done" => Proved'
<1> DEFINE x == reader.query.leaf
<1>1. IsReader(reader) /\ reader.query.kind = "proof"
  BY DEF ReaderOK
<1>2. reader.level = 0 /\ reader.at \in Steps
  BY <1>1 DEF IsReader
<1>3. \A p \in storage : IsPage(p)
  BY DEF IInv, TypeOK, ManagerTypeOK
<1>4. readFailures \in Nat
  BY DEF ReadsOK
<1>5. TryHint \/ ActiveId \/ List \/ LoadForProof \/ LoadLeaf \/ NoProof
  <2>1. ~ListFails /\ ~LoadFails /\ ~StoreUnlinkedSnapshot /\ ~StoreSnapshotFails
    BY <1>4 DEF ListFails, LoadFails, StoreUnlinkedSnapshot, StoreSnapshotFails
  <2> QED
    BY <1>1, <2>1 DEF ReadStep, At, ListActive, HoldActive, FindActiveInStore, ActiveLeaves,
       LoadForState, StateRebuilt, LoadForReport, ReportDone, LoadForIntegrity, PeekActive,
       IntegrityDone, LoadForSnapshot, LevelRead, StoreSnapshot, WriteSnapshot
<1>6. ASSUME NEW p \in storage, x \in Ids(p), Answer(Proof(p, x))
      PROVE  reader'.at = "done" /\ Proved'
  <2>1. reader' = [reader EXCEPT !.at = "done", !.answer = Result(TRUE, Proof(p, x))]
    BY <1>6 DEF Answer, Becomes
  <2>2. reader'.at = "done" /\ reader'.answer = Result(TRUE, Proof(p, x))
    BY <1>1, <2>1 DEF IsReader
  <2>3. reader'.answer.ok /\ reader'.answer.is = Proof(p, x)
    BY <2>2 DEF Result
  <2>4. p.level = 0 /\ IsPage(p)
    BY <1>6, OnePageHas
  <2> QED
    BY <1>6, <2>2, <2>3, <2>4 DEF Proved
<1>7. ASSUME NEW e, Refuse(e), \A l \in StoredAllAlong : l.id # x
      PROVE  reader'.at = "done" /\ Proved'
  <2>1. reader' = [reader EXCEPT !.at = "done", !.answer = Result(FALSE, e)]
    BY <1>7 DEF Refuse, Becomes
  <2>2. /\ reader'.at = "done" /\ reader'.answer = Result(FALSE, e)
        /\ reader'.seen = reader.seen
    BY <1>1, <2>1 DEF IsReader
  <2>3. ~reader'.answer.ok
    BY <2>2 DEF Result
  <2>4. StoredAllAlong' = StoredAllAlong
    BY <2>2 DEF StoredAllAlong
  <2> QED
    BY <1>7, <2>2, <2>3, <2>4 DEF Proved
<1>8. CASE TryHint
  <2> DEFINE holding == {p \in Stored(reader.query.hint.level, reader.query.hint.id) :
                            PositionIn(p, x) # 0}
  <2>1. (\E p \in holding : Answer(Proof(p, x))) \/ GoOn("active")
    BY <1>8 DEF TryHint
  <2>2. GoOn("active") => reader'.at = "active"
    BY <1>1 DEF GoOn, Becomes, IsReader
  <2>3. \A p \in holding : p \in storage /\ x \in Ids(p)
    BY <1>3, PositionHas DEF Stored
  <2> QED
    BY <1>6, <2>1, <2>2, <2>3
<1>9. CASE ActiveId
  <2>1. reader'.at = "list"
    BY <1>1, <1>9 DEF ActiveId, Becomes, IsReader
  <2> QED
    BY <2>1
<1>10. CASE List
  <2> DEFINE listed == {s \in Listing(reader.level) :
                          reader.query.kind = "snapshot" => s.start <= reader.query.to}
             new == reader.todo \cup {[s EXCEPT !.start = 0] : s \in listed}
  <2>1. reader' = [reader EXCEPT !.todo = new, !.at = "load"]
    BY <1>1, <1>10 DEF List, Becomes
  <2>2. reader'.todo = new /\ reader'.at = "load"
    BY <1>1, <2>1 DEF IsReader
  <2>3. ASSUME NEW q \in storage, x \in Ids(q) PROVE \E s \in new : s.id = q.id
    <3>1. q.level = 0
      BY <2>3, OnePageHas
    <3>2. PageSummary(q, FALSE) \in listed
      BY <1>1, <1>2, <3>1 DEF Listing
    <3>3. [PageSummary(q, FALSE) EXCEPT !.start = 0].id = q.id
      BY DEF PageSummary
    <3> QED
      BY <3>2, <3>3
  <2> QED
    BY <2>2, <2>3
<1>11. CASE LoadForProof
  <2> DEFINE holding(s) == {p \in Stored(0, s.id) : PositionIn(p, x) # 0}
  <2>1. PICK s : /\ reader.at = "load"
                 /\ \/ \E p \in holding(s) :
                          reader' = [reader EXCEPT !.held = p, !.at = "leaf"]
                    \/ /\ holding(s) = {}
                       /\ reader' = [reader EXCEPT !.todo = @ \ {s}]
    BY <1>11 DEF LoadForProof, Becomes, At
  <2>2. \A p : p \in holding(s) <=> p \in storage /\ p.level = 0 /\ p.id = s.id /\ x \in Ids(p)
    BY <1>3, PositionHas DEF Stored
  <2> HIDE DEF holding
  <2>3. CASE \E p \in holding(s) : reader' = [reader EXCEPT !.held = p, !.at = "leaf"]
    <3>1. PICK p \in holding(s) : reader' = [reader EXCEPT !.held = p, !.at = "leaf"]
      BY <2>3
    <3>2. reader'.at = "leaf" /\ reader'.held = p
      BY <1>1, <3>1 DEF IsReader
    <3> QED
      BY <2>2, <3>2
  <2>4. CASE holding(s) = {} /\ reader' = [reader EXCEPT !.todo = @ \ {s}]
    <3>1. reader'.at = "load" /\ reader'.todo = reader.todo \ {s}
      BY <1>1, <2>1, <2>4 DEF IsReader
    <3>2. ASSUME x \in SeenIds, NEW q \in storage, x \in Ids(q)
          PROVE  \E t \in reader'.todo : t.id = q.id
      <4>1. PICK t \in reader.todo : t.id = q.id
        BY <1>1, <2>1, <3>2 DEF ProofOK, ToBeLoaded
      <4>2. q.level = 0
        BY <3>2, OnePageHas
      <4>3. t # s
        BY <2>2, <2>4, <3>2, <4>1, <4>2
      <4> QED
        BY <3>1, <4>1, <4>3
    <3> QED
      BY <3>1, <3>2
  <2> QED
    BY <2>1, <2>3, <2>4
<1>12. CASE LoadLeaf
  <2>1. LoadedFor(x)
    BY <1>1, <1>12 DEF ProofOK, LoadLeaf, At
  <2>2. CASE \E leaf \in LeavesIn(storage) : leaf.id = x
    <3>1. reader.held \in storage /\ x \in Ids(reader.held)
      BY <2>1, <2>2 DEF LeavesIn, Ids, LoadedFor
    <3>2. Answer(Proof(reader.held, x))
      BY <1>12, <2>2 DEF LoadLeaf
    <3> QED
      BY <1>6, <3>1, <3>2
  <2>3. CASE ~\E leaf \in LeavesIn(storage) : leaf.id = x
    <3>1. Refuse("LeafDataNotFound") /\ \A l \in StoredAllAlong : l.id # x
      BY <1>12, <2>3 DEF LoadLeaf, StoredAllAlong
    <3> QED
      BY <1>7, <3>1
  <2> QED
    BY <2>2, <2>3
<1>13. CASE NoProof
  <2>1. reader.at = "load" /\ reader.todo = {} /\ Refuse("LeafNotFound")
    BY <1>13 DEF NoProof, At
  <2>2. ASSUME NEW l \in StoredAllAlong, l.id = x PROVE FALSE
    <3>1. x \in SeenIds /\ \E q \in storage : x \in Ids(q)
      BY <2>2 DEF StoredAllAlong, LeavesIn, SeenIds, Ids
    <3> QED
      BY <1>1, <2>1, <3>1 DEF ProofOK, ToBeLoaded
  <2> QED
    BY <1>7, <2>1, <2>2
<1> QED
  BY <1>5, <1>8, <1>9, <1>10, <1>11, <1>12, <1>13

LEMMA FailuresCount ==
    ASSUME ReadsOK, [DNext]_dvars, readFailures' = 0
    PROVE  readFailures = 0
<1>1. readFailures' = readFailures \/ readFailures' = readFailures + 1
  BY DEF DNext, Ask, ReadStep, OnlyReads, List, ListActive, HoldActive, ActiveId,
     FindActiveInStore, ActiveLeaves, TryHint, LoadForProof, LoadLeaf, NoProof, LoadForState,
     StateRebuilt, LoadForReport, ReportDone, LoadForIntegrity, PeekActive, IntegrityDone,
     LoadForSnapshot, LevelRead, StoreSnapshot, StoreUnlinkedSnapshot, ListFails, LoadFails,
     StoreSnapshotFails, AddLeafStep, DeletePage, RestartAll, dvars, readerVars
<1> QED
  BY <1>1 DEF ReadsOK

(* A step, of the search or of anything else. *)
LEMMA ProofMoves ==
    ASSUME IInv, LInv, AInv, Serial, Serial', ReaderOK, ReaderOK', ReadsOK, ReadsOK',
           SeenApart, ProofOK, [DNext]_dvars
    PROVE  ProofOK'
<1> SUFFICES ASSUME reader' # None, reader'.query.kind = "proof", readFailures' = 0,
                    NEW x, x = reader'.query.leaf
             PROVE  /\ reader'.at = "load" /\ x \in SeenIds' => ToBeLoaded(x)'
                    /\ reader'.at = "leaf" => LoadedFor(x)'
                    /\ reader'.at = "done" => Proved'
  BY DEF ProofOK, ToBeLoaded, LoadedFor, Apart, Ids
<1>1. readFailures = 0
  BY FailuresCount
<1>2. \A y : Apart(y) => Apart(y)' /\ NotWritten(y)
  BY ApartGoesOn
<1>3. CASE Ask
  <2>1. PICK q \in Queries : /\ reader'.query = q
                             /\ reader'.at = IF EmptyRange(q) \/ (q.kind = "report" /\ q.limit = 0)
                                             THEN "done" ELSE FirstStep(q)
    BY <1>3 DEF Ask, Becomes
  <2>2. reader'.at \in {"active", "hint"}
    BY <2>1 DEF EmptyRange, FirstStep
  <2> QED
    BY <2>2
<1>4. CASE ~Ask
  <2>1. /\ reader # None /\ reader'.query = reader.query /\ reader.query.leaf = x
        /\ reader'.seen.pages = reader.seen.pages
    BY <1>4, CallStays
  <2>2. SeenIds' = SeenIds
    BY <2>1 DEF SeenIds, Ids
  <2>3. CASE ReadStep
    <3>1. storage' = storage
      BY <2>3, ReadsChangeNothing DEF vars, managerVars
    <3>2. /\ reader'.at = "load" /\ x \in SeenIds
                => \A q \in storage : x \in Ids(q)
                                        => \E s \in reader'.todo : s.id = q.id
          /\ reader'.at = "leaf" => /\ reader'.held \in storage
                                    /\ x \in Ids(reader'.held)
          /\ reader'.at = "done" => Proved'
      BY <1>1, <2>1, <2>2, <2>3, <3>1, SearchStep
    <3>3. reader'.at = "leaf" => LoadedFor(x)'
      <4> SUFFICES ASSUME reader'.at = "leaf" PROVE LoadedFor(x)'
        BY <2>1
      <4>1. reader'.held \in storage /\ x \in Ids(reader'.held)
        BY <3>2
      <4>2. /\ reader'.held.level = 0 /\ Apart(x)
            /\ \A q \in storage : x \in Ids(q) => q = reader'.held
        BY <4>1, OnePageHas
      <4> QED
        BY <1>2, <2>1, <3>1, <4>1, <4>2 DEF LoadedFor, Ids
    <3> QED
      BY <2>1, <2>2, <3>1, <3>2, <3>3 DEF ToBeLoaded, Ids
  <2>4. CASE ~ReadStep
    <3>1. \/ reader' = reader /\ storage' = storage
          \/ reader.at # "done" /\ reader' = [reader EXCEPT !.seen.alone = FALSE]
      BY <1>4, <2>1, <2>4 DEF DNext, AddLeafStep, DeletePage, Disturbed, RestartAll, dvars,
         readerVars, vars, managerVars
    <3>2. /\ reader'.at = reader.at /\ reader'.todo = reader.todo /\ reader'.held = reader.held
          /\ reader'.answer = reader.answer
      BY <2>1, <3>1 DEF ReaderOK, IsReader
    <3>3. reader'.at = "load" /\ x \in SeenIds'
            => ToBeLoaded(x)'
      <4> SUFFICES ASSUME reader.at = "load", x \in SeenIds
                   PROVE  ToBeLoaded(x)'
        BY <2>1, <2>2, <3>2
      <4>1. ToBeLoaded(x)
        BY <1>1, <2>1 DEF ProofOK
      <4>2. NotWritten(x)
        BY <1>2, <2>1 DEF SeenApart
      <4> QED
        BY <2>1, <3>2, <4>1, <4>2 DEF ToBeLoaded, NotWritten, Ids
    <3>4. reader'.at = "leaf" => LoadedFor(x)'
      <4> SUFFICES ASSUME reader.at = "leaf" PROVE LoadedFor(x)'
        BY <2>1, <3>2
      <4>1. LoadedFor(x)
        BY <1>1, <2>1 DEF ProofOK
      <4>2. Apart(x)' /\ NotWritten(x)
        BY <1>2, <4>1 DEF LoadedFor
      <4> QED
        BY <2>1, <3>2, <4>1, <4>2 DEF LoadedFor, NotWritten, Ids
    <3>5. reader'.at = "done" => Proved'
      <4> SUFFICES ASSUME reader.at = "done" PROVE Proved'
        BY <3>2
      <4>1. reader' = reader /\ storage' = storage
        BY <3>1
      <4>2. Proved
        BY <1>1, <2>1 DEF ProofOK
      <4> QED
        BY <4>1, <4>2 DEF Proved, StoredAllAlong
    <3> QED
      BY <3>3, <3>4, <3>5
  <2> QED
    BY <2>3, <2>4
<1> QED
  BY <1>3, <1>4

AwayInv == AInv /\ SeenApart

LEMMA SeenInv == DSpec /\ []Serial => []AwayInv
<1>1. DInit => AwayInv
  BY ApartFromStart DEF AwayInv, SeenApart, DInit
<1>2. DInv /\ AwayInv /\ Serial /\ Serial' /\ [DNext]_dvars => AwayInv'
  BY ApartGoesOn, SeenOK DEF DInv, AwayInv
<1> QED
  BY <1>1, <1>2, ReadersInv, PTL DEF DSpec

(***************************************************************************)
(* generate_leaf_inclusion_proof: one call of add_leaf at a time, whatever *)
(* is stored, rolled up, deleted or restarted between the steps of the     *)
(* search, a leaf that is in the store all along is found, and the proof   *)
(* is one of a page of the store that has it and verifies for it alone.    *)
(***************************************************************************)
THEOREM SpecStoredLeafProved == DSpec /\ []Serial => []StoredLeafProved
<1>1. DInit => ProofOK
  BY DEF DInit, ProofOK
<1>2. DInv /\ DInv' /\ AwayInv /\ Serial /\ Serial' /\ ProofOK /\ [DNext]_dvars => ProofOK'
  BY ProofMoves DEF DInv, AwayInv
<1>3. ProofOK => StoredLeafProved
  BY ProofFollows
<1> QED
  BY <1>1, <1>2, <1>3, ReadersInv, SeenInv, PTL DEF DSpec

----------------------------------------------------------------------------
(***************************************************************************)
(* Reports, while leaves come in order.                                    *)
(***************************************************************************)

(* Of a page, no leaf is earlier than one before it, or later than any. *)
LeavesSorted(p) ==
    \A i \in DOMAIN p.leaves : /\ p.leaves[i].ts <= newest
                               /\ \A j \in 1 .. i : p.leaves[j].ts <= p.leaves[i].ts

SortedInv ==
    /\ \A p \in Around : LeavesSorted(p)
    /\ \A a \in Appenders : pc[a] # "idle" => call[a].leaf.ts = newest

LEMMA SortedCall ==
    ASSUME Lateness = 0, IInv, SortedInv, NEW a \in Appenders, Alone(a), CallAddLeaf(a)
    PROVE  SortedInv'
<1>1. /\ Mine(a) /\ pc[a] = "idle" /\ pc'[a] = "take" /\ page' = page
      /\ activePages' = activePages /\ storage' = storage
  BY CallEffect DEF managerVars
<1>2. PICK ts \in Times : \E op, obj :
        /\ newest <= ts + Lateness
        /\ call' = [call EXCEPT ![a] =
                      [leaf |-> [id |-> leafCount, ts |-> ts, obj |-> obj],
                       op |-> op, pageId |-> None, retaken |-> FALSE, after |-> "done"]]
        /\ newest' = IF ts > newest THEN ts ELSE newest
  BY DEF CallAddLeaf
<1>3. ts \in Nat /\ newest \in Nat
  BY WorkloadAssumption DEF IInv, TypeOK, CountersTypeOK
<1>4. newest' = ts /\ newest <= newest' /\ newest' \in Nat
  BY <1>2, <1>3
<1>5. call'[a].leaf.ts = newest'
  BY <1>2, <1>4 DEF IInv, TypeOK
<1>6. \A b \in Appenders \ {a} : pc'[b] = "idle"
  BY <1>1 DEF Alone, Mine
<1>7. Around' = Around
  BY <1>1, AroundAfter DEF Around, Mine, HoldsPage
<1>8. ASSUME NEW p \in Around PROVE LeavesSorted(p)'
  <2>1. \A i \in DOMAIN p.leaves : p.leaves[i].ts \in Nat
    <3>1. \A i \in DOMAIN p.leaves : p.leaves[i] \in Leaf
      BY <1>8, AroundArePages DEF IsPage
    <3> QED
      BY <3>1 DEF Leaf
  <2>2. LeavesSorted(p)
    BY <1>8 DEF SortedInv
  <2> QED
    BY <1>3, <1>4, <2>1, <2>2 DEF LeavesSorted
<1> QED
  BY <1>5, <1>6, <1>7, <1>8 DEF SortedInv

LEMMA SortedAppend ==
    ASSUME NEW p, p.leaves \in Seq(Leaf), NEW leaf, leaf.ts = newest, newest \in Nat, NEW q,
           q.leaves = Append(p.leaves, leaf), LeavesSorted(p)
    PROVE  LeavesSorted(q)
<1> DEFINE n == Len(p.leaves)
<1>1. IsList(p.leaves) /\ n \in Nat /\ DOMAIN p.leaves = 1 .. n
  BY SeqIsList
<1>2. /\ DOMAIN q.leaves = 1 .. n + 1 /\ q.leaves[n + 1] = leaf
      /\ \A i \in 1 .. n : q.leaves[i] = p.leaves[i]
  BY <1>1, AppendList
<1> HIDE DEF n
<1>3. ASSUME NEW i \in 1 .. n + 1
      PROVE  /\ q.leaves[i].ts <= newest
             /\ \A j \in 1 .. i : q.leaves[j].ts <= q.leaves[i].ts
  <2>1. CASE i = n + 1
    <3>1. ASSUME NEW j \in 1 .. i PROVE q.leaves[j].ts <= newest
      <4>1. j \in 1 .. n \/ j = n + 1
        BY <1>1, <2>1
      <4> QED
        BY <1>1, <1>2, <4>1 DEF LeavesSorted
    <3> QED
      BY <1>1, <1>2, <2>1, <3>1
  <2>2. CASE i # n + 1
    <3>1. i \in 1 .. n /\ \A j \in 1 .. i : j \in 1 .. n
      BY <1>1, <2>2
    <3> QED
      BY <1>1, <1>2, <3>1 DEF LeavesSorted
  <2> QED
    BY <2>1, <2>2
<1> QED
  BY <1>2, <1>3 DEF LeavesSorted

LEMMA SortedStep ==
    ASSUME IInv, HandsOK, SortedInv, NEW a \in Appenders, Alone(a), Step(a)
    PROVE  SortedInv'
<1>1. Mine(a) /\ SameLeaf(a) /\ newest \in Nat
  BY CallStepOK, StepSameLeaf DEF IInv, TypeOK, CountersTypeOK
<1>2. newest' = newest
  BY DEF Step, TakeActivePage, RetireActivePage, FindNoActivePage,
     CreatePage, PreFinalize, AppendLeaf, KeepActivePage, StorePage, StorageFails,
     TrackFinalized, LoadChild, ChildMissing, RetireStaleParent, ParentNotStale,
     ReuseParent, ReopenParent, CreateParent, DiscardParent, FinalizeParent, KeepParent,
     ReturnToParent, ReturnToAddLeaf, worldVars
<1>3. \A b \in Appenders : pc'[b] # "idle" => call'[b].leaf.ts = newest'
  BY <1>1, <1>2 DEF Alone, Mine, SameLeaf, SortedInv
<1>4. ASSUME NEW p \in Around' PROVE LeavesSorted(p)'
  <2>1. CASE AppendLeaf(a)
    <3>1. /\ page[a] \in Around /\ IsPage(page[a]) /\ pc[a] = "have"
          /\ page'[a].leaves = Append(page[a].leaves, call[a].leaf)
          /\ UNCHANGED managerVars
      BY <2>1, AppendLeafEffect
    <3>2. p \in Around \/ p = page'[a]
      BY <1>1, <1>4, <3>1, AroundAfter, AroundParts DEF managerVars
    <3>3. LeavesSorted(page'[a])
      <4>1. page[a].leaves \in Seq(Leaf) /\ LeavesSorted(page[a]) /\ call[a].leaf.ts = newest
        BY <3>1 DEF IsPage, SortedInv
      <4> QED
        BY <1>1, <3>1, <4>1, SortedAppend
    <3> QED
      BY <1>2, <3>2, <3>3 DEF SortedInv, LeavesSorted
  <2>2. CASE ~AppendLeaf(a)
    <3>1. p.leaves = <<>> \/ \E q \in Around : q.leaves = p.leaves
      BY <1>4, <2>2, StepInherits DEF Inherits, Fresh, WasThere
    <3> QED
      BY <1>2, <3>1 DEF SortedInv, LeavesSorted
  <2> QED
    BY <2>1, <2>2
<1> QED
  BY <1>3, <1>4 DEF SortedInv

LEMMA SortedOK ==
    ASSUME Lateness = 0, IInv, LInv, Serial, Serial', SortedInv, [DNext]_dvars
    PROVE  SortedInv'
<1>1. CASE \E a \in Appenders : CallAddLeaf(a) \/ Step(a)
  <2>1. PICK a \in Appenders : CallAddLeaf(a) \/ Step(a)
    BY <1>1
  <2>2. Alone(a) /\ HandsOK
    BY <2>1, SerialAlone DEF LInv
  <2> QED
    BY <2>1, <2>2, SortedCall, SortedStep
<1>2. CASE UNCHANGED vars
  BY <1>2 DEF vars, managerVars, callVars, worldVars, SortedInv, LeavesSorted, Around
<1>3. CASE Restart
  <2>1. /\ activePages' = {} /\ storage' = storage /\ newest' = newest
        /\ \A a \in Appenders : pc'[a] = "idle"
    BY <1>3 DEF Restart
  <2>2. Around' \subseteq Around
    BY <2>1 DEF Around, HoldsPage
  <2> QED
    BY <2>1, <2>2 DEF SortedInv, LeavesSorted
<1>4. CASE /\ storage' \subseteq storage
           /\ UNCHANGED <<activePages, nextPageId, lastFinalized, callVars, worldVars>>
  <2>1. newest' = newest /\ pc' = pc /\ call' = call /\ page' = page
    BY <1>4 DEF callVars, worldVars
  <2>2. Around' \subseteq Around
    BY <1>4, <2>1 DEF Around
  <2> QED
    BY <2>1, <2>2 DEF SortedInv, LeavesSorted
<1> QED
  BY <1>1, <1>2, <1>3, <1>4, ManagerMoves

(* Two lists one after the other. *)
LEMMA JoinedSet ==
    ASSUME NEW S, NEW s \in Seq(S), NEW t \in Seq(S)
    PROVE  ToSet(s) \cup ToSet(t) \subseteq ToSet(s \o t)
<1>1. /\ Len(s) \in Nat /\ Len(t) \in Nat
      /\ DOMAIN s = 1 .. Len(s) /\ DOMAIN t = 1 .. Len(t)
      /\ DOMAIN (s \o t) = 1 .. Len(s) + Len(t)
      /\ \A i \in 1 .. Len(s) : (s \o t)[i] = s[i]
      /\ \A j \in 1 .. Len(t) : (s \o t)[Len(s) + j] = t[j]
  OBVIOUS
<1>2. ToSet(s) \subseteq ToSet(s \o t)
  <2>1. \A i \in 1 .. Len(s) : i \in 1 .. Len(s) + Len(t)
    BY <1>1
  <2> QED
    BY <1>1, <2>1 DEF ToSet
<1>3. ToSet(t) \subseteq ToSet(s \o t)
  <2>1. \A j \in 1 .. Len(t) : Len(s) + j \in 1 .. Len(s) + Len(t)
    BY <1>1
  <2> QED
    BY <1>1, <2>1 DEF ToSet
<1> QED
  BY <1>2, <1>3

(***************************************************************************)
(* A stored leaf that was asked for, and was there when the call began, is *)
(* among those found, or its page is still to be loaded.                   *)
(***************************************************************************)
FoundOrListed ==
    \A q \in storage : \A i \in DOMAIN q.leaves :
        Asked(q.leaves[i]) /\ q.leaves[i].id \in SeenIds =>
            \/ q.leaves[i] \in ToSet(reader.leaves)
            \/ PageSummary(q, FALSE) \in reader.todo

Reports == {l \in StoredAllAlong : Asked(l)} \subseteq ToSet(AnswerOr(<<>>))

ReportOK ==
    reader # None /\ reader.query.kind = "report" /\ reader.query.limit = None
      /\ readFailures = 0 =>
        /\ reader.at \in {"active", "again", "load"} => FoundOrListed
        /\ reader.at = "done" => Reports

(* A page loaded gives all that was asked for. *)
LEMMA LoadedGives ==
    ASSUME IInv, BInv, LInv, AInv, SortedInv, reader # None, IsReader(reader),
           reader.query.kind = "report",
           NEW q \in storage, NEW i \in DOMAIN q.leaves, Asked(q.leaves[i])
    PROVE  LET s == PageSummary(q, FALSE)
               found == IF Overlaps(s, reader.query)
                        THEN {Matches(p.leaves, reader.query) : p \in StoredOrActive(s)}
                        ELSE {}
           IN q.leaves[i] \in ToSet(FlattenSeq(SetToSeq(found)))
<1> DEFINE s == PageSummary(q, FALSE)
           from == reader.query.from
           to == reader.query.to
           l == q.leaves[i]
           found == IF Overlaps(s, reader.query)
                    THEN {Matches(p.leaves, reader.query) : p \in StoredOrActive(s)}
                    ELSE {}
<1>1. /\ q.leaves \in Seq(Leaf) /\ q.level = 0 /\ q.start \in Nat /\ l.id \in Ids(q)
      /\ l.ts \in Nat
  <2>1. l.id \in Ids(q)
    BY DEF Ids
  <2>2. IsPage(q) /\ q.level = 0
    BY <2>1, OnePageHas
  <2>3. l \in Leaf
    BY <2>2 DEF IsPage
  <2> QED
    BY <2>1, <2>2, <2>3 DEF IsPage, Leaf
<1>2. from \in Int /\ to \in Int
  BY ReaderAssumption DEF IsReader
<1>3. Concerns(l, reader.query.of) /\ from <= l.ts /\ l.ts <= to
  BY DEF Asked
<1>4. Overlaps(s, reader.query)
  <2>1. InWindow(q, l.ts)
    BY DEF BInv, MapsBounded, WithinBounds
  <2>2. s.start = q.start /\ s.level = 0 /\ EndTime(Window(s)) = EndTime(q)
    BY <1>1 DEF PageSummary, Window, EndTime
  <2>3. EndTime(q) \in Nat /\ q.start <= l.ts /\ l.ts < EndTime(q)
    BY <2>1, EndOfPage DEF InWindow, IInv, TypeOK, ManagerTypeOK
  <2> HIDE DEF s, l, from, to
  <2>4. EndTime(q) >= from /\ q.start <= to
    BY <1>1, <1>2, <1>3, <2>3
  <2>5. EndTime(Window(s)) >= from /\ s.start <= to
    BY <2>2, <2>4
  <2> QED
    BY <2>5 DEF Overlaps, from, to
<1>5. StoredOrActive(s) = {q}
  BY <1>1 DEF StoredOrActive, Stored, PageSummary, AInv, StoredUnique
<1>6. l \in ToSet(Matches(q.leaves, reader.query))
  <2>1. \A j \in 1 .. i : q.leaves[j].ts <= l.ts /\ q.leaves[j].ts \in Nat
    <3>1. LeavesSorted(q)
      BY AroundParts DEF SortedInv
    <3>2. \A j \in 1 .. i : j \in DOMAIN q.leaves /\ q.leaves[j] \in Leaf
      BY <1>1
    <3> QED
      BY <3>1, <3>2 DEF LeavesSorted, Leaf
  <2>2. \A j \in 1 .. i : ~(q.leaves[j].ts > to)
    BY <1>1, <1>2, <1>3, <2>1
  <2>3. l.ts >= from
    BY <1>1, <1>2, <1>3
  <2> QED
    BY <1>1, <1>3, <2>2, <2>3, MatchesHas
<1>7. Matches(q.leaves, reader.query) \in Seq(Leaf)
  BY <1>1, MatchesHas
<1>8. found = {Matches(q.leaves, reader.query)}
  BY <1>4, <1>5
<1> HIDE DEF found, l
<1>9. FlattenSeq(SetToSeq(found)) = Matches(q.leaves, reader.query)
  BY <1>7, <1>8, FlattenFound
<1> QED
  BY <1>6, <1>9 DEF found, l

(* What is found is a list of leaves. *)
LEMMA FoundIsList ==
    ASSUME IInv, StoredUnique, reader # None, IsReader(reader), reader.query.kind = "report",
           NEW s
    PROVE  LET found == IF Overlaps(s, reader.query)
                        THEN {Matches(p.leaves, reader.query) : p \in StoredOrActive(s)}
                        ELSE {}
           IN FlattenSeq(SetToSeq(found)) \in Seq(Leaf)
<1> DEFINE found == IF Overlaps(s, reader.query)
                    THEN {Matches(p.leaves, reader.query) : p \in StoredOrActive(s)}
                    ELSE {}
<1>1. /\ \A p \in StoredOrActive(s) : IsPage(p)
      /\ \A p, r \in StoredOrActive(s) : p = r
  <2>1. /\ \A p \in storage : IsPage(p)
        /\ reader.held # None => IsPage(reader.held)
    BY DEF IInv, TypeOK, ManagerTypeOK, IsReader, HeldOK
  <2> QED
    BY <2>1 DEF StoredOrActive, Stored, StoredUnique
<1>2. \A p \in StoredOrActive(s) : Matches(p.leaves, reader.query) \in Seq(Leaf)
  BY <1>1, MatchesHas DEF IsPage
<1>3. found \subseteq Seq(Leaf) /\ \A m, n \in found : m = n
  BY <1>1, <1>2
<1> HIDE DEF found
<1> QED
  BY <1>3, FlattenFound DEF found

LEMMA ReportStep ==
    ASSUME IInv, BInv, LInv, AInv, SortedInv, ReaderOK, ReadsOK, ReportOK, ReadStep,
           readFailures = 0, readFailures' = 0, reader # None,
           reader.query.kind = "report", reader.query.limit = None,
           reader'.query = reader.query, SeenIds' = SeenIds, storage' = storage
    PROVE  /\ reader'.at \in {"active", "again", "load"} => FoundOrListed'
           /\ reader'.at = "done" => Reports'
<1>1. IsReader(reader) /\ readFailures \in Nat
  BY DEF ReaderOK, ReadsOK
<1>2. reader.level = 0 /\ reader.at \in Steps
  BY <1>1 DEF IsReader
<1>3. List \/ ListActive \/ HoldActive \/ LoadForReport \/ ReportDone
  <2>1. ~ListFails /\ ~LoadFails /\ ~StoreUnlinkedSnapshot /\ ~StoreSnapshotFails
    BY <1>1 DEF ListFails, LoadFails, StoreUnlinkedSnapshot, StoreSnapshotFails
  <2> QED
    BY <2>1 DEF ReadStep, At, ActiveId, FindActiveInStore, ActiveLeaves,
       TryHint, LoadForProof, LoadLeaf, NoProof, LoadForState, StateRebuilt,
       LoadForIntegrity, PeekActive, IntegrityDone, LoadForSnapshot, LevelRead, StoreSnapshot,
       WriteSnapshot
<1>4. \A l : Asked(l)' <=> Asked(l)
  BY DEF Asked
(* More is listed, and nothing is forgotten. *)
<1>5. ASSUME FoundOrListed, reader.todo \subseteq reader'.todo, reader'.leaves = reader.leaves
      PROVE  FoundOrListed'
  BY <1>4, <1>5 DEF FoundOrListed, PageSummary
<1>6. CASE List
  <2> DEFINE listed == {s \in Listing(reader.level) :
                          reader.query.kind = "snapshot" => s.start <= reader.query.to}
             new == reader.todo \cup listed
  <2>1. reader' = [reader EXCEPT !.todo = new, !.at = "active"]
    BY <1>6 DEF List, Becomes
  <2>2. reader'.todo = new /\ reader'.at = "active" /\ reader'.leaves = reader.leaves
    BY <1>1, <2>1 DEF IsReader
  <2>3. ASSUME NEW q \in storage, NEW i \in DOMAIN q.leaves
        PROVE  PageSummary(q, FALSE) \in new
    <3>1. q.leaves[i].id \in Ids(q)
      BY DEF Ids
    <3>2. q.level = 0
      BY <3>1, OnePageHas
    <3> QED
      BY <1>2, <3>2 DEF Listing
  <2> QED
    BY <2>2, <2>3 DEF FoundOrListed, PageSummary
<1>7. CASE ListActive
  <2> DEFINE new == reader.todo \cup ActiveSummary(reader.level)
  <2>1. reader' = [reader EXCEPT !.todo = new, !.at = "again"] /\ reader.at = "active"
    BY <1>7 DEF ListActive, Becomes, At
  <2>2. reader'.todo = new /\ reader'.at = "again" /\ reader'.leaves = reader.leaves
    BY <1>1, <2>1 DEF IsReader
  <2>3. FoundOrListed
    BY <2>1 DEF ReportOK
  <2> HIDE DEF new
  <2>4. FoundOrListed'
    BY <1>5, <2>2, <2>3 DEF new
  <2> QED
    BY <2>2, <2>4
<1>8. CASE HoldActive
  <2> DEFINE held == IF ActiveSeen(0) = {} THEN None ELSE CHOOSE p \in ActiveSeen(0) : TRUE
  <2>1. reader' = [reader EXCEPT !.held = held, !.at = "load"] /\ reader.at = "again"
    BY <1>8 DEF HoldActive, Becomes, At
  <2> HIDE DEF held
  <2>2. reader'.todo = reader.todo /\ reader'.at = "load" /\ reader'.leaves = reader.leaves
    BY <1>1, <2>1 DEF IsReader
  <2>3. FoundOrListed
    BY <2>1 DEF ReportOK
  <2> QED
    BY <1>5, <2>2, <2>3
<1>9. CASE LoadForReport
  <2> DEFINE found(s) == IF Overlaps(s, reader.query)
                         THEN {Matches(p.leaves, reader.query) : p \in StoredOrActive(s)}
                         ELSE {}
             list(s) == FlattenSeq(SetToSeq(found(s)))
  <2>1. PICK s : /\ reader.at = "load"
                 /\ reader' = [reader EXCEPT !.todo = @ \ {s}, !.leaves = @ \o list(s)]
    BY <1>9 DEF LoadForReport, Becomes, At
  <2>2. list(s) \in Seq(Leaf)
    BY <1>1, FoundIsList DEF AInv
  <2>3. \A q \in storage : \A i \in DOMAIN q.leaves :
           Asked(q.leaves[i]) => q.leaves[i] \in ToSet(list(PageSummary(q, FALSE)))
    BY <1>1, LoadedGives
  <2> HIDE DEF list
  <2>4. /\ reader'.at = "load" /\ reader'.todo = reader.todo \ {s}
        /\ reader'.leaves = reader.leaves \o list(s)
    BY <1>1, <2>1 DEF IsReader
  <2>5. ToSet(reader.leaves) \cup ToSet(list(s)) \subseteq ToSet(reader'.leaves)
    <3>1. reader.leaves \in Seq(Leaf)
      BY <1>1 DEF IsReader
    <3> QED
      BY <2>2, <2>4, <3>1, JoinedSet
  <2>6. FoundOrListed
    BY <2>1 DEF ReportOK
  <2>7. FoundOrListed'
    <3> SUFFICES ASSUME NEW q \in storage, NEW i \in DOMAIN q.leaves,
                        Asked(q.leaves[i]), q.leaves[i].id \in SeenIds
                 PROVE  \/ q.leaves[i] \in ToSet(reader'.leaves)
                        \/ PageSummary(q, FALSE) \in reader'.todo
      BY <1>4 DEF FoundOrListed, PageSummary
    <3>1. q.leaves[i] \in ToSet(reader.leaves) \/ PageSummary(q, FALSE) \in reader.todo
      BY <2>6 DEF FoundOrListed
    <3>2. PageSummary(q, FALSE) = s => q.leaves[i] \in ToSet(list(s))
      BY <2>3
    <3> QED
      BY <2>4, <2>5, <3>1, <3>2
  <2> QED
    BY <2>4, <2>7
<1>10. CASE ReportDone
  <2>1. reader.at = "load" /\ reader.todo = {}
    BY <1>10 DEF ReportDone, At, Enough
  <2>2. FoundOrListed
    BY <2>1 DEF ReportOK
  <2>3. reader'.seen.pages = reader.seen.pages => StoredAllAlong' = StoredAllAlong
    BY DEF StoredAllAlong
  <2>4. ASSUME NEW l \in StoredAllAlong, Asked(l) PROVE l \in ToSet(reader.leaves)
    <3>1. l.id \in SeenIds /\ \E q \in storage : \E i \in DOMAIN q.leaves : q.leaves[i] = l
      BY <2>4 DEF StoredAllAlong, LeavesIn, SeenIds, Ids
    <3> QED
      BY <2>1, <2>2, <2>4, <3>1 DEF FoundOrListed
  <2>5. CASE reader.leaves = <<>>
    <3>1. reader' = [reader EXCEPT !.at = "done",
                                   !.answer = Result(FALSE, "ContainerNotFound")]
      BY <1>10, <2>5 DEF ReportDone, Refuse, Becomes
    <3>2. /\ reader'.at = "done" /\ reader'.answer = Result(FALSE, "ContainerNotFound")
          /\ reader'.seen.pages = reader.seen.pages
      BY <1>1, <3>1 DEF IsReader
    <3>3. AnswerOr(<<>>)' = reader.leaves
      BY <2>5, <3>2 DEF AnswerOr, Result
    <3> QED
      BY <1>4, <2>3, <2>4, <3>2, <3>3 DEF Reports
  <2>6. CASE reader.leaves # <<>>
    <3> DEFINE sorted == ByTime(reader.leaves)
    <3>1. reader' = [reader EXCEPT !.at = "done", !.answer = Result(TRUE, sorted)]
      BY <1>10, <2>6 DEF ReportDone, Answer, Becomes, Slice
    <3>2. ToSet(reader.leaves) \subseteq ToSet(sorted)
      BY <1>1, ByTimeKeeps DEF IsReader
    <3> HIDE DEF sorted
    <3>3. /\ reader'.at = "done" /\ reader'.answer = Result(TRUE, sorted)
          /\ reader'.seen.pages = reader.seen.pages
      BY <1>1, <3>1 DEF IsReader
    <3>4. AnswerOr(<<>>)' = sorted
      BY <3>3 DEF AnswerOr, Result
    <3> QED
      BY <1>4, <2>3, <2>4, <3>2, <3>3, <3>4 DEF Reports
  <2> QED
    BY <2>5, <2>6
<1> QED
  BY <1>3, <1>6, <1>7, <1>8, <1>9, <1>10

LEMMA ReportMoves ==
    ASSUME Lateness = 0, IInv, BInv, LInv, AInv, Serial, Serial', SortedInv, ReaderOK,
           ReadsOK, SeenApart, ReportOK, [DNext]_dvars
    PROVE  ReportOK'
<1> SUFFICES ASSUME reader' # None, reader'.query.kind = "report",
                    reader'.query.limit = None, readFailures' = 0
             PROVE  /\ reader'.at \in {"active", "again", "load"} => FoundOrListed'
                    /\ reader'.at = "done" => Reports'
  BY DEF ReportOK
<1>1. readFailures = 0
  BY FailuresCount
<1>2. \A x : Apart(x) => NotWritten(x)
  BY ApartGoesOn
<1>3. CASE Ask
  <2>1. PICK q \in Queries :
          /\ reader'.query = q
          /\ reader'.at = IF EmptyRange(q) \/ (q.kind = "report" /\ q.limit = 0)
                          THEN "done" ELSE FirstStep(q)
    BY <1>3 DEF Ask, Becomes
  <2>2. q.from \in Int /\ q.to \in Int /\ q.limit # 0
    BY <2>1, ReaderAssumption, NoneAssumption
  <2>3. CASE ~EmptyRange(q)
    <3>1. reader'.at = "list"
      BY <2>1, <2>2, <2>3 DEF FirstStep
    <3> QED
      BY <3>1
  <2>4. CASE EmptyRange(q)
    <3>1. q.from > q.to /\ reader'.at = "done"
      BY <2>1, <2>4 DEF EmptyRange
    <3>2. storage' = storage
      BY <1>3, ReadsChangeNothing DEF vars, managerVars
    <3>3. ASSUME NEW p \in storage, NEW i \in DOMAIN p.leaves PROVE p.leaves[i].ts \in Nat
      <4>1. p.leaves[i] \in Leaf
        BY DEF IInv, TypeOK, ManagerTypeOK, IsPage
      <4> QED
        BY <4>1 DEF Leaf
    <3>4. \A l \in StoredAllAlong' : l.ts \in Nat
      BY <3>2, <3>3 DEF StoredAllAlong, LeavesIn
    <3>5. \A l \in StoredAllAlong' : ~Asked(l)'
      BY <2>1, <2>2, <3>1, <3>4 DEF Asked
    <3> QED
      BY <3>1, <3>5 DEF Reports
  <2> QED
    BY <2>3, <2>4
<1>4. CASE ~Ask
  <2>1. /\ reader # None /\ reader'.query = reader.query
        /\ reader'.seen.pages = reader.seen.pages
    BY <1>4, CallStays
  <2>2. SeenIds' = SeenIds /\ \A l : Asked(l)' <=> Asked(l)
    BY <2>1 DEF SeenIds, Ids, Asked
  <2>3. CASE ReadStep
    <3>1. storage' = storage
      BY <2>3, ReadsChangeNothing DEF vars, managerVars
    <3> QED
      BY <1>1, <2>1, <2>2, <2>3, <3>1, ReportStep
  <2>4. CASE ~ReadStep
    <3>1. \/ reader' = reader /\ storage' = storage
          \/ reader.at # "done" /\ reader' = [reader EXCEPT !.seen.alone = FALSE]
      BY <1>4, <2>1, <2>4 DEF DNext, AddLeafStep, DeletePage, Disturbed, RestartAll, dvars,
         readerVars, vars, managerVars
    <3>2. /\ reader'.at = reader.at /\ reader'.todo = reader.todo
          /\ reader'.leaves = reader.leaves
      BY <2>1, <3>1 DEF ReaderOK, IsReader
    <3>3. reader'.at \in {"active", "again", "load"} => FoundOrListed'
      <4> SUFFICES ASSUME reader.at \in {"active", "again", "load"} PROVE FoundOrListed'
        BY <3>2
      <4>1. FoundOrListed
        BY <1>1, <2>1 DEF ReportOK
      <4> SUFFICES ASSUME NEW q \in storage', NEW i \in DOMAIN q.leaves,
                          Asked(q.leaves[i]), q.leaves[i].id \in SeenIds
                   PROVE  \/ q.leaves[i] \in ToSet(reader.leaves)
                          \/ PageSummary(q, FALSE) \in reader.todo
        BY <2>2, <3>2 DEF FoundOrListed, PageSummary
      <4>2. NotWritten(q.leaves[i].id) /\ q.leaves[i].id \in Ids(q)
        BY <1>2, <2>1 DEF SeenApart, Ids
      <4>3. q \in storage
        BY <4>2 DEF NotWritten
      <4> QED
        BY <4>1, <4>3 DEF FoundOrListed
    <3>4. reader'.at = "done" => Reports'
      <4> SUFFICES ASSUME reader.at = "done" PROVE Reports'
        BY <3>2
      <4>1. reader' = reader /\ storage' = storage
        BY <3>1
      <4>2. Reports
        BY <1>1, <2>1 DEF ReportOK
      <4> QED
        BY <2>2, <4>1, <4>2 DEF Reports, StoredAllAlong, AnswerOr
    <3> QED
      BY <3>3, <3>4
  <2> QED
    BY <2>3, <2>4
<1> QED
  BY <1>3, <1>4

(***************************************************************************)
(* get_delta_report: while leaves come in order and one call of add_leaf   *)
(* goes on at a time, a report without a limit has every leaf asked for    *)
(* that was in the store when it began and still is, whatever is stored,   *)
(* retired, rolled up, deleted or restarted between the listing, the two   *)
(* looks at the active page, and the loads.                                *)
(***************************************************************************)
THEOREM SpecReportHasStoredLeaves ==
    ASSUME Lateness = 0
    PROVE  DSpec /\ []Serial => []ReportHasStoredLeaves
<1>1. DInit => SortedInv /\ ReportOK
  BY DEF DInit, Init, SortedInv, Around, HoldsPage, ReportOK
<1>2. DInv /\ Serial /\ Serial' /\ SortedInv /\ [DNext]_dvars => SortedInv'
  BY SortedOK DEF DInv
<1>3. DInv /\ AwayInv /\ Serial /\ Serial' /\ SortedInv /\ ReportOK /\ [DNext]_dvars
        => ReportOK'
  BY ReportMoves DEF DInv, AwayInv
<1>4. ReportOK => ReportHasStoredLeaves
  BY DEF ReportOK, Reports, ReportHasStoredLeaves, Answered
<1> QED
  BY <1>1, <1>2, <1>3, <1>4, ReadersInv, SeenInv, PTL DEF DSpec

=============================================================================
