------------------------- MODULE TimeManagerProofs -------------------------
(***************************************************************************)
(* Proofs about TimeHierarchyManager, for all hierarchies, page sizes, age *)
(* limits, numbers of overlapping calls of add_leaf, and bounds.           *)
(***************************************************************************)
EXTENDS TimeManagerProps, SequenceTheorems, FiniteSetTheorems,
        WellFoundedInduction, TLAPS

----------------------------------------------------------------------------
(* Lists: sequences of whatever. *)

(* Sequences are lists. *)
LEMMA SeqIsList ==
    ASSUME NEW S, NEW s \in Seq(S)
    PROVE  IsList(s)
BY DEF IsList

(* One element more at the end. *)
LEMMA AppendList ==
    ASSUME NEW s, IsList(s), NEW e
    PROVE  /\ IsList(Append(s, e))
           /\ Len(Append(s, e)) = Len(s) + 1
           /\ Append(s, e)[Len(s) + 1] = e
           /\ \A i \in 1 .. Len(s) : Append(s, e)[i] = s[i]
           /\ DOMAIN Append(s, e) = 1 .. Len(s) + 1
<1> DEFINE S == {s[i] : i \in 1 .. Len(s)} \cup {e}
<1>1. s \in Seq(S) /\ e \in S
  BY DEF IsList
<1>2. Append(s, e) \in Seq(S)
  BY <1>1
<1> HIDE DEF S
<1>3. IsList(Append(s, e))
  BY <1>2, SeqIsList
<1> QED
  BY <1>1, <1>2, <1>3

(* All but the last element. *)
LEMMA FrontList ==
    ASSUME NEW s, IsList(s), Len(s) > 0
    PROVE  /\ IsList(SubSeq(s, 1, Len(s) - 1))
           /\ Len(SubSeq(s, 1, Len(s) - 1)) = Len(s) - 1
           /\ \A i \in 1 .. Len(s) - 1 : SubSeq(s, 1, Len(s) - 1)[i] = s[i]
           /\ DOMAIN SubSeq(s, 1, Len(s) - 1) = 1 .. Len(s) - 1
<1> DEFINE S == {s[i] : i \in 1 .. Len(s)}
           t == SubSeq(s, 1, Len(s) - 1)
<1>1. s \in Seq(S)
  BY DEF IsList
<1>2. Len(s) \in Nat
  BY DEF IsList
<1> HIDE DEF S
<1>3. t \in Seq(S) /\ Len(t) = Len(s) - 1 /\ \A i \in 1 .. Len(s) - 1 : t[i] = s[i]
  <2> DEFINE n == Len(s) - 1
  <2>1. n \in Nat /\ n <= Len(s)
    BY <1>2
  <2>2. n >= 1 => n \in 1 .. Len(s) /\ 1 \in 1 .. Len(s)
    BY <1>2
  <2>3. \A i \in 1 .. n : i \in 1 .. Len(s) /\ s[i] \in S
    BY <1>1, <1>2
  <2>4. t = [i \in 1 .. n |-> s[i]]
    BY <1>1, <1>2 DEF t
  <2> HIDE DEF n, t
  <2>5. t \in Seq(S) /\ Len(t) = n /\ \A i \in 1 .. n : t[i] = s[i]
    BY <2>1, <2>3, <2>4
  <2> QED
    BY <2>5 DEF n
<1> HIDE DEF t
<1>4. IsList(t) /\ DOMAIN t = 1 .. Len(s) - 1
  BY <1>2, <1>3, SeqIsList
<1> QED
  BY <1>3, <1>4 DEF t

----------------------------------------------------------------------------
(***************************************************************************)
(* Induction over numbers, in terms of sets: what the recursive functions  *)
(* of the model compute.                                                   *)
(***************************************************************************)

(* The least-number principle, of sets. *)
LEMMA LeastOf ==
    ASSUME NEW T, T \subseteq Nat, T # {}
    PROVE  \E n \in T : \A m \in T : n <= m
<1> DEFINE R == OpToRel(<, Nat)
<1>1. IsWellFoundedOn(R, Nat)
  BY NatLessThanWellFounded
<1>2. \A x, y \in Nat : <<x, y>> \in R <=> x < y
  BY DEF OpToRel
<1> HIDE DEF R
<1>3. PICK n \in T : \A m \in T : ~(<<m, n>> \in R)
  BY <1>1, WFMin
<1>4. \A m \in T : ~(m < n)
  BY <1>2, <1>3
<1> QED
  BY <1>4

(* So a set of numbers below a bound has a greatest one. *)
LEMMA GreatestOf ==
    ASSUME NEW b \in Nat, NEW T, T \subseteq 0 .. b, T # {}
    PROVE  \E n \in T : \A m \in T : m <= n
<1> DEFINE U == {k \in Nat : \A m \in T : m <= k}
<1>1. b \in U
  OBVIOUS
<1>2. PICK k \in U : \A j \in U : k <= j
  <2> HIDE DEF U
  <2>1. U \subseteq Nat
    BY DEF U
  <2> QED
    BY <1>1, <2>1, LeastOf
<1>3. k \in T
  <2> SUFFICES ASSUME k \notin T PROVE FALSE
    OBVIOUS
  <2>1. \A m \in T : m <= k - 1
    OBVIOUS
  <2>2. k - 1 \in Nat
    <3>1. PICK m \in T : TRUE
      OBVIOUS
    <3>2. m \in Nat /\ m <= k /\ m # k
      OBVIOUS
    <3> QED
      BY <3>2
  <2> QED
    BY <1>2, <2>1, <2>2
<1> QED
  BY <1>3

(* Induction: a set of numbers that holds 0 and with n also n + 1 holds all. *)
LEMMA Induction ==
    ASSUME NEW T, 0 \in T, \A n \in Nat : n \in T => n + 1 \in T
    PROVE  Nat \subseteq T
<1> DEFINE U == Nat \ T
<1> SUFFICES ASSUME U # {} PROVE FALSE
  OBVIOUS
<1>1. U \subseteq Nat
  OBVIOUS
<1>2. PICK n \in U : \A m \in U : n <= m
  BY <1>1, LeastOf
<1>3. n # 0 /\ n - 1 \in Nat /\ n - 1 \notin U /\ (n - 1) + 1 = n
  BY <1>2
<1> QED
  BY <1>3

(***************************************************************************)
(* Recursion: a list of values each made of the one before.                *)
(***************************************************************************)
StaysIn(step, N, V) == \A i \in 1 .. N : \A v \in V : step[<<i, v>>] \in V

MadeBy(f, base, step, N) == f[0] = base /\ \A i \in 1 .. N : f[i] = step[<<i, f[i - 1]>>]

LEMMA Recursion ==
    ASSUME NEW V, NEW base \in V, NEW N \in Nat, NEW step, StaysIn(step, N, V)
    PROVE  \E f \in [0 .. N -> V] : MadeBy(f, base, step, N)
<1> USE DEF StaysIn
<1> DEFINE Made(f, n) == f[0] = base /\ \A i \in 1 .. n : f[i] = step[<<i, f[i - 1]>>]
           T == {n \in Nat : n <= N => \E f \in [0 .. n -> V] : Made(f, n)}
<1>1. 0 \in T
  <2>1. Made([i \in 0 .. 0 |-> base], 0)
    OBVIOUS
  <2> QED
    BY <2>1
<1>2. ASSUME NEW n \in Nat, n \in T PROVE n + 1 \in T
  <2> SUFFICES ASSUME n + 1 <= N PROVE \E g \in [0 .. n + 1 -> V] : Made(g, n + 1)
    OBVIOUS
  <2>1. PICK f \in [0 .. n -> V] : Made(f, n)
    BY <1>2
  <2> DEFINE last == step[<<n + 1, f[n]>>]
             g == [i \in 0 .. n + 1 |-> IF i = n + 1 THEN last ELSE f[i]]
  <2>2. last \in V
    <3>1. n + 1 \in 1 .. N /\ f[n] \in V
      OBVIOUS
    <3> QED
      BY <3>1
  <2> HIDE DEF last
  <2>3. g \in [0 .. n + 1 -> V]
    BY <2>2
  <2>4. \A i \in 0 .. n : g[i] = f[i]
    OBVIOUS
  <2>5. g[n + 1] = last
    OBVIOUS
  <2> HIDE DEF g
  <2>6. ASSUME NEW i \in 1 .. n + 1 PROVE g[i] = step[<<i, g[i - 1]>>]
    <3>1. CASE i = n + 1
      BY <2>4, <2>5, <3>1 DEF last
    <3>2. CASE i # n + 1
      <4>1. i \in 1 .. n /\ i \in 0 .. n /\ i - 1 \in 0 .. n
        BY <3>2
      <4> QED
        BY <2>1, <2>4, <4>1
    <3> QED
      BY <3>1, <3>2
  <2> QED
    BY <2>1, <2>3, <2>4, <2>6
<1>3. N \in T
  <2> HIDE DEF T
  <2> QED
    BY <1>1, <1>2, Induction
<1> QED
  BY <1>3 DEF MadeBy

----------------------------------------------------------------------------
(* Flattening a list of lists. *)
Flat(ss) == CHOOSE f : f = [i \in 1 .. Len(ss) |->
                              IF i = 1 THEN ss[i] ELSE f[i - 1] \o ss[i]]

LEMMA FlatDefined ==
    ASSUME NEW S, NEW ss \in Seq(Seq(S))
    PROVE  /\ Flat(ss) \in [1 .. Len(ss) -> Seq(S)]
           /\ Len(ss) > 0 => Flat(ss)[1] = ss[1]
           /\ \A i \in 2 .. Len(ss) : Flat(ss)[i] = Flat(ss)[i - 1] \o ss[i]
           /\ ss # <<>> => FlattenSeq(ss) = Flat(ss)[Len(ss)]
<1> DEFINE V == Seq(S)
           N == Len(ss)
           step == [x \in (1 .. N) \X V |-> x[2] \o ss[x[1]]]
           Body(f) == [i \in 1 .. N |-> IF i = 1 THEN ss[i] ELSE f[i - 1] \o ss[i]]
<1>1. N \in Nat /\ <<>> \in V /\ \A i \in 1 .. N : ss[i] \in V
  OBVIOUS
<1>2. \A i \in 1 .. N : \A s \in V : s \o ss[i] \in V
  BY <1>1
<1>4. \A i \in 1 .. N : \A s \in V : step[<<i, s>>] = s \o ss[i]
  OBVIOUS
<1>3. StaysIn(step, N, V)
  BY <1>2, <1>4 DEF StaysIn
<1> HIDE DEF step, N, V
<1>5. PICK f \in [0 .. N -> V] : f[0] = <<>> /\ \A i \in 1 .. N : f[i] = step[<<i, f[i - 1]>>]
  <2>1. \E f \in [0 .. N -> V] : MadeBy(f, <<>>, step, N)
    BY <1>1, <1>3, Recursion
  <2> QED
    BY <2>1 DEF MadeBy
<1>6. \A i \in 1 .. N : i - 1 \in 0 .. N /\ f[i - 1] \in V /\ f[i] = f[i - 1] \o ss[i]
  <2> SUFFICES ASSUME NEW i \in 1 .. N
               PROVE  i - 1 \in 0 .. N /\ f[i - 1] \in V /\ f[i] = f[i - 1] \o ss[i]
    OBVIOUS
  <2>1. i - 1 \in 0 .. N
    BY <1>1
  <2>2. f[i - 1] \in V /\ f[i] = step[<<i, f[i - 1]>>]
    BY <1>5, <2>1
  <2> QED
    BY <1>4, <2>1, <2>2
<1>7. N > 0 => f[1] = ss[1]
  <2> SUFFICES ASSUME N > 0 PROVE f[1] = ss[1]
    OBVIOUS
  <2>1. 1 \in 1 .. N /\ 1 - 1 = 0
    BY <1>1
  <2>2. f[1] = f[0] \o ss[1] /\ f[0] = <<>> /\ ss[1] \in Seq(S)
    BY <1>1, <1>5, <1>6, <2>1 DEF V
  <2> QED
    BY <2>2, ConcatEmptySeq
<1> DEFINE g == [i \in 1 .. N |-> f[i]]
<1>8. g = Body(g)
  <2>1. \A i \in 1 .. N : g[i] = IF i = 1 THEN ss[i] ELSE g[i - 1] \o ss[i]
    <3> SUFFICES ASSUME NEW i \in 1 .. N
                 PROVE  g[i] = IF i = 1 THEN ss[i] ELSE g[i - 1] \o ss[i]
      OBVIOUS
    <3>1. CASE i = 1
      BY <1>1, <1>7, <3>1
    <3>2. CASE i # 1
      <4>1. i - 1 \in 1 .. N
        BY <1>1, <3>2
      <4> QED
        BY <1>6, <3>2, <4>1
    <3> QED
      BY <3>1, <3>2
  <2> QED
    BY <2>1
<1> HIDE DEF g
<1>9. Flat(ss) = Body(Flat(ss))
  BY <1>8 DEF Flat, N
<1>10. \A i \in 1 .. N : Flat(ss)[i] = IF i = 1 THEN ss[i] ELSE Flat(ss)[i - 1] \o ss[i]
  BY <1>9
<1>11. Flat(ss) \in [1 .. N -> V]
  <2> DEFINE h == Flat(ss)
             T == {n \in Nat : n + 1 \in 1 .. N => h[n + 1] \in V}
  <2>1. 0 \in T
    <3>1. 1 \in 1 .. N => h[1] \in V
      BY <1>1, <1>10
    <3> QED
      BY <3>1
  <2>2. ASSUME NEW n \in Nat, n \in T PROVE n + 1 \in T
    <3> SUFFICES ASSUME (n + 1) + 1 \in 1 .. N PROVE h[(n + 1) + 1] \in V
      OBVIOUS
    <3>1. n + 1 \in 1 .. N /\ h[n + 1] \in V /\ ((n + 1) + 1) - 1 = n + 1 /\ (n + 1) + 1 # 1
      BY <1>1, <2>2
    <3>2. h[(n + 1) + 1] = h[n + 1] \o ss[(n + 1) + 1]
      BY <1>10, <3>1
    <3> QED
      BY <1>2, <3>1, <3>2
  <2>3. Nat \subseteq T
    <3> HIDE DEF T
    <3> QED
      BY <2>1, <2>2, Induction
  <2>4. ASSUME NEW i \in 1 .. N PROVE h[i] \in V
    <3>1. i - 1 \in Nat /\ i - 1 \in T /\ (i - 1) + 1 = i
      BY <1>1, <2>3
    <3> QED
      BY <3>1
  <2> QED
    BY <1>9, <2>4
<1>12. ss # <<>> => FlattenSeq(ss) = Flat(ss)[N]
  <2> SUFFICES ASSUME ss # <<>> PROVE FlattenSeq(ss) = Flat(ss)[N]
    OBVIOUS
  <2>1. Len(ss) # 0
    OBVIOUS
  <2> QED
    BY <2>1 DEF FlattenSeq, Flat, N
<1>13. N > 0 => Flat(ss)[1] = ss[1]
  BY <1>1, <1>10
<1>14. \A i \in 2 .. N : Flat(ss)[i] = Flat(ss)[i - 1] \o ss[i]
  <2> SUFFICES ASSUME NEW i \in 2 .. N PROVE Flat(ss)[i] = Flat(ss)[i - 1] \o ss[i]
    OBVIOUS
  <2>1. i \in 1 .. N /\ i # 1
    BY <1>1
  <2> QED
    BY <1>10, <2>1
<1> QED
  BY <1>11, <1>12, <1>13, <1>14 DEF N, V

(* Of no list, and of one more list at the end. *)
LEMMA FlattenNothing == FlattenSeq(<<>>) = <<>>
BY DEF FlattenSeq

LEMMA FlattenAppend ==
    ASSUME NEW S, NEW ss \in Seq(Seq(S)), NEW t \in Seq(S)
    PROVE  /\ FlattenSeq(ss) \in Seq(S)
           /\ FlattenSeq(Append(ss, t)) = FlattenSeq(ss) \o t
<1> DEFINE more == Append(ss, t)
           n == Len(ss)
<1>1. /\ more \in Seq(Seq(S)) /\ Len(more) = n + 1 /\ more[n + 1] = t /\ n \in Nat
      /\ \A i \in 1 .. n : more[i] = ss[i]
      /\ more # <<>>
  <2> DEFINE V == Seq(S)
  <2>1. ss \in Seq(V) /\ t \in V
    OBVIOUS
  <2> HIDE DEF V
  <2>2. n \in Nat /\ \A i \in 1 .. n : i \in 1 .. Len(ss)
    BY <2>1, LenProperties
  <2>3. /\ more \in Seq(V) /\ Len(more) = n + 1 /\ more[n + 1] = t
        /\ \A i \in 1 .. n : more[i] = ss[i]
    BY <2>1, <2>2, AppendProperties
  <2>4. more # <<>>
    BY <2>2, <2>3, EmptySeq
  <2> QED
    BY <2>2, <2>3, <2>4 DEF V
<1>2. /\ Flat(ss) \in [1 .. n -> Seq(S)]
      /\ n > 0 => Flat(ss)[1] = ss[1]
      /\ \A i \in 2 .. n : Flat(ss)[i] = Flat(ss)[i - 1] \o ss[i]
      /\ ss # <<>> => FlattenSeq(ss) = Flat(ss)[n]
  BY FlatDefined
<1>3. /\ Flat(more)[1] = more[1]
      /\ \A i \in 2 .. n + 1 : Flat(more)[i] = Flat(more)[i - 1] \o more[i]
      /\ FlattenSeq(more) = Flat(more)[n + 1]
  <2> HIDE DEF more
  <2>1. /\ Len(more) > 0 => Flat(more)[1] = more[1]
        /\ \A i \in 2 .. Len(more) : Flat(more)[i] = Flat(more)[i - 1] \o more[i]
        /\ more # <<>> => FlattenSeq(more) = Flat(more)[Len(more)]
    BY <1>1, FlatDefined
  <2>2. Len(more) = n + 1 /\ Len(more) > 0 /\ more # <<>>
    BY <1>1
  <2>3. \A i \in 2 .. n + 1 : Flat(more)[i] = Flat(more)[i - 1] \o more[i]
    BY <2>1, <2>2
  <2> QED
    BY <2>1, <2>2, <2>3
<1> HIDE DEF more
<1>4. \A i \in 1 .. n : Flat(more)[i] = Flat(ss)[i]
  <2> DEFINE T == {k \in Nat : k + 1 \in 1 .. n => Flat(more)[k + 1] = Flat(ss)[k + 1]}
  <2>1. 0 \in T
    BY <1>1, <1>2, <1>3
  <2>2. ASSUME NEW k \in Nat, k \in T PROVE k + 1 \in T
    <3> SUFFICES ASSUME (k + 1) + 1 \in 1 .. n
                 PROVE  Flat(more)[(k + 1) + 1] = Flat(ss)[(k + 1) + 1]
      OBVIOUS
    <3>1. /\ k + 1 \in 1 .. n /\ Flat(more)[k + 1] = Flat(ss)[k + 1]
          /\ ((k + 1) + 1) - 1 = k + 1 /\ (k + 1) + 1 \in 2 .. n /\ (k + 1) + 1 \in 2 .. n + 1
      BY <1>1, <2>2
    <3>2. \A i \in 2 .. n : i - 1 = k + 1 => Flat(ss)[i] = Flat(ss)[k + 1] \o ss[i]
      BY <1>2
    <3>3. \A i \in 2 .. n + 1 : i - 1 = k + 1 => Flat(more)[i] = Flat(more)[k + 1] \o more[i]
      BY <1>3
    <3>4. more[(k + 1) + 1] = ss[(k + 1) + 1]
      BY <1>1
    <3> QED
      BY <3>1, <3>2, <3>3, <3>4
  <2>3. Nat \subseteq T
    <3> HIDE DEF T
    <3> QED
      BY <2>1, <2>2, Induction
  <2> SUFFICES ASSUME NEW i \in 1 .. n PROVE Flat(more)[i] = Flat(ss)[i]
    OBVIOUS
  <2>4. i - 1 \in Nat /\ (i - 1) + 1 = i
    BY <1>1
  <2> HIDE DEF T
  <2>5. i - 1 \in T
    BY <2>3, <2>4
  <2> QED
    BY <2>4, <2>5 DEF T
<1>5. CASE n = 0
  <2>1. ss = <<>> /\ more[1] = t
    BY <1>1, <1>5
  <2>2. FlattenSeq(more) = t /\ FlattenSeq(ss) = <<>>
    BY <1>1, <1>3, <1>5, <2>1, FlattenNothing
  <2> QED
    BY <2>2 DEF more
<1>6. CASE n > 0
  <2>1. /\ FlattenSeq(ss) = Flat(ss)[n] /\ Flat(ss)[n] \in Seq(S)
        /\ Flat(more)[n] = Flat(ss)[n]
    BY <1>1, <1>2, <1>4, <1>6
  <2>2. Flat(more)[n + 1] = Flat(more)[n] \o t
    <3>1. n + 1 \in 2 .. n + 1 /\ (n + 1) - 1 = n
      BY <1>1, <1>6
    <3> QED
      BY <1>1, <1>3, <3>1
  <2> QED
    BY <1>3, <2>1, <2>2 DEF more
<1> QED
  BY <1>1, <1>5, <1>6

(* A list of one list. *)
LEMMA FlattenOne ==
    ASSUME NEW S, NEW s \in Seq(S)
    PROVE  FlattenSeq(<<s>>) = s
<1>1. <<>> \in Seq(Seq(S)) /\ Append(<<>>, s) = <<s>>
  OBVIOUS
<1>2. FlattenSeq(<<s>>) = <<>> \o s
  BY <1>1, FlattenAppend, FlattenNothing
<1> QED
  BY <1>2

----------------------------------------------------------------------------
(* Pages. *)

(* A window starts at a time, and holds the timestamp it was computed for. *)
LEMMA WindowHolds ==
    ASSUME NEW level \in Levels, NEW ts \in Nat
    PROVE  /\ WindowStart(level, ts) \in Nat
           /\ WindowStart(level, ts) <= ts
           /\ ts < WindowStart(level, ts) + Duration[level]
<1> DEFINE d == Duration[level]
<1>1. d \in Nat /\ d > 0
  BY ConfigAssumption
<1> HIDE DEF d
<1>2. ts \div d \in Nat /\ ts = d * (ts \div d) + (ts % d) /\ ts % d \in 0 .. d - 1
  BY <1>1
<1>3. d * (ts \div d) = (ts \div d) * d /\ (ts \div d) * d \in Nat
  BY <1>1, <1>2
<1>4. (ts \div d) * d <= ts /\ ts < (ts \div d) * d + d
  BY <1>1, <1>2, <1>3
<1> QED
  BY <1>3, <1>4 DEF WindowStart, d

(* What the configuration gives for a level. *)
LEMMA LevelConstants ==
    ASSUME NEW level \in Levels
    PROVE  /\ Duration[level] \in Nat \ {0}
           /\ MaxItems[level] \in Nat \ {0}
           /\ MaxAge[level] \in Nat
BY ConfigAssumption

(* A new page is empty and has space. *)
LEMMA NewPageIsPage ==
    ASSUME NEW id \in Nat, NEW level \in Levels, NEW prev, NEW start \in Nat
    PROVE  /\ IsPage(NewPage(id, level, prev, start))
           /\ NewPage(id, level, prev, start).level = level
           /\ NewPage(id, level, prev, start).start = start
           /\ NewPage(id, level, prev, start).id = id
           /\ NewPage(id, level, prev, start).leaves = <<>>
           /\ IsContentEmpty(NewPage(id, level, prev, start))
<1> DEFINE p == NewPage(id, level, prev, start)
<1>1. /\ p = [id |-> id, level |-> level, start |-> start, prev |-> prev,
              leaves |-> <<>>, kids |-> <<>>, patches |-> NoPatches,
              first |-> None, last |-> None]
      /\ DOMAIN NoPatches = {}
  BY DEF NewPage, NoPatches
<1>2. IsList(<<>>)
  BY DEF IsList
<1> HIDE DEF p
<1>3. IsPage(p)
  BY <1>1, <1>2 DEF IsPage
<1> QED
  BY <1>1, <1>3 DEF p, IsContentEmpty

(* An empty page has space, whatever it is to hold. *)
LEMMA EmptyHasSpace ==
    ASSUME NEW p, IsPage(p), IsContentEmpty(p)
    PROVE  HasSpace(p) /\ ContentLen(p) = 0
<1>1. ContentLen(p) = 0
  BY FS_EmptySet DEF IsContentEmpty, ContentLen
<1> QED
  BY <1>1, LevelConstants DEF HasSpace, IsPage

(* What add_leaf does to a page. *)
LEMMA AddLeafIsPage ==
    ASSUME NEW p, IsPage(p), NEW leaf \in Leaf
    PROVE  /\ IsPage(AddLeaf(p, leaf))
           /\ AddLeaf(p, leaf).leaves = Append(p.leaves, leaf)
           /\ AddLeaf(p, leaf).level = p.level
           /\ AddLeaf(p, leaf).start = p.start
           /\ AddLeaf(p, leaf).id = p.id
           /\ AddLeaf(p, leaf).kids = p.kids
           /\ AddLeaf(p, leaf).patches = p.patches
<1> DEFINE first == Earlier(p.first, leaf.ts)
           last  == Later(p.last, leaf.ts)
           leaves == Append(p.leaves, leaf)
           p1 == [p EXCEPT !.leaves = leaves]
           p2 == [p1 EXCEPT !.first = first]
           p3 == [p2 EXCEPT !.last = last]
<1>1. leaf.ts \in Nat
  BY DEF Leaf
<1>2. first \in Nat \cup {None} /\ last \in Nat \cup {None} /\ leaves \in Seq(Leaf)
  BY <1>1 DEF Earlier, Later, IsPage
<1>3. AddLeaf(p, leaf) = p3
  BY DEF AddLeaf
<1> HIDE DEF first, last, leaves
<1>4. p1 = [id |-> p.id, level |-> p.level, start |-> p.start, prev |-> p.prev,
            leaves |-> leaves, kids |-> p.kids, patches |-> p.patches,
            first |-> p.first, last |-> p.last]
  BY DEF IsPage
<1> HIDE DEF p1
<1>5. p2 = [p1 EXCEPT !.first = first]
  OBVIOUS
<1> HIDE DEF p2
<1>6. p2 = [id |-> p.id, level |-> p.level, start |-> p.start, prev |-> p.prev,
            leaves |-> leaves, kids |-> p.kids, patches |-> p.patches,
            first |-> first, last |-> p.last]
  BY <1>4, <1>5
<1>7. p3 = [id |-> p.id, level |-> p.level, start |-> p.start, prev |-> p.prev,
            leaves |-> leaves, kids |-> p.kids, patches |-> p.patches,
            first |-> first, last |-> last]
  BY <1>6
<1> HIDE DEF p3
<1> QED
  BY <1>2, <1>3, <1>7 DEF IsPage, leaves

(* The end of a window is a time. *)
LEMMA EndOfPage ==
    ASSUME NEW p, IsPage(p)
    PROVE  EndTime(p) \in Nat /\ EndTime(p) = p.start + Duration[p.level]
BY LevelConstants DEF IsPage, EndTime

(* What a child hash does to a parent page. *)
LEMMA AddThrallHashIsPage ==
    ASSUME NEW p, IsPage(p), NEW hash, NEW ts \in Nat
    PROVE  /\ IsPage(AddThrallHash(p, hash, ts))
           /\ AddThrallHash(p, hash, ts).level = p.level
           /\ AddThrallHash(p, hash, ts).start = p.start
           /\ AddThrallHash(p, hash, ts).id = p.id
           /\ AddThrallHash(p, hash, ts).leaves = p.leaves
           /\ AddThrallHash(p, hash, ts).prev = p.prev
           /\ AddThrallHash(p, hash, ts).kids = Append(p.kids, hash)
           /\ Len(AddThrallHash(p, hash, ts).kids) = Len(p.kids) + 1
<1> DEFINE first == OrElse(p.first, ts)
           last  == Later(p.last, ts)
           kids == Append(p.kids, hash)
           p1 == [p EXCEPT !.kids = kids]
           p2 == [p1 EXCEPT !.first = first]
           p3 == [p2 EXCEPT !.last = last]
<1>1. first \in Nat \cup {None} /\ last \in Nat \cup {None}
  BY DEF OrElse, Later, IsPage
<1>2. IsList(kids) /\ Len(kids) = Len(p.kids) + 1 /\ kids = Append(p.kids, hash)
  BY AppendList DEF IsPage
<1>3. AddThrallHash(p, hash, ts) = p3
  BY DEF AddThrallHash
<1> HIDE DEF first, last, kids
<1>4. p1 = [id |-> p.id, level |-> p.level, start |-> p.start, prev |-> p.prev,
            leaves |-> p.leaves, kids |-> kids, patches |-> p.patches,
            first |-> p.first, last |-> p.last]
  BY DEF IsPage
<1> HIDE DEF p1
<1>5. p2 = [id |-> p.id, level |-> p.level, start |-> p.start, prev |-> p.prev,
            leaves |-> p.leaves, kids |-> kids, patches |-> p.patches,
            first |-> first, last |-> p.last]
  BY <1>4
<1> HIDE DEF p2
<1>6. p3 = [id |-> p.id, level |-> p.level, start |-> p.start, prev |-> p.prev,
            leaves |-> p.leaves, kids |-> kids, patches |-> p.patches,
            first |-> first, last |-> last]
  BY <1>5
<1> HIDE DEF p3
<1> QED
  BY <1>1, <1>2, <1>3, <1>6 DEF IsPage

(* What the patches of a child do to a parent page. *)
LEMMA MergeNetPatchesIsPage ==
    ASSUME NEW p, IsPage(p), NEW patches, DOMAIN patches \subseteq Objects, NEW ts \in Nat
    PROVE  /\ IsPage(MergeNetPatches(p, patches, ts))
           /\ MergeNetPatches(p, patches, ts).level = p.level
           /\ MergeNetPatches(p, patches, ts).start = p.start
           /\ MergeNetPatches(p, patches, ts).id = p.id
           /\ MergeNetPatches(p, patches, ts).leaves = p.leaves
           /\ MergeNetPatches(p, patches, ts).prev = p.prev
           /\ MergeNetPatches(p, patches, ts).kids = p.kids
           /\ DOMAIN p.patches \subseteq DOMAIN MergeNetPatches(p, patches, ts).patches
<1> DEFINE first == OrElse(p.first, ts)
           last  == Later(p.last, ts)
           merged == [o \in DOMAIN p.patches \cup DOMAIN patches |->
                         IF o \in DOMAIN patches THEN patches[o] ELSE p.patches[o]]
           p1 == [p EXCEPT !.patches = merged]
           p2 == [p1 EXCEPT !.first = first]
           p3 == [p2 EXCEPT !.last = last]
<1>1. first \in Nat \cup {None} /\ last \in Nat \cup {None}
  BY DEF OrElse, Later, IsPage
<1>2. DOMAIN merged \subseteq Objects /\ DOMAIN p.patches \subseteq DOMAIN merged
  BY DEF IsPage
<1>3. MergeNetPatches(p, patches, ts) = p3
  BY DEF MergeNetPatches
<1> HIDE DEF first, last, merged
<1>4. p1 = [id |-> p.id, level |-> p.level, start |-> p.start, prev |-> p.prev,
            leaves |-> p.leaves, kids |-> p.kids, patches |-> merged,
            first |-> p.first, last |-> p.last]
  BY DEF IsPage
<1> HIDE DEF p1
<1>5. p2 = [id |-> p.id, level |-> p.level, start |-> p.start, prev |-> p.prev,
            leaves |-> p.leaves, kids |-> p.kids, patches |-> merged,
            first |-> first, last |-> p.last]
  BY <1>4
<1> HIDE DEF p2
<1>6. p3 = [id |-> p.id, level |-> p.level, start |-> p.start, prev |-> p.prev,
            leaves |-> p.leaves, kids |-> p.kids, patches |-> merged,
            first |-> first, last |-> last]
  BY <1>5
<1> HIDE DEF p3
<1> QED
  BY <1>1, <1>2, <1>3, <1>6 DEF IsPage

(* What perform_rollup does to a parent: one child hash more, at most. *)
LEMMA RollIntoIsPage ==
    ASSUME NEW parent, IsPage(parent), NEW child, IsPage(child)
    PROVE  /\ IsPage(RollInto(parent, child))
           /\ RollInto(parent, child).level = parent.level
           /\ RollInto(parent, child).start = parent.start
           /\ RollInto(parent, child).id = parent.id
           /\ RollInto(parent, child).leaves = parent.leaves
           /\ RollInto(parent, child).prev = parent.prev
           /\ RollInto(parent, child).kids = IF ContentType[parent.level] = "NetPatches"
                                             THEN parent.kids
                                             ELSE Append(parent.kids, Hash(child))
           /\ Len(RollInto(parent, child).kids) <= Len(parent.kids) + 1
<1> DEFINE ts == EndTime(child)
           hashed == IF ContentType[parent.level] = "NetPatches" THEN parent
                     ELSE AddThrallHash(parent, Hash(child), ts)
<1>1. ts \in Nat
  BY EndOfPage
<1>2. DOMAIN PatchesOf(child) \subseteq Objects
  BY DEF PatchesOf, LeafPatches, IsPage
<1>3. Len(parent.kids) \in Nat
  BY DEF IsPage, IsList
<1>4. /\ IsPage(hashed) /\ hashed.level = parent.level /\ hashed.start = parent.start
      /\ hashed.id = parent.id /\ hashed.leaves = parent.leaves
      /\ hashed.prev = parent.prev
      /\ hashed.kids = IF ContentType[parent.level] = "NetPatches" THEN parent.kids
                       ELSE Append(parent.kids, Hash(child))
      /\ Len(hashed.kids) <= Len(parent.kids) + 1
  <2>1. CASE ContentType[parent.level] = "NetPatches"
    BY <1>3, <2>1
  <2>2. CASE ContentType[parent.level] # "NetPatches"
    <3>1. hashed = AddThrallHash(parent, Hash(child), ts)
      BY <2>2
    <3> HIDE DEF hashed, ts
    <3> QED
      BY <1>1, <1>3, <2>2, <3>1, AddThrallHashIsPage
  <2> QED
    BY <2>1, <2>2
<1>5. RollInto(parent, child) = hashed
      \/ RollInto(parent, child) = MergeNetPatches(hashed, PatchesOf(child), ts)
  BY DEF RollInto
<1> HIDE DEF ts, hashed
<1>6. CASE RollInto(parent, child) = hashed
  BY <1>4, <1>6
<1>7. CASE RollInto(parent, child) = MergeNetPatches(hashed, PatchesOf(child), ts)
  <2> DEFINE merged == MergeNetPatches(hashed, PatchesOf(child), ts)
  <2>1. /\ IsPage(merged) /\ merged.level = hashed.level /\ merged.start = hashed.start
        /\ merged.id = hashed.id /\ merged.leaves = hashed.leaves
        /\ merged.prev = hashed.prev /\ merged.kids = hashed.kids
    BY <1>1, <1>2, <1>4, MergeNetPatchesIsPage
  <2> QED
    BY <1>4, <1>7, <2>1
<1> QED
  BY <1>5, <1>6, <1>7

----------------------------------------------------------------------------
(* Field patches: of each object, the last write. *)

(* Where an object is written last. *)
Writing(leaves, o) == {i \in DOMAIN leaves : leaves[i].obj = o}

LEMMA LastWriteOf ==
    ASSUME NEW leaves \in Seq(Leaf), NEW o, Writing(leaves, o) # {}
    PROVE  \E i \in Writing(leaves, o) : \A j \in Writing(leaves, o) : j <= i
<1>1. Len(leaves) \in Nat /\ Writing(leaves, o) \subseteq 0 .. Len(leaves)
  BY DEF Writing
<1> QED
  BY <1>1, GreatestOf

(* The patches of a list of leaves: of each object written, the last write. *)
LEMMA LeafPatchesAre ==
    ASSUME NEW leaves \in Seq(Leaf)
    PROVE  /\ LeafPatches(leaves) = [o \in DOMAIN LeafPatches(leaves) |-> LeafPatches(leaves)[o]]
           /\ DOMAIN LeafPatches(leaves) = {o \in Objects : Writing(leaves, o) # {}}
           /\ \A o \in DOMAIN LeafPatches(leaves) : \A i \in Writing(leaves, o) :
                 (\A j \in Writing(leaves, o) : j <= i) => LeafPatches(leaves)[o] = leaves[i].id
<1> DEFINE LastAt(o) == CHOOSE i \in Writing(leaves, o) : \A j \in Writing(leaves, o) : j <= i
           D == {o \in Objects : Writing(leaves, o) # {}}
<1>1. LeafPatches(leaves) = [o \in D |-> leaves[LastAt(o)].id]
  BY DEF LeafPatches, Writing
<1>2. ASSUME NEW o \in D, NEW i \in Writing(leaves, o), \A j \in Writing(leaves, o) : j <= i
      PROVE  LastAt(o) = i
  <2>1. LastAt(o) \in Writing(leaves, o) /\ \A j \in Writing(leaves, o) : j <= LastAt(o)
    BY <1>2
  <2>2. \A k \in Writing(leaves, o) : k \in Nat
    BY DEF Writing
  <2> HIDE DEF LastAt
  <2> QED
    BY <1>2, <2>1, <2>2
<1> HIDE DEF LastAt
<1> QED
  BY <1>1, <1>2

(* The patches of two lists, one after the other. *)
LEMMA LeafPatchesOfBoth ==
    ASSUME NEW s \in Seq(Leaf), NEW t \in Seq(Leaf)
    PROVE  LeafPatches(s \o t) =
              [o \in DOMAIN LeafPatches(s) \cup DOMAIN LeafPatches(t) |->
                  IF o \in DOMAIN LeafPatches(t) THEN LeafPatches(t)[o] ELSE LeafPatches(s)[o]]
<1> DEFINE b == s \o t
           n == Len(s)
<1>1. /\ b \in Seq(Leaf) /\ n \in Nat /\ DOMAIN s = 1 .. n /\ DOMAIN t = 1 .. Len(t)
      /\ Len(t) \in Nat /\ DOMAIN b = 1 .. n + Len(t)
      /\ \A i \in 1 .. n : b[i] = s[i]
      /\ \A i \in 1 .. Len(t) : b[n + i] = t[i]
      /\ \A i \in DOMAIN b : i \in 1 .. n \/ i - n \in 1 .. Len(t)
      /\ \A i \in DOMAIN b : i \notin 1 .. n => b[i] = t[i - n]
  OBVIOUS
<1> HIDE DEF b
<1>2. ASSUME NEW o
      PROVE  /\ \A i \in Writing(s, o) : i \in Writing(b, o)
             /\ \A i \in Writing(t, o) : n + i \in Writing(b, o)
             /\ \A i \in Writing(b, o) : i \in Writing(s, o) \/ i - n \in Writing(t, o)
             /\ \A i \in Writing(b, o) : i <= n => i \in Writing(s, o)
             /\ \A i \in Writing(b, o) : i > n => i - n \in Writing(t, o)
             /\ \A i \in Writing(b, o) : i \in Nat
             /\ \A i \in Writing(s, o) : i \in Nat /\ i <= n
             /\ \A i \in Writing(t, o) : i \in Nat /\ i > 0
  BY <1>1 DEF Writing
<1>3. DOMAIN LeafPatches(b) = DOMAIN LeafPatches(s) \cup DOMAIN LeafPatches(t)
  <2>1. \A o : Writing(b, o) # {} <=> Writing(s, o) # {} \/ Writing(t, o) # {}
    BY <1>2
  <2>2. \A l \in Seq(Leaf) : DOMAIN LeafPatches(l) = {o \in Objects : Writing(l, o) # {}}
    BY LeafPatchesAre
  <2> QED
    BY <1>1, <2>1, <2>2
<1>4. ASSUME NEW o \in DOMAIN LeafPatches(t)
      PROVE  LeafPatches(b)[o] = LeafPatches(t)[o]
  <2>1. Writing(t, o) # {}
    BY LeafPatchesAre
  <2>2. PICK i \in Writing(t, o) : \A j \in Writing(t, o) : j <= i
    BY <2>1, LastWriteOf
  <2>3. n + i \in Writing(b, o) /\ i \in DOMAIN t
    BY <1>2, <2>2 DEF Writing
  <2>4. ASSUME NEW j \in Writing(b, o) PROVE j <= n + i
    BY <1>1, <1>2, <2>2
  <2>5. LeafPatches(b)[o] = b[n + i].id
    <3>1. o \in DOMAIN LeafPatches(b) /\ b \in Seq(Leaf)
      BY <1>1, <1>3
    <3> QED
      BY <2>3, <2>4, <3>1, LeafPatchesAre
  <2>6. LeafPatches(t)[o] = t[i].id
    BY <2>2, LeafPatchesAre
  <2> QED
    BY <1>1, <2>3, <2>5, <2>6
<1>5. ASSUME NEW o \in DOMAIN LeafPatches(s), o \notin DOMAIN LeafPatches(t)
      PROVE  LeafPatches(b)[o] = LeafPatches(s)[o]
  <2>1. Writing(s, o) # {} /\ Writing(t, o) = {}
    BY <1>5, LeafPatchesAre
  <2>2. PICK i \in Writing(s, o) : \A j \in Writing(s, o) : j <= i
    BY <2>1, LastWriteOf
  <2>3. i \in Writing(b, o) /\ i \in DOMAIN s
    BY <1>2, <2>2 DEF Writing
  <2>4. ASSUME NEW j \in Writing(b, o) PROVE j <= i
    BY <1>2, <2>1, <2>2
  <2>5. LeafPatches(b)[o] = b[i].id
    <3>1. o \in DOMAIN LeafPatches(b) /\ b \in Seq(Leaf)
      BY <1>1, <1>3
    <3> QED
      BY <2>3, <2>4, <3>1, LeafPatchesAre
  <2>6. LeafPatches(s)[o] = s[i].id
    BY <2>2, LeafPatchesAre
  <2> QED
    BY <1>1, <2>3, <2>5, <2>6
<1>6. LeafPatches(b) = [o \in DOMAIN LeafPatches(b) |-> LeafPatches(b)[o]]
  BY <1>1, LeafPatchesAre
<1> QED
  BY <1>3, <1>4, <1>5, <1>6 DEF b

(* What a merge of patches and a child hash leave of the other fields. *)
LEMMA PatchesMerged ==
    ASSUME NEW p, IsPage(p), NEW patches, NEW ts
    PROVE  MergeNetPatches(p, patches, ts).patches =
              [o \in DOMAIN p.patches \cup DOMAIN patches |->
                  IF o \in DOMAIN patches THEN patches[o] ELSE p.patches[o]]
<1> DEFINE merged == [o \in DOMAIN p.patches \cup DOMAIN patches |->
                         IF o \in DOMAIN patches THEN patches[o] ELSE p.patches[o]]
           first == OrElse(p.first, ts)
           last == Later(p.last, ts)
           p1 == [p EXCEPT !.patches = merged]
           p2 == [p1 EXCEPT !.first = first]
           p3 == [p2 EXCEPT !.last = last]
<1>1. MergeNetPatches(p, patches, ts) = p3
  BY DEF MergeNetPatches
<1> HIDE DEF merged, first, last
<1>2. "patches" \in DOMAIN p
  BY DEF IsPage
<1>3. p1.patches = merged
  BY <1>2
<1> HIDE DEF p1
<1>4. p2.patches = p1.patches
  OBVIOUS
<1> HIDE DEF p2
<1>5. p3.patches = p2.patches
  OBVIOUS
<1> HIDE DEF p3
<1> QED
  BY <1>1, <1>3, <1>4, <1>5 DEF merged

LEMMA PatchesKept ==
    ASSUME NEW p, IsPage(p), NEW hash, NEW ts
    PROVE  AddThrallHash(p, hash, ts).patches = p.patches
BY DEF AddThrallHash, IsPage


----------------------------------------------------------------------------
(***************************************************************************)
(* The stack of perform_rollup.  An activation has read its child before   *)
(* it calls another one, and the page in hand is of the level the stack    *)
(* has got to.                                                             *)
(***************************************************************************)
InAddLeaf == {"idle", "take", "create", "have", "insert"}

StackOK(a) ==
    LET depth == Len(frames[a])
    IN /\ depth <= Top + 1
       /\ \A i \in 1 .. depth : frames[a][i].level = i - 1
       /\ \A i \in 1 .. depth - 1 : IsPage(frames[a][i].child)
       /\ pc[a] \in InAddLeaf => depth = 0
       /\ pc[a] \in {"have", "insert", "store", "track", "settle"} =>
              page[a].level = depth
       /\ pc[a] \in {"stale", "parent", "settle"} => depth \in 1 .. Top
       /\ pc[a] \in {"store", "track", "stale", "parent", "settle"} =>
              \A i \in 1 .. depth : IsPage(frames[a][i].child)

IInv == TypeOK /\ \A a \in Appenders : StackOK(a)

(* A step of one call leaves the locals of the others alone. *)
Mine(a) ==
    /\ pc' \in [Appenders -> Labels]
    /\ DOMAIN call' = Appenders /\ DOMAIN page' = Appenders /\ DOMAIN frames' = Appenders
    /\ \A b \in Appenders \ {a} :
          /\ pc'[b] = pc[b] /\ call'[b] = call[b]
          /\ page'[b] = page[b] /\ frames'[b] = frames[b]

(* A step of one call leaves the invariant of the others alone. *)
LEMMA OthersKept ==
    ASSUME IInv, NEW a \in Appenders, Mine(a),
           ManagerTypeOK', CallTypeOK(a)', StackOK(a)',
           CountersTypeOK'
    PROVE  IInv' /\ Mine(a)
<1>1. \A b \in Appenders \ {a} : CallTypeOK(b)' /\ StackOK(b)'
  BY DEF IInv, TypeOK, CallTypeOK, StackOK, Mine
<1> QED
  BY <1>1 DEF IInv, TypeOK, Mine

(* The calls and returns of add_leaf. *)
LEMMA CallAddLeafOK ==
    ASSUME IInv, NEW a \in Appenders, CallAddLeaf(a)
    PROVE  IInv' /\ Mine(a)
<1>1. PICK ts \in Times, op \in Times, obj \in Objects \cup {None} :
          /\ call' = [call EXCEPT ![a] =
                        [leaf |-> [id |-> leafCount, ts |-> ts, obj |-> obj],
                         op |-> op, pageId |-> None, retaken |-> FALSE,
                         after |-> "done"]]
          /\ newest' = IF ts > newest THEN ts ELSE newest
  BY WorkloadAssumption DEF CallAddLeaf
<1>2. ts \in Nat /\ op \in Nat /\ leafCount \in Nat
  BY WorkloadAssumption DEF IInv, TypeOK, CountersTypeOK
<1>3. IsCall(call'[a])
  BY <1>1, <1>2 DEF IInv, TypeOK, IsCall, Leaf
<1>4. CallTypeOK(a)' /\ StackOK(a)' /\ Mine(a)
  BY <1>1, <1>3 DEF CallAddLeaf, Goto, IInv, TypeOK, CallTypeOK, StackOK, InAddLeaf,
                    HoldsPage, InRollup, Labels, Mine
<1>5. ManagerTypeOK'
  BY DEF CallAddLeaf, managerVars, IInv, TypeOK, ManagerTypeOK
<1>6. CountersTypeOK'
  BY <1>1, <1>2, WorkloadAssumption DEF CallAddLeaf, IInv, TypeOK, CountersTypeOK
<1> QED
  BY <1>4, <1>5, <1>6, OthersKept

(* A call that returns has nothing left to keep. *)
LEMMA LeaveOK ==
    ASSUME IInv, NEW a \in Appenders, Leave(a)
    PROVE  /\ CallTypeOK(a)' /\ StackOK(a)' /\ Mine(a)
<1>1. pc'[a] = "idle" /\ frames'[a] = <<>> /\ Mine(a)
  BY DEF Leave, Goto, Hold, IInv, TypeOK, Mine, Labels
<1>2. IsList(<<>>) /\ Len(<<>>) = 0
  BY DEF IsList
<1> QED
  BY <1>1, <1>2, ConfigAssumption
     DEF CallTypeOK, StackOK, InAddLeaf, HoldsPage, InRollup, Labels

(* The active leaf page is looked up. *)
LEMMA TakeOK ==
    ASSUME IInv, NEW a \in Appenders,
           TakeActivePage(a) \/ RetireActivePage(a) \/ FindNoActivePage(a)
    PROVE  IInv' /\ Mine(a)
<1>1. /\ IsCall(call[a]) /\ Len(frames[a]) = 0 /\ IsList(frames[a])
      /\ \A p \in ActiveAt(0) : IsPage(p) /\ p.id \in Nat /\ p.level = 0
      /\ nextPageId \in Nat
  BY DEF TakeActivePage, RetireActivePage, FindNoActivePage, IInv, TypeOK, StackOK,
         CallTypeOK, InAddLeaf, ManagerTypeOK, ActiveAt, IsPage
<1>2. CASE TakeActivePage(a)
  <2>1. PICK p \in ActiveAt(0) : Obtain(a, p)
    BY <1>2 DEF TakeActivePage
  <2>2. IsCall(call'[a]) /\ page'[a] = p /\ pc'[a] = "have" /\ frames' = frames
    BY <1>1, <1>2, <2>1 DEF TakeActivePage, Obtain, Hold, Goto, IsCall, IInv, TypeOK
  <2>3. CallTypeOK(a)' /\ StackOK(a)'
    BY <1>1, <2>2 DEF CallTypeOK, StackOK, InAddLeaf, InRollup, IInv
  <2>4. Mine(a) /\ ManagerTypeOK' /\ CountersTypeOK'
    BY <1>2, <2>1, <2>2 DEF TakeActivePage, Obtain, Hold, Goto, Mine, managerVars,
       worldVars, IInv, TypeOK, ManagerTypeOK, CountersTypeOK, Labels
  <2> QED
    BY <2>3, <2>4, OthersKept
<1>3. CASE RetireActivePage(a)
  <2>1. PICK p \in ActiveAt(0) :
           /\ activePages' = Without(0)
           /\ \/ /\ nextPageId' = Reverted(p.id)
                 /\ Goto(a, "create")
                 /\ UNCHANGED <<call, page>>
              \/ /\ Hold(a, p)
                 /\ call' = [call EXCEPT ![a].after = "create"]
                 /\ Goto(a, "store")
                 /\ UNCHANGED nextPageId
    BY <1>3 DEF RetireActivePage
  <2>2. nextPageId' \in Nat
    BY <1>1, <2>1 DEF Reverted
  <2>3. ManagerTypeOK' /\ CountersTypeOK'
    BY <1>3, <2>1, <2>2 DEF RetireActivePage, Without, worldVars, IInv, TypeOK,
       ManagerTypeOK, CountersTypeOK
  <2>4. IsCall(call'[a]) /\ frames' = frames /\ pc'[a] \in {"create", "store"}
        /\ (pc'[a] = "store" => page'[a] = p)
    BY <1>1, <1>3, <2>1 DEF RetireActivePage, Hold, Goto, IsCall, IInv, TypeOK
  <2>5. CallTypeOK(a)' /\ StackOK(a)'
    BY <1>1, <2>4 DEF CallTypeOK, StackOK, InAddLeaf, InRollup, HoldsPage, IInv
  <2>6. Mine(a)
    BY <1>3, <2>1, <2>4 DEF RetireActivePage, Hold, Goto, Mine, IInv, TypeOK, Labels
  <2> QED
    BY <2>3, <2>5, <2>6, OthersKept
<1>4. CASE FindNoActivePage(a)
  <2>1. CallTypeOK(a)' /\ StackOK(a)'
    BY <1>1, <1>4 DEF FindNoActivePage, Goto, CallTypeOK, StackOK, InAddLeaf, InRollup,
       HoldsPage, IInv, TypeOK
  <2>2. Mine(a) /\ ManagerTypeOK' /\ CountersTypeOK'
    BY <1>4 DEF FindNoActivePage, Goto, Mine, managerVars, worldVars, IInv, TypeOK,
       ManagerTypeOK, CountersTypeOK, Labels
  <2> QED
    BY <2>1, <2>2, OthersKept
<1> QED
  BY <1>2, <1>3, <1>4

(* A page is created for the leaf. *)
LEMMA CreatePageOK ==
    ASSUME IInv, NEW a \in Appenders, CreatePage(a)
    PROVE  IInv' /\ Mine(a)
<1> DEFINE p == NewPage(nextPageId, 0, PrevHash(0), WindowStart(0, Trigger(a)))
<1>1. /\ IsCall(call[a]) /\ Len(frames[a]) = 0 /\ IsList(frames[a])
      /\ nextPageId \in Nat /\ Trigger(a) \in Nat /\ 0 \in Levels
  BY WorkloadAssumption, ConfigAssumption
     DEF CreatePage, IInv, TypeOK, StackOK, CallTypeOK, InAddLeaf, ManagerTypeOK,
         IsCall, Trigger, Leaf, Levels
<1>2. IsPage(p) /\ p.level = 0 /\ p.id \in Nat
  <2> DEFINE prev  == PrevHash(0)
             start == WindowStart(0, Trigger(a))
  <2>1. start \in Nat
    BY <1>1, WindowHolds
  <2>2. p = NewPage(nextPageId, 0, prev, start)
    OBVIOUS
  <2> HIDE DEF p, prev, start
  <2>3. nextPageId \in Nat /\ 0 \in Levels
    BY <1>1
  <2>4. /\ IsPage(NewPage(nextPageId, 0, prev, start))
        /\ NewPage(nextPageId, 0, prev, start).level = 0
        /\ NewPage(nextPageId, 0, prev, start).id = nextPageId
    BY <2>1, <2>3, NewPageIsPage
  <2> QED
    BY <2>2, <2>3, <2>4
<1>3. Obtain(a, p) /\ nextPageId' = nextPageId + 1
      /\ UNCHANGED <<activePages, storage, lastFinalized, frames, worldVars>>
  BY DEF CreatePage
<1> HIDE DEF p
<1>4. IsCall(call'[a]) /\ page'[a] = p /\ pc'[a] = "have"
  BY <1>1, <1>2, <1>3 DEF Obtain, Hold, Goto, IsCall, IInv, TypeOK
<1>5. CallTypeOK(a)' /\ StackOK(a)'
  BY <1>1, <1>2, <1>3, <1>4 DEF CallTypeOK, StackOK, InAddLeaf, InRollup, IInv
<1>6. Mine(a) /\ ManagerTypeOK' /\ CountersTypeOK'
  BY <1>1, <1>3, <1>4 DEF Obtain, Hold, Goto, Mine, worldVars, IInv, TypeOK,
     ManagerTypeOK, CountersTypeOK, Labels
<1> QED
  BY <1>5, <1>6, OthersKept

(* The page in hand is finalized first, or takes the leaf, or is kept. *)
LEMMA HaveOK ==
    ASSUME IInv, NEW a \in Appenders,
           PreFinalize(a) \/ AppendLeaf(a) \/ KeepActivePage(a)
    PROVE  IInv' /\ Mine(a)
<1>1. /\ IsCall(call[a]) /\ Len(frames[a]) = 0 /\ IsList(frames[a])
      /\ IsPage(page[a]) /\ page[a].level = 0
  BY DEF PreFinalize, AppendLeaf, KeepActivePage, IInv, TypeOK, StackOK, CallTypeOK,
         InAddLeaf, HoldsPage
<1>2. ASSUME PreFinalize(a) \/ AppendLeaf(a), IsPage(page'[a]), page'[a].level = 0,
             IsCall(call'[a]), pc'[a] \in {"store", "insert"}, Mine(a)
      PROVE  IInv' /\ Mine(a)
  <2>1. frames' = frames /\ ManagerTypeOK' /\ CountersTypeOK'
    BY <1>2 DEF PreFinalize, AppendLeaf, managerVars, worldVars, IInv, TypeOK,
       ManagerTypeOK, CountersTypeOK
  <2>2. CallTypeOK(a)' /\ StackOK(a)' /\ pc'[a] \in Labels
    BY <1>1, <1>2, <2>1 DEF CallTypeOK, StackOK, InAddLeaf, InRollup, IInv, Labels
  <2> QED
    BY <1>2, <2>1, <2>2, OthersKept
<1>3. CASE PreFinalize(a)
  <2>1. /\ page'[a] = page[a] /\ IsCall(call'[a]) /\ pc'[a] = "store" /\ Mine(a)
    BY <1>1, <1>3 DEF PreFinalize, Goto, IsCall, IInv, TypeOK, Mine, Labels
  <2> QED
    BY <1>1, <1>2, <1>3, <2>1
<1>4. CASE AppendLeaf(a)
  <2> DEFINE grown == AddLeaf(page[a], call[a].leaf)
  <2>1. IsPage(grown) /\ grown.level = 0
    BY <1>1, AddLeafIsPage DEF IsCall
  <2> HIDE DEF grown
  <2>2. /\ page' = [page EXCEPT ![a] = grown]
        /\ call' = [call EXCEPT ![a].after = "done"]
        /\ Goto(a, "store") \/ Goto(a, "insert")
        /\ UNCHANGED frames
    BY <1>4 DEF AppendLeaf, Hold, grown
  <2>3. /\ page'[a] = grown /\ IsCall(call'[a]) /\ pc'[a] \in {"store", "insert"}
        /\ Mine(a)
    BY <1>1, <2>2 DEF Goto, IsCall, IInv, TypeOK, Mine, Labels
  <2> QED
    BY <1>2, <1>4, <2>1, <2>3
<1>5. CASE KeepActivePage(a)
  <2>1. ManagerTypeOK' /\ CountersTypeOK'
    BY <1>1, <1>5 DEF KeepActivePage, WithActive, Without, IInv, TypeOK, ManagerTypeOK,
       CountersTypeOK
  <2> QED
    BY <1>5, <2>1, LeaveOK, OthersKept DEF KeepActivePage, ReturnOk
<1> QED
  BY <1>3, <1>4, <1>5

(* Writing a field of the top frame. *)
LEMMA SetTopKept ==
    ASSUME IInv, NEW a \in Appenders, Len(frames[a]) > 0,
           NEW field \in {"child", "resume"}, NEW value, SetTop(a, field, value),
           field = "child" => IsPage(value),
           field = "resume" => value \in {"parent", "return"}
    PROVE  /\ DOMAIN frames' = Appenders
           /\ \A b \in Appenders \ {a} : frames'[b] = frames[b]
           /\ IsList(frames'[a]) /\ Len(frames'[a]) = Len(frames[a])
           /\ \A i \in 1 .. Len(frames[a]) :
                 /\ IsFrame(frames'[a][i])
                 /\ frames'[a][i].level = frames[a][i].level
                 /\ IsPage(frames[a][i].child) => IsPage(frames'[a][i].child)
           /\ field = "child" => IsPage(frames'[a][Len(frames[a])].child)
           /\ \A i \in 1 .. Len(frames[a]) - 1 : frames'[a][i] = frames[a][i]
<1> DEFINE n == Len(frames[a])
           s == frames[a]
           t == [s EXCEPT ![n] = [s[n] EXCEPT ![field] = value]]
<1>1. IsList(s) /\ n \in Nat /\ n > 0 /\ \A i \in 1 .. n : IsFrame(s[i])
  BY DEF IInv, TypeOK, CallTypeOK, IsList
<1>2. DOMAIN frames' = Appenders /\ frames'[a] = t
      /\ \A b \in Appenders \ {a} : frames'[b] = frames[b]
  BY DEF SetTop, IInv, TypeOK
<1> DEFINE f == [s[n] EXCEPT ![field] = value]
<1>3. /\ IsFrame(f) /\ f.level = s[n].level
      /\ IsPage(s[n].child) => IsPage(f.child)
      /\ field = "child" => IsPage(f.child)
  <2>1. IsFrame(s[n])
    BY <1>1
  <2>2. CASE field = "child"
    <3>1. [s[n] EXCEPT !["child"] = value] =
             [level |-> s[n].level, hash |-> s[n].hash, child |-> value,
              resume |-> s[n].resume]
      BY <2>1 DEF IsFrame
    <3> QED
      BY <2>1, <2>2, <3>1 DEF IsFrame
  <2>3. CASE field = "resume"
    <3>1. [s[n] EXCEPT !["resume"] = value] =
             [level |-> s[n].level, hash |-> s[n].hash, child |-> s[n].child,
              resume |-> value]
      BY <2>1 DEF IsFrame
    <3> QED
      BY <2>1, <2>3, <3>1 DEF IsFrame
  <2> QED
    BY <2>2, <2>3
<1> HIDE DEF f
<1>4. [s EXCEPT ![n] = f] = [i \in 1 .. n |-> IF i = n THEN f ELSE s[i]]
  BY <1>1 DEF IsList
<1>5. t = [i \in 1 .. n |-> IF i = n THEN f ELSE s[i]]
  BY <1>4 DEF f
<1> HIDE DEF t, s, n
<1>6. Len(t) = n /\ IsList(t)
  BY <1>1, <1>5 DEF IsList
<1>7. /\ \A i \in 1 .. n - 1 : t[i] = s[i]
      /\ t[n] = f
  BY <1>1, <1>5
<1>8. \A i \in 1 .. n : /\ IsFrame(t[i]) /\ t[i].level = s[i].level
                        /\ IsPage(s[i].child) => IsPage(t[i].child)
  BY <1>1, <1>3, <1>7
<1> QED
  BY <1>1, <1>2, <1>3, <1>6, <1>7, <1>8 DEF s, n

----------------------------------------------------------------------------
(* A page is finalized: stored and tracked, at the level of the stack. *)
LEMMA StoreOK ==
    ASSUME IInv, NEW a \in Appenders, StorePage(a) \/ StorageFails(a)
    PROVE  IInv' /\ Mine(a)
<1>1. CASE StorePage(a)
  <2>1. IsPage(page[a])
    BY <1>1 DEF StorePage, IInv, TypeOK, CallTypeOK, HoldsPage
  <2>2. ManagerTypeOK' /\ CountersTypeOK' /\ Mine(a)
    BY <1>1, <2>1 DEF StorePage, Goto, Mine, worldVars, IInv, TypeOK, ManagerTypeOK,
       CountersTypeOK, Labels
  <2>3. CallTypeOK(a)' /\ StackOK(a)'
    BY <1>1 DEF StorePage, Goto, IInv, TypeOK, CallTypeOK, StackOK, InAddLeaf, InRollup,
       HoldsPage
  <2> QED
    BY <2>2, <2>3, OthersKept
<1>2. CASE StorageFails(a)
  <2>1. ManagerTypeOK'
    BY <1>2 DEF StorageFails, managerVars, IInv, TypeOK, ManagerTypeOK
  <2>2. CountersTypeOK'
    BY <1>2, WorkloadAssumption DEF StorageFails, IInv, TypeOK, CountersTypeOK
  <2> QED
    BY <1>2, <2>1, <2>2, LeaveOK, OthersKept DEF StorageFails
<1> QED
  BY <1>1, <1>2

(* A finalized page starts an activation of perform_rollup. *)
LEMMA TrackOK ==
    ASSUME IInv, NEW a \in Appenders, TrackFinalized(a)
    PROVE  IInv' /\ Mine(a)
<1> DEFINE depth == Len(frames[a])
           f == [level |-> page[a].level, hash |-> Hash(page[a]), child |-> None,
                 resume |-> "return"]
<1>1. /\ IsPage(page[a]) /\ IsList(frames[a]) /\ page[a].level = depth
      /\ IsCall(call[a]) /\ pc[a] = "track" /\ depth \in Nat
      /\ \A i \in 1 .. depth : /\ IsFrame(frames[a][i])
                               /\ frames[a][i].level = i - 1
                               /\ IsPage(frames[a][i].child)
  BY DEF TrackFinalized, IInv, TypeOK, CallTypeOK, StackOK, HoldsPage, IsList
<1>2. depth + 1 <= Top + 1
  BY <1>1, ConfigAssumption DEF IsPage, Levels
<1>3. IsFrame(f) /\ f.level = depth
  BY <1>1 DEF IsFrame, IsPage
<1>4. frames' = [frames EXCEPT ![a] = Append(@, f)]
  BY DEF TrackFinalized
<1> HIDE DEF f
<1>5. frames'[a] = Append(frames[a], f)
  BY <1>4 DEF IInv, TypeOK
<1>6. /\ IsList(frames'[a]) /\ Len(frames'[a]) = depth + 1
      /\ \A i \in 1 .. depth : frames'[a][i] = frames[a][i]
      /\ frames'[a][depth + 1] = f
  BY <1>1, <1>5, AppendList
<1>7. \A i \in 1 .. depth + 1 : IsFrame(frames'[a][i]) /\ frames'[a][i].level = i - 1
  <2> HIDE DEF depth
  <2> SUFFICES ASSUME NEW i \in 1 .. depth + 1
               PROVE  IsFrame(frames'[a][i]) /\ frames'[a][i].level = i - 1
    OBVIOUS
  <2>1. CASE i \in 1 .. depth
    <3>1. frames'[a][i] = frames[a][i]
      BY <1>6, <2>1
    <3> QED
      BY <1>1, <2>1, <3>1
  <2>2. CASE i = depth + 1
    <3>1. frames'[a][i] = f
      BY <1>6, <2>2
    <3> QED
      BY <1>1, <1>3, <2>2, <3>1
  <2> QED
    BY <1>1, <2>1, <2>2
<1>8. pc'[a] = "load" /\ call' = call
  BY DEF TrackFinalized, Goto, IInv, TypeOK
<1> HIDE DEF depth
<1>9. CallTypeOK(a)'
  BY <1>1, <1>6, <1>7, <1>8 DEF CallTypeOK, HoldsPage, InRollup
<1>10. StackOK(a)'
  <2>1. \A i \in 1 .. depth : IsPage(frames'[a][i].child)
    BY <1>1, <1>6 DEF depth
  <2>2. Len(frames'[a]) = depth + 1 /\ (depth + 1) - 1 = depth /\ depth + 1 <= Top + 1
    BY <1>1, <1>2, <1>6
  <2>3. \A i \in 1 .. depth + 1 : frames'[a][i].level = i - 1
    BY <1>7
  <2>4. \A i \in 1 .. (depth + 1) - 1 : IsPage(frames'[a][i].child)
    BY <2>1, <2>2
  <2> QED
    BY <1>8, <2>2, <2>3, <2>4 DEF StackOK, InAddLeaf
<1>11. Mine(a) /\ CountersTypeOK'
  BY DEF TrackFinalized, Goto, Hold, Mine, worldVars, IInv, TypeOK, CountersTypeOK, Labels
<1>12. ManagerTypeOK'
  BY <1>1 DEF TrackFinalized, Without, IInv, TypeOK, ManagerTypeOK, IsPage
<1> QED
  BY <1>9, <1>10, <1>11, <1>12, OthersKept

(* perform_rollup reads its child. *)
LEMMA LoadOK ==
    ASSUME IInv, NEW a \in Appenders, LoadChild(a) \/ ChildMissing(a)
    PROVE  IInv' /\ Mine(a)
<1>1. ManagerTypeOK' /\ CountersTypeOK'
  BY DEF LoadChild, ChildMissing, Leave, managerVars, worldVars, IInv, TypeOK,
     ManagerTypeOK, CountersTypeOK
<1>2. CASE ChildMissing(a)
  BY <1>1, <1>2, LeaveOK, OthersKept DEF ChildMissing
<1>3. CASE LoadChild(a) /\ TopFrame(a).level = Top
  <2>1. CallTypeOK(a)' /\ StackOK(a)' /\ Mine(a)
    BY <1>3 DEF LoadChild, Goto, IInv, TypeOK, CallTypeOK, StackOK, InAddLeaf, InRollup,
       HoldsPage, Mine, Labels
  <2> QED
    BY <1>1, <2>1, OthersKept
<1>4. CASE LoadChild(a) /\ TopFrame(a).level # Top
  <2>1. PICK child \in storage : Goto(a, "stale") /\ SetTop(a, "child", child)
    BY <1>4 DEF LoadChild, StoredWithHash
  <2>2. /\ IsPage(child) /\ Len(frames[a]) \in Nat /\ Len(frames[a]) > 0
        /\ IsCall(call[a]) /\ call' = call /\ page' = page
        /\ pc'[a] = "stale" /\ pc[a] = "load"
    BY <1>4, <2>1 DEF LoadChild, Goto, IInv, TypeOK, CallTypeOK, ManagerTypeOK, InRollup,
       IsList
  <2>3. Len(frames[a]) \in 1 .. Top
    BY <1>4, <2>2, ConfigAssumption DEF TopFrame, IInv, StackOK
  <2>4. /\ DOMAIN frames' = Appenders
        /\ \A b \in Appenders \ {a} : frames'[b] = frames[b]
        /\ IsList(frames'[a]) /\ Len(frames'[a]) = Len(frames[a])
        /\ \A i \in 1 .. Len(frames[a]) :
              IsFrame(frames'[a][i]) /\ frames'[a][i].level = frames[a][i].level
        /\ IsPage(frames'[a][Len(frames[a])].child)
        /\ \A i \in 1 .. Len(frames[a]) - 1 : frames'[a][i] = frames[a][i]
    BY <2>1, <2>2, SetTopKept
  <2>5. CallTypeOK(a)'
    BY <2>2, <2>4 DEF CallTypeOK, HoldsPage, InRollup
  <2>6. StackOK(a)'
    BY <2>2, <2>3, <2>4 DEF IInv, StackOK, InAddLeaf
  <2>7. Mine(a)
    BY <1>4, <2>1, <2>2, <2>4 DEF LoadChild, Goto, Mine, IInv, TypeOK, Labels
  <2> QED
    BY <1>1, <2>5, <2>6, <2>7, OthersKept
<1> QED
  BY <1>2, <1>3, <1>4

(* Where perform_rollup deals with its parent level. *)
LEMMA AtParent ==
    ASSUME IInv, NEW a \in Appenders, pc[a] \in {"stale", "parent", "settle"}
    PROVE  /\ Len(frames[a]) \in 1 .. Top
           /\ ParentLevel(a) = Len(frames[a]) /\ ParentLevel(a) \in Levels
           /\ IsPage(TopFrame(a).child)
           /\ IsCall(call[a]) /\ Trigger(a) \in Nat
           /\ IsList(frames[a])
           /\ \A i \in 1 .. Len(frames[a]) : /\ IsFrame(frames[a][i])
                                             /\ frames[a][i].level = i - 1
                                             /\ IsPage(frames[a][i].child)
<1>1. /\ Len(frames[a]) \in 1 .. Top
      /\ \A i \in 1 .. Len(frames[a]) : /\ IsFrame(frames[a][i])
                                        /\ frames[a][i].level = i - 1
                                        /\ IsPage(frames[a][i].child)
      /\ IsCall(call[a]) /\ IsList(frames[a])
  BY DEF IInv, TypeOK, CallTypeOK, StackOK
<1>2. Trigger(a) \in Nat
  BY <1>1 DEF IsCall, Leaf, Trigger
<1>3. TopFrame(a).level = Len(frames[a]) - 1 /\ IsPage(TopFrame(a).child)
  BY <1>1 DEF TopFrame
<1>4. ParentLevel(a) = Len(frames[a])
  BY <1>1, <1>3 DEF ParentLevel
<1>5. Len(frames[a]) \in Levels
  BY <1>1, ConfigAssumption DEF Levels
<1> QED
  BY <1>1, <1>2, <1>3, <1>4, <1>5

(* A step that leaves the frames and goes on with the parent. *)
LEMMA StayAtParent ==
    ASSUME IInv, NEW a \in Appenders, pc[a] \in {"stale", "parent", "settle"},
           pc'[a] \in {"parent", "settle", "return"}, UNCHANGED <<call, frames>>,
           pc'[a] = "settle" => IsPage(page'[a]) /\ page'[a].level = Len(frames[a])
    PROVE  CallTypeOK(a)' /\ StackOK(a)'
<1>1. CallTypeOK(a)'
  BY AtParent DEF CallTypeOK, HoldsPage
<1>2. StackOK(a)'
  BY AtParent DEF IInv, StackOK, InAddLeaf
<1> QED
  BY <1>1, <1>2

(* A step that finalizes a page of the parent level. *)
LEMMA StoreAtParent ==
    ASSUME IInv, NEW a \in Appenders, pc[a] \in {"stale", "parent", "settle"},
           pc'[a] = "store", UNCHANGED call, NEW where \in {"parent", "return"},
           SetTop(a, "resume", where),
           IsPage(page'[a]), page'[a].level = Len(frames[a])
    PROVE  /\ CallTypeOK(a)' /\ StackOK(a)'
           /\ DOMAIN frames' = Appenders
           /\ \A b \in Appenders \ {a} : frames'[b] = frames[b]
<1>1. Len(frames[a]) > 0
  BY AtParent
<1>2. /\ DOMAIN frames' = Appenders
      /\ \A b \in Appenders \ {a} : frames'[b] = frames[b]
      /\ IsList(frames'[a]) /\ Len(frames'[a]) = Len(frames[a])
      /\ \A i \in 1 .. Len(frames[a]) :
            /\ IsFrame(frames'[a][i]) /\ frames'[a][i].level = frames[a][i].level
            /\ IsPage(frames[a][i].child) => IsPage(frames'[a][i].child)
  BY <1>1, SetTopKept
<1>3. CallTypeOK(a)'
  BY <1>2, AtParent DEF CallTypeOK, HoldsPage, InRollup
<1>4. StackOK(a)'
  BY <1>2, AtParent DEF IInv, StackOK, InAddLeaf
<1> QED
  BY <1>2, <1>3, <1>4

(* The active parent is finalized first, or not. *)
LEMMA StaleOK ==
    ASSUME IInv, NEW a \in Appenders, RetireStaleParent(a) \/ ParentNotStale(a)
    PROVE  IInv' /\ Mine(a)
<1>1. pc[a] = "stale" /\ call' = call /\ CountersTypeOK'
  BY DEF RetireStaleParent, ParentNotStale, worldVars, IInv, TypeOK, CountersTypeOK
<1>2. CASE ParentNotStale(a)
  <2>1. pc'[a] = "parent" /\ UNCHANGED <<call, frames>> /\ Mine(a) /\ ManagerTypeOK'
    BY <1>2 DEF ParentNotStale, Goto, Mine, managerVars, IInv, TypeOK, ManagerTypeOK,
       Labels
  <2> QED
    BY <1>1, <2>1, StayAtParent, OthersKept
<1>3. CASE RetireStaleParent(a)
  <2>1. PICK p \in ActiveAt(ParentLevel(a)) :
           /\ activePages' = Without(p.level)
           /\ \/ Goto(a, "parent") /\ UNCHANGED <<page, frames>>
              \/ Goto(a, "store") /\ Hold(a, p) /\ SetTop(a, "resume", "parent")
    BY <1>3 DEF RetireStaleParent
  <2>2. IsPage(p) /\ p.level = Len(frames[a])
    BY <1>1, AtParent DEF ActiveAt, IInv, TypeOK, ManagerTypeOK
  <2>3. ManagerTypeOK'
    BY <1>3, <2>1 DEF RetireStaleParent, Without, IInv, TypeOK, ManagerTypeOK
  <2>4. CASE Goto(a, "parent") /\ UNCHANGED <<page, frames>>
    <3>1. pc'[a] = "parent" /\ Mine(a)
      BY <1>1, <2>4 DEF Goto, Mine, IInv, TypeOK, Labels
    <3> QED
      BY <1>1, <2>3, <2>4, <3>1, StayAtParent, OthersKept
  <2>5. CASE Goto(a, "store") /\ Hold(a, p) /\ SetTop(a, "resume", "parent")
    <3>1. pc'[a] = "store" /\ page'[a] = p
      BY <2>5 DEF Goto, Hold, IInv, TypeOK
    <3>2. /\ CallTypeOK(a)' /\ StackOK(a)' /\ DOMAIN frames' = Appenders
          /\ \A b \in Appenders \ {a} : frames'[b] = frames[b]
      BY <1>1, <2>2, <2>5, <3>1, StoreAtParent
    <3>3. Mine(a)
      BY <1>1, <2>5, <3>2 DEF Goto, Hold, Mine, IInv, TypeOK, Labels
    <3> QED
      BY <1>1, <2>3, <3>2, <3>3, OthersKept
  <2> QED
    BY <2>1, <2>4, <2>5
<1> QED
  BY <1>2, <1>3

(* The parent obtained, new or not, takes what the child has for it. *)
LEMMA ParentOK ==
    ASSUME IInv, NEW a \in Appenders,
           ReuseParent(a) \/ ReopenParent(a) \/ CreateParent(a)
    PROVE  IInv' /\ Mine(a)
<1>1. /\ pc[a] = "parent" /\ UNCHANGED <<call, frames, activePages, storage, lastFinalized>>
      /\ nextPageId' \in Nat /\ CountersTypeOK'
  BY DEF ReuseParent, ReopenParent, CreateParent, managerVars, worldVars, IInv, TypeOK,
         ManagerTypeOK, CountersTypeOK
<1>2. ASSUME NEW p, IsPage(p), p.level = ParentLevel(a), MergeInto(a, p)
      PROVE  IInv' /\ Mine(a)
  <2> DEFINE merged == RollInto(p, TopFrame(a).child)
  <2>1. IsPage(merged) /\ merged.level = Len(frames[a])
    BY <1>1, <1>2, AtParent, RollIntoIsPage
  <2> HIDE DEF merged
  <2>2. page' = [page EXCEPT ![a] = merged] /\ Goto(a, "settle")
    BY <1>2 DEF MergeInto, Hold, merged
  <2>3. page'[a] = merged /\ pc'[a] = "settle" /\ Mine(a)
    BY <1>1, <2>2 DEF Goto, Mine, IInv, TypeOK, Labels
  <2>4. CallTypeOK(a)' /\ StackOK(a)'
    BY <1>1, <2>1, <2>3, StayAtParent
  <2>5. ManagerTypeOK'
    BY <1>1 DEF IInv, TypeOK, ManagerTypeOK
  <2> QED
    BY <1>1, <2>3, <2>4, <2>5, OthersKept
<1>3. CASE ReuseParent(a)
  BY <1>2, <1>3 DEF ReuseParent, SuitableActive, ActiveAt, IInv, TypeOK, ManagerTypeOK
<1>4. CASE ReopenParent(a)
  BY <1>2, <1>4 DEF ReopenParent, Reopenable, LastStored, Stored, IInv, TypeOK,
     ManagerTypeOK
<1>5. CASE CreateParent(a)
  <2> DEFINE level == ParentLevel(a)
             start == WindowStart(ParentLevel(a), Trigger(a))
             prev == PrevHash(ParentLevel(a))
  <2>1. level \in Levels /\ start \in Nat /\ nextPageId \in Nat
    BY <1>1, AtParent, WindowHolds DEF IInv, TypeOK, ManagerTypeOK
  <2>2. MergeInto(a, NewPage(nextPageId, level, prev, start))
    BY <1>5 DEF CreateParent
  <2> HIDE DEF start, prev
  <2>3. /\ IsPage(NewPage(nextPageId, level, prev, start))
        /\ NewPage(nextPageId, level, prev, start).level = level
    BY <2>1, NewPageIsPage
  <2> QED
    BY <1>2, <2>2, <2>3
<1> QED
  BY <1>3, <1>4, <1>5

(* The parent is dropped, finalized or kept. *)
LEMMA SettleOK ==
    ASSUME IInv, NEW a \in Appenders,
           DiscardParent(a) \/ FinalizeParent(a) \/ KeepParent(a)
    PROVE  IInv' /\ Mine(a)
<1>1. /\ pc[a] = "settle" /\ UNCHANGED call /\ CountersTypeOK'
      /\ IsPage(page[a]) /\ page[a].level = Len(frames[a])
  BY DEF DiscardParent, FinalizeParent, KeepParent, worldVars, IInv, TypeOK,
         CountersTypeOK, CallTypeOK, StackOK, HoldsPage
<1>2. ManagerTypeOK'
  <2>1. nextPageId' \in Nat
    BY <1>1 DEF DiscardParent, FinalizeParent, KeepParent, Reverted, IInv, TypeOK,
       ManagerTypeOK, IsPage
  <2> QED
    BY <1>1, <2>1 DEF DiscardParent, FinalizeParent, KeepParent, Without, WithActive,
       IInv, TypeOK, ManagerTypeOK
<1>3. CASE DiscardParent(a) \/ KeepParent(a)
  <2>1. pc'[a] = "return" /\ UNCHANGED frames /\ Mine(a)
    BY <1>1, <1>3 DEF DiscardParent, KeepParent, Goto, Hold, Mine, IInv, TypeOK, Labels
  <2> QED
    BY <1>1, <1>2, <2>1, StayAtParent, OthersKept
<1>4. CASE FinalizeParent(a)
  <2>1. pc'[a] = "store" /\ page'[a] = page[a] /\ SetTop(a, "resume", "return")
    BY <1>4 DEF FinalizeParent, Goto, IInv, TypeOK
  <2>2. /\ CallTypeOK(a)' /\ StackOK(a)' /\ DOMAIN frames' = Appenders
        /\ \A b \in Appenders \ {a} : frames'[b] = frames[b]
    BY <1>1, <2>1, StoreAtParent
  <2>3. Mine(a)
    BY <1>1, <1>4, <2>2 DEF FinalizeParent, Goto, Mine, IInv, TypeOK, Labels
  <2> QED
    BY <1>1, <1>2, <2>2, <2>3, OthersKept
<1> QED
  BY <1>3, <1>4

(* perform_rollup returns. *)
LEMMA ReturnOK ==
    ASSUME IInv, NEW a \in Appenders, ReturnToParent(a) \/ ReturnToAddLeaf(a)
    PROVE  IInv' /\ Mine(a)
<1>1. /\ pc[a] = "return" /\ IsCall(call[a]) /\ IsList(frames[a])
      /\ Len(frames[a]) \in 1 .. Top + 1
      /\ \A i \in 1 .. Len(frames[a]) : IsFrame(frames[a][i]) /\ frames[a][i].level = i - 1
      /\ \A i \in 1 .. Len(frames[a]) - 1 : IsPage(frames[a][i].child)
  BY ConfigAssumption DEF ReturnToParent, ReturnToAddLeaf, IInv, TypeOK, CallTypeOK,
     StackOK, InRollup, IsList
<1>2. ManagerTypeOK' /\ CountersTypeOK'
  BY DEF ReturnToParent, ReturnToAddLeaf, managerVars, worldVars, IInv, TypeOK,
         ManagerTypeOK, CountersTypeOK
<1>3. CASE ReturnToParent(a)
  <2> DEFINE n == Len(frames[a]) - 1
             where == frames[a][Len(frames[a]) - 1].resume
  <2>0. n \in 1 .. Top /\ n \in 1 .. Len(frames[a]) /\ Len(frames[a]) > 0
    BY <1>1, <1>3, ConfigAssumption DEF ReturnToParent
  <2>1. where \in {"parent", "return"}
    BY <1>1, <2>0 DEF IsFrame
  <2>2. frames'[a] = SubSeq(frames[a], 1, Len(frames[a]) - 1) /\ pc'[a] = where
        /\ call' = call /\ Mine(a)
    BY <1>3, <2>0, <2>1 DEF ReturnToParent, Goto, Mine, IInv, TypeOK, Labels
  <2>3. /\ IsList(frames'[a]) /\ Len(frames'[a]) = n
        /\ \A i \in 1 .. n : frames'[a][i] = frames[a][i]
    BY <1>1, <2>0, <2>2, FrontList
  <2> HIDE DEF where
  <2>4. CallTypeOK(a)'
    BY <1>1, <2>0, <2>1, <2>2, <2>3 DEF CallTypeOK, HoldsPage
  <2>5. \A i \in 1 .. n : frames'[a][i].level = i - 1 /\ IsPage(frames'[a][i].child)
    BY <1>1, <2>0, <2>3
  <2> HIDE DEF n
  <2>6. StackOK(a)'
    <3>1. Len(frames[a])' = n /\ n <= Top + 1 /\ n \in 1 .. Top
      BY <2>0, <2>3, ConfigAssumption
    <3>2. \A i \in 1 .. n : frames'[a][i].level = i - 1
      BY <2>5
    <3>3. \A i \in 1 .. n : IsPage(frames'[a][i].child)
      BY <2>5
    <3>4. pc'[a] \in {"parent", "return"}
      BY <2>1, <2>2
    <3>5. \A i \in 1 .. n - 1 : IsPage(frames'[a][i].child)
      <4>1. \A i \in 1 .. n - 1 : i \in 1 .. n
        BY <3>1
      <4> QED
        BY <3>3, <4>1
    <3> QED
      BY <3>1, <3>2, <3>3, <3>4, <3>5 DEF StackOK, InAddLeaf
  <2> QED
    BY <1>2, <2>2, <2>4, <2>6, OthersKept
<1>4. CASE ReturnToAddLeaf(a) /\ ReturnOk(a)
  <2>1. Leave(a)
    BY <1>4 DEF ReturnOk
  <2>2. CallTypeOK(a)' /\ StackOK(a)'
    BY <2>1, LeaveOK
  <2>3. Mine(a)
    BY <2>1, LeaveOK
  <2> QED
    BY <1>2, <2>2, <2>3, OthersKept
<1>5. CASE ReturnToAddLeaf(a) /\ ~ReturnOk(a)
  <2>0. /\ pc \in [Appenders -> Labels]
        /\ DOMAIN call = Appenders /\ DOMAIN page = Appenders /\ DOMAIN frames = Appenders
    BY DEF IInv, TypeOK
  <2>1. \E label \in {"create", "take"} :
            pc' = [pc EXCEPT ![a] = label] /\ label \in Labels
    BY <1>5 DEF ReturnToAddLeaf, Goto, Labels
  <2>2. frames' = [frames EXCEPT ![a] = <<>>] /\ page' = page
    BY <1>5 DEF ReturnToAddLeaf
  <2>3. call' = call \/ call' = [call EXCEPT ![a].retaken = TRUE]
    BY <1>5 DEF ReturnToAddLeaf
  <2>4. IsCall(call'[a])
    BY <1>1, <2>0, <2>3 DEF IsCall
  <2>5. /\ frames'[a] = <<>> /\ pc'[a] \in {"create", "take"}
        /\ Mine(a)
    BY <2>0, <2>1, <2>2, <2>3 DEF Mine
  <2>6. IsList(<<>>) /\ Len(<<>>) = 0
    BY DEF IsList
  <2>7. CallTypeOK(a)' /\ StackOK(a)'
    BY <2>4, <2>5, <2>6, ConfigAssumption DEF CallTypeOK, StackOK, HoldsPage, InRollup
  <2> QED
    BY <1>2, <2>5, <2>7, OthersKept
<1> QED
  BY <1>3, <1>4, <1>5

(* A new manager on the old store. *)
LEMMA RestartOK ==
    ASSUME IInv, Restart
    PROVE  IInv'
<1>1. IsList(<<>>) /\ Len(<<>>) = 0
  BY DEF IsList
<1>2. \A a \in Appenders : CallTypeOK(a)' /\ StackOK(a)'
  BY <1>1, ConfigAssumption DEF Restart, CallTypeOK, StackOK, HoldsPage, InRollup
<1>3. CountersTypeOK'
  BY WorkloadAssumption DEF Restart, IInv, TypeOK, CountersTypeOK
<1>4. ManagerTypeOK'
  BY DEF Restart, IInv, TypeOK, ManagerTypeOK
<1> QED
  BY <1>2, <1>3, <1>4 DEF Restart, IInv, TypeOK, Labels

(* The manager starts with nothing. *)
LEMMA InitOK == Init => IInv
<1> SUFFICES ASSUME Init PROVE IInv
  OBVIOUS
<1>1. IsList(<<>>) /\ Len(<<>>) = 0
  BY DEF IsList
<1>2. \A a \in Appenders : CallTypeOK(a) /\ StackOK(a)
  BY <1>1, ConfigAssumption DEF Init, CallTypeOK, StackOK, HoldsPage, InRollup
<1>3. CountersTypeOK /\ ManagerTypeOK
  BY WorkloadAssumption DEF Init, CountersTypeOK, ManagerTypeOK
<1> QED
  BY <1>2, <1>3 DEF Init, IInv, TypeOK, Labels

(* A step of a call, all of them together. *)
LEMMA CallStepOK ==
    ASSUME IInv, NEW a \in Appenders, CallAddLeaf(a) \/ Step(a)
    PROVE  IInv' /\ Mine(a)
BY CallAddLeafOK, TakeOK, CreatePageOK, HaveOK, StoreOK, TrackOK, LoadOK, StaleOK,
   ParentOK, SettleOK, ReturnOK DEF Step

(* Every step keeps the invariant. *)
LEMMA StepOK == IInv /\ [Next]_vars => IInv'
<1> SUFFICES ASSUME IInv, [Next]_vars PROVE IInv'
  OBVIOUS
<1>1. CASE UNCHANGED vars
  BY <1>1 DEF vars, managerVars, callVars, worldVars, IInv, TypeOK, ManagerTypeOK,
     CallTypeOK, StackOK, CountersTypeOK
<1> QED
  BY <1>1, CallStepOK, RestartOK DEF Next

(* The inductive invariant: types, and the shape of the stack. *)
THEOREM SpecInv == Spec => []IInv
BY InitOK, StepOK, PTL DEF Spec

(* Type correctness, for every hierarchy and any number of overlapping calls. *)
THEOREM SpecTypeOK == Spec => []TypeOK
<1>1. IInv => TypeOK
  BY DEF IInv
<1> QED
  BY SpecInv, <1>1, PTL

(***************************************************************************)
(* The recursion of perform_rollup is bounded by the hierarchy, for every  *)
(* hierarchy, whatever the timestamps, failing stores and other calls.     *)
(***************************************************************************)
THEOREM SpecRecursionBounded == Spec => []RecursionBounded
<1>1. IInv => RecursionBounded
  BY DEF IInv, TypeOK, CallTypeOK, IsList, StackOK, RecursionBounded
<1> QED
  BY SpecInv, <1>1, PTL

----------------------------------------------------------------------------
(***************************************************************************)
(* PageBounds.  A page is tested when it is obtained, and the test is      *)
(* still good when the leaf or the child goes in, because a call works on  *)
(* a clone of its own: that is what holds between the two steps.           *)
(***************************************************************************)
MapsBounded ==
    /\ \A p \in activePages \cup storage : WithinBounds(p)
    /\ \A p \in activePages : HasSpace(p)

HandBounded(a) ==
    /\ page[a] # None => WithinBounds(page[a])
    /\ pc[a] \in HoldsPage => WithinBounds(page[a])
    /\ pc[a] = "have" => Suitable(page[a], Trigger(a))
    /\ pc[a] = "insert" => HasSpace(page[a])

BInv == MapsBounded /\ \A a \in Appenders : HandBounded(a)

(* A new page is within its bounds. *)
LEMMA NewPageBounded ==
    ASSUME NEW id \in Nat, NEW level \in Levels, NEW prev, NEW start \in Nat
    PROVE  /\ WithinBounds(NewPage(id, level, prev, start))
           /\ HasSpace(NewPage(id, level, prev, start))
<1> DEFINE p == NewPage(id, level, prev, start)
<1>1. IsPage(p) /\ p.leaves = <<>> /\ IsContentEmpty(p)
  BY NewPageIsPage
<1> HIDE DEF p
<1>2. HasSpace(p) /\ ContentLen(p) = 0
  BY <1>1, EmptyHasSpace
<1>3. WithinBounds(p)
  BY <1>1, <1>2, LevelConstants DEF WithinBounds, IsPage
<1> QED
  BY <1>2, <1>3 DEF p

(* A page that was found suitable is within its bounds with the leaf. *)
LEMMA AddLeafBounded ==
    ASSUME NEW p, IsPage(p), p.level = 0, NEW leaf \in Leaf,
           WithinBounds(p), Suitable(p, leaf.ts)
    PROVE  WithinBounds(AddLeaf(p, leaf))
<1> DEFINE q == AddLeaf(p, leaf)
<1>1. /\ q.leaves = Append(p.leaves, leaf) /\ q.level = 0 /\ q.start = p.start
      /\ p.leaves \in Seq(Leaf)
  BY AddLeafIsPage DEF IsPage
<1> HIDE DEF q
<1>2. \A i \in DOMAIN q.leaves : InWindow(q, q.leaves[i].ts)
  <2>1. EndTime(q) = EndTime(p)
    BY <1>1 DEF EndTime
  <2>2. \A i \in DOMAIN q.leaves :
           \/ q.leaves[i] = leaf
           \/ i \in DOMAIN p.leaves /\ q.leaves[i] = p.leaves[i]
    BY <1>1
  <2> QED
    BY <1>1, <2>1, <2>2 DEF WithinBounds, Suitable, InWindow
<1>3. ContentLen(q) <= MaxItems[0]
  <2>1. Len(p.leaves) < MaxItems[0]
    BY DEF Suitable, HasSpace, ContentLen
  <2>2. 0 \in Levels
    BY DEF IsPage
  <2> QED
    BY <1>1, <2>1, <2>2, LevelConstants DEF ContentLen
<1> QED
  BY <1>1, <1>2, <1>3 DEF WithinBounds, q

(* A parent with space is within its bounds after the merge. *)
LEMMA RollIntoBounded ==
    ASSUME NEW p, IsPage(p), p.level > 0, NEW child, IsPage(child),
           WithinBounds(p), HasSpace(p)
    PROVE  WithinBounds(RollInto(p, child))
<1> DEFINE q == RollInto(p, child)
<1>1. /\ IsPage(q) /\ q.leaves = p.leaves /\ q.level = p.level /\ q.start = p.start
      /\ Len(q.kids) <= Len(p.kids) + 1
  BY RollIntoIsPage
<1> HIDE DEF q
<1>2. \A i \in DOMAIN q.leaves : InWindow(q, q.leaves[i].ts)
  BY <1>1 DEF WithinBounds, InWindow, EndTime
<1>3. CASE ~UsesNetPatches(p.level)
  <2>1. Len(p.kids) < MaxItems[p.level]
    BY <1>3 DEF HasSpace, ContentLen
  <2>2. MaxItems[p.level] \in Nat /\ Len(p.kids) \in Nat /\ Len(q.kids) \in Nat
    BY <1>1, LevelConstants DEF IsPage, IsList
  <2>3. ContentLen(q) <= MaxItems[q.level]
    BY <1>1, <1>3, <2>1, <2>2 DEF ContentLen
  <2> QED
    BY <1>2, <2>3 DEF WithinBounds, q
<1> QED
  BY <1>1, <1>2, <1>3 DEF WithinBounds, q

(* A step of a call, in terms of the page it has in hand afterwards. *)
LEMMA HandsKept ==
    ASSUME BInv, NEW a \in Appenders, Mine(a), MapsBounded', HandBounded(a)'
    PROVE  BInv'
<1>1. \A b \in Appenders \ {a} : HandBounded(b)'
  BY DEF BInv, HandBounded, Mine, Trigger
<1> QED
  BY <1>1 DEF BInv

(* No step of a call takes a page over its bounds. *)
LEMMA BoundsStep ==
    ASSUME IInv, BInv, NEW a \in Appenders, Step(a)
    PROVE  BInv'
<1> USE DEF BInv
<1>0. Mine(a) /\ pc[a] \in Labels
  BY CallStepOK DEF IInv, TypeOK
<1>1. ASSUME MapsBounded', page'[a] = None, pc'[a] \notin HoldsPage PROVE BInv'
  BY <1>0, <1>1, HandsKept DEF HandBounded, HoldsPage
<1>2. ASSUME UNCHANGED <<activePages, storage>> PROVE MapsBounded'
  BY <1>2 DEF MapsBounded
<1>3. ASSUME MapsBounded', UNCHANGED page, pc'[a] \notin {"have", "insert"},
             pc'[a] \in HoldsPage => pc[a] \in HoldsPage
      PROVE  BInv'
  BY <1>0, <1>3, HandsKept DEF HandBounded
<1>4. ASSUME MapsBounded', WithinBounds(page'[a]), pc'[a] \notin {"have", "insert"}
      PROVE  BInv'
  BY <1>0, <1>4, HandsKept DEF HandBounded
<1>5. CASE TakeActivePage(a)
  <2>1. PICK p \in ActiveAt(0) : Suitable(p, Trigger(a)) /\ Obtain(a, p)
    BY <1>5 DEF TakeActivePage
  <2>2. page'[a] = p /\ pc'[a] = "have" /\ Trigger(a)' = Trigger(a)
    BY <1>5, <2>1 DEF TakeActivePage, Obtain, Hold, Goto, Trigger, IInv, TypeOK,
       CallTypeOK, IsCall
  <2>3. WithinBounds(p)
    BY DEF ActiveAt, MapsBounded
  <2>4. MapsBounded'
    BY <1>2, <1>5 DEF TakeActivePage, managerVars
  <2>5. HandBounded(a)'
    BY <2>1, <2>2, <2>3 DEF HandBounded
  <2> QED
    BY <1>0, <2>4, <2>5, HandsKept
<1>6. CASE RetireActivePage(a)
  <2>1. PICK p \in ActiveAt(0) :
           /\ activePages' = Without(0)
           /\ \/ Goto(a, "create") /\ UNCHANGED page
              \/ Hold(a, p) /\ Goto(a, "store")
    BY <1>6 DEF RetireActivePage
  <2>2. MapsBounded' /\ WithinBounds(p)
    BY <1>6, <2>1 DEF RetireActivePage, Without, ActiveAt, MapsBounded
  <2>3. CASE Goto(a, "create") /\ UNCHANGED page
    BY <1>3, <2>2, <2>3 DEF Goto, HoldsPage, IInv, TypeOK
  <2>4. CASE Hold(a, p) /\ Goto(a, "store")
    BY <1>4, <2>2, <2>4 DEF Hold, Goto, IInv, TypeOK
  <2> QED
    BY <2>1, <2>3, <2>4
<1>7. CASE FindNoActivePage(a)
  BY <1>2, <1>3, <1>7 DEF FindNoActivePage, managerVars, Goto, HoldsPage, IInv, TypeOK
<1>8. CASE CreatePage(a)
  <2> DEFINE prev == PrevHash(0)
             start == WindowStart(0, Trigger(a))
             p == NewPage(nextPageId, 0, prev, start)
  <2>1. nextPageId \in Nat /\ 0 \in Levels /\ Trigger(a) \in Nat
    BY <1>8, ConfigAssumption
       DEF CreatePage, IInv, TypeOK, ManagerTypeOK, CallTypeOK, IsCall, Leaf, Trigger,
           Levels
  <2>2. start \in Nat /\ start <= Trigger(a) /\ Trigger(a) < start + Duration[0]
    BY <2>1, WindowHolds
  <2>3. Obtain(a, p)
    BY <1>8 DEF CreatePage
  <2> HIDE DEF prev, start
  <2>4. WithinBounds(p) /\ HasSpace(p) /\ p.level = 0 /\ p.start = start
    BY <2>1, <2>2, NewPageBounded, NewPageIsPage
  <2> HIDE DEF p
  <2>5. Suitable(p, Trigger(a))
    BY <2>2, <2>4 DEF Suitable, InWindow, EndTime
  <2>6. page'[a] = p /\ pc'[a] = "have" /\ Trigger(a)' = Trigger(a)
    BY <1>8, <2>3 DEF CreatePage, Obtain, Hold, Goto, Trigger, IInv, TypeOK, CallTypeOK,
       IsCall
  <2>7. HandBounded(a)'
    BY <2>4, <2>5, <2>6 DEF HandBounded
  <2> QED
    BY <1>0, <1>2, <1>8, <2>7, HandsKept DEF CreatePage
<1>9. CASE PreFinalize(a)
  BY <1>2, <1>3, <1>9 DEF PreFinalize, managerVars, Goto, HoldsPage, IInv, TypeOK
<1>10. CASE AppendLeaf(a)
  <2> DEFINE grown == AddLeaf(page[a], call[a].leaf)
  <2>1. /\ IsPage(page[a]) /\ page[a].level = 0 /\ call[a].leaf \in Leaf
        /\ WithinBounds(page[a]) /\ Suitable(page[a], call[a].leaf.ts)
    BY <1>10 DEF AppendLeaf, IInv, TypeOK, CallTypeOK, StackOK, InAddLeaf, HoldsPage,
       IsCall, HandBounded, Trigger
  <2>2. WithinBounds(grown) /\ IsPage(grown) /\ grown.level = 0
    BY <2>1, AddLeafBounded, AddLeafIsPage
  <2> HIDE DEF grown
  <2>3. /\ page' = [page EXCEPT ![a] = grown] /\ UNCHANGED <<activePages, storage>>
        /\ Goto(a, IF FullOrOverAge(grown, call[a].op) \/ OutsideWindow(grown, Trigger(a))
                   THEN "store" ELSE "insert")
    BY <1>10 DEF AppendLeaf, managerVars, Hold, grown
  <2>4. page'[a] = grown /\ pc'[a] \in {"store", "insert"}
        /\ (pc'[a] = "insert" => ~FullOrOverAge(grown, call[a].op))
    BY <2>3 DEF Goto, IInv, TypeOK
  <2>5. pc'[a] = "insert" => HasSpace(grown)
    <3>1. ContentLen(grown) \in Nat /\ MaxItems[grown.level] \in Nat
      BY <2>2, LevelConstants DEF ContentLen, IsPage
    <3> QED
      BY <2>4, <3>1 DEF FullOrOverAge, HasSpace
  <2>6. HandBounded(a)'
    BY <2>2, <2>4, <2>5 DEF HandBounded
  <2> QED
    BY <1>0, <1>2, <2>3, <2>6, HandsKept
<1>11. CASE KeepActivePage(a)
  <2>1. MapsBounded'
    BY <1>11 DEF KeepActivePage, WithActive, Without, MapsBounded, HandBounded, HoldsPage
  <2>2. page'[a] = None /\ pc'[a] = "idle"
    BY <1>11 DEF KeepActivePage, ReturnOk, Leave, Hold, Goto, IInv, TypeOK
  <2> QED
    BY <1>1, <2>1, <2>2 DEF HoldsPage
<1>12. CASE StorePage(a)
  <2>1. MapsBounded'
    BY <1>12 DEF StorePage, MapsBounded, HandBounded, HoldsPage
  <2> QED
    BY <1>3, <1>12, <2>1 DEF StorePage, Goto, HoldsPage, IInv, TypeOK
<1>13. ASSUME Leave(a) PROVE page'[a] = None /\ pc'[a] = "idle"
  BY <1>13 DEF Leave, Hold, Goto, IInv, TypeOK
<1>14. CASE StorageFails(a) \/ ChildMissing(a)
  BY <1>1, <1>2, <1>13, <1>14 DEF StorageFails, ChildMissing, managerVars, HoldsPage
<1>15. CASE TrackFinalized(a)
  <2>1. MapsBounded'
    BY <1>15 DEF TrackFinalized, Without, MapsBounded
  <2> QED
    BY <1>1, <1>15, <2>1 DEF TrackFinalized, Hold, Goto, HoldsPage, IInv, TypeOK
<1>16. CASE LoadChild(a)
  BY <1>2, <1>3, <1>16 DEF LoadChild, managerVars, Goto, HoldsPage, IInv, TypeOK
<1>17. CASE ParentNotStale(a)
  BY <1>2, <1>3, <1>17 DEF ParentNotStale, managerVars, Goto, HoldsPage, IInv, TypeOK
<1>18. CASE RetireStaleParent(a)
  <2>1. PICK p \in ActiveAt(ParentLevel(a)) :
           /\ activePages' = Without(p.level)
           /\ \/ Goto(a, "parent") /\ UNCHANGED page
              \/ Goto(a, "store") /\ Hold(a, p)
    BY <1>18 DEF RetireStaleParent
  <2>2. MapsBounded' /\ WithinBounds(p)
    BY <1>18, <2>1 DEF RetireStaleParent, Without, ActiveAt, MapsBounded
  <2>3. CASE Goto(a, "parent") /\ UNCHANGED page
    BY <1>3, <2>2, <2>3 DEF Goto, HoldsPage, IInv, TypeOK
  <2>4. CASE Goto(a, "store") /\ Hold(a, p)
    BY <1>4, <2>2, <2>4 DEF Hold, Goto, IInv, TypeOK
  <2> QED
    BY <2>1, <2>3, <2>4
<1>19. ASSUME NEW p, pc[a] = "parent", IsPage(p), p.level = ParentLevel(a),
              WithinBounds(p), HasSpace(p), MergeInto(a, p),
              UNCHANGED <<activePages, storage>>
       PROVE  BInv'
  <2>1. IsPage(TopFrame(a).child) /\ p.level > 0
    BY <1>19, AtParent
  <2>2. WithinBounds(RollInto(p, TopFrame(a).child))
    BY <1>19, <2>1, RollIntoBounded
  <2>3. page'[a] = RollInto(p, TopFrame(a).child) /\ pc'[a] = "settle"
    BY <1>19 DEF MergeInto, Hold, Goto, IInv, TypeOK
  <2> QED
    BY <1>2, <1>4, <1>19, <2>2, <2>3
<1>20. CASE ReuseParent(a)
  BY <1>19, <1>20 DEF ReuseParent, SuitableActive, Suitable, ActiveAt, managerVars, IInv,
     TypeOK, ManagerTypeOK, MapsBounded
<1>21. CASE ReopenParent(a)
  BY <1>19, <1>21 DEF ReopenParent, Reopenable, LastStored, Stored, managerVars, IInv,
     TypeOK, ManagerTypeOK, MapsBounded
<1>22. CASE CreateParent(a)
  <2> DEFINE level == ParentLevel(a)
             start == WindowStart(ParentLevel(a), Trigger(a))
             prev == PrevHash(ParentLevel(a))
  <2>1. level \in Levels /\ start \in Nat /\ nextPageId \in Nat /\ pc[a] = "parent"
    BY <1>22, AtParent, WindowHolds DEF CreateParent, IInv, TypeOK, ManagerTypeOK
  <2>2. MergeInto(a, NewPage(nextPageId, level, prev, start))
        /\ UNCHANGED <<activePages, storage>>
    BY <1>22 DEF CreateParent
  <2> HIDE DEF start, prev
  <2>3. /\ IsPage(NewPage(nextPageId, level, prev, start))
        /\ NewPage(nextPageId, level, prev, start).level = level
        /\ WithinBounds(NewPage(nextPageId, level, prev, start))
        /\ HasSpace(NewPage(nextPageId, level, prev, start))
    BY <2>1, NewPageIsPage, NewPageBounded
  <2> QED
    BY <1>19, <2>1, <2>2, <2>3
<1>23. CASE DiscardParent(a)
  <2>1. MapsBounded'
    BY <1>23 DEF DiscardParent, Without, MapsBounded
  <2> QED
    BY <1>1, <1>23, <2>1 DEF DiscardParent, Hold, Goto, HoldsPage, IInv, TypeOK
<1>24. CASE FinalizeParent(a)
  <2>1. MapsBounded'
    BY <1>24 DEF FinalizeParent, Without, MapsBounded
  <2> QED
    BY <1>3, <1>24, <2>1 DEF FinalizeParent, Goto, HoldsPage, IInv, TypeOK
<1>25. CASE KeepParent(a)
  <2>1. IsPage(page[a]) /\ WithinBounds(page[a])
    BY <1>25 DEF KeepParent, IInv, TypeOK, CallTypeOK, HoldsPage, HandBounded
  <2>2. HasSpace(page[a])
    BY <1>25, <2>1, EmptyHasSpace DEF KeepParent, ParentDone
  <2>3. MapsBounded'
    BY <1>25, <2>1, <2>2 DEF KeepParent, WithActive, Without, MapsBounded
  <2> QED
    BY <1>1, <1>25, <2>3 DEF KeepParent, Hold, Goto, HoldsPage, IInv, TypeOK
<1>26. CASE ReturnToParent(a)
  <2>1. pc'[a] \in {"parent", "return"}
    <3>1. IsFrame(frames[a][Len(frames[a]) - 1])
      BY <1>26 DEF ReturnToParent, IInv, TypeOK, CallTypeOK, IsList
    <3> QED
      BY <1>26, <3>1 DEF ReturnToParent, Goto, IsFrame, IInv, TypeOK
  <2> QED
    BY <1>2, <1>3, <1>26, <2>1 DEF ReturnToParent, managerVars, HoldsPage
<1>27. CASE ReturnToAddLeaf(a)
  <2>1. \/ Leave(a)
        \/ UNCHANGED page /\ pc'[a] \in {"create", "take"}
    BY <1>27 DEF ReturnToAddLeaf, ReturnOk, Goto, IInv, TypeOK
  <2> QED
    BY <1>1, <1>2, <1>3, <1>13, <1>27, <2>1 DEF ReturnToAddLeaf, managerVars, HoldsPage
<1> QED
  BY <1>5, <1>6, <1>7, <1>8, <1>9, <1>10, <1>11, <1>12, <1>14, <1>15, <1>16, <1>17,
     <1>18, <1>20, <1>21, <1>22, <1>23, <1>24, <1>25, <1>26, <1>27 DEF Step

(* Every step keeps the bounds, and they hold at the start. *)
LEMMA BoundsOK == IInv /\ BInv /\ [Next]_vars => BInv'
<1> SUFFICES ASSUME IInv, BInv, [Next]_vars PROVE BInv'
  OBVIOUS
<1>1. CASE UNCHANGED vars
  BY <1>1 DEF vars, managerVars, callVars, BInv, MapsBounded, HandBounded, Trigger
<1>2. ASSUME NEW a \in Appenders, CallAddLeaf(a) PROVE BInv'
  <2>1. Mine(a) /\ pc'[a] = "take" /\ UNCHANGED <<page, activePages, storage>>
    BY <1>2, CallStepOK DEF CallAddLeaf, Goto, managerVars, IInv, TypeOK
  <2>2. MapsBounded' /\ HandBounded(a)'
    BY <2>1 DEF BInv, MapsBounded, HandBounded, HoldsPage
  <2> QED
    BY <2>1, <2>2, HandsKept
<1>3. CASE Restart
  BY <1>3 DEF Restart, BInv, MapsBounded, HandBounded, HoldsPage
<1> QED
  BY <1>1, <1>2, <1>3, BoundsStep DEF Next

(***************************************************************************)
(* Every page, active, stored or in the hands of a call, keeps its leaves  *)
(* inside its window and holds no more than its level allows, and an       *)
(* active page has space: for every hierarchy and configuration, any       *)
(* number of overlapping calls, any timestamps, failing stores, restarts   *)
(* (get_or_create_active_page_for_leaf, get_or_create_active_parent_page,  *)
(* and the size tests of add_leaf and perform_rollup).                     *)
(***************************************************************************)
THEOREM SpecPageBounds == Spec => []PageBounds
<1>1. Init => BInv
  BY DEF Init, BInv, MapsBounded, HandBounded, HoldsPage
<1>2. BInv => PageBounds
  BY DEF BInv, MapsBounded, HandBounded, PageBounds, Pages, InHand
<1> QED
  BY SpecInv, BoundsOK, <1>1, <1>2, PTL DEF Spec

=============================================================================
