---------------------------- MODULE WorkspaceProofs ----------------------------
(***************************************************************************)
(* Proofs about the page itself: its tabs and split panes (Workspace), and *)
(* the command blocks of a terminal (CommandBlocks).                       *)
(*                                                                         *)
(* The first part is about trees as sets of paths, the second about the    *)
(* layouts that the operations of the store make of them, the third about  *)
(* the sessions that the page waits for and shows.                         *)
(***************************************************************************)
EXTENDS Workspace, CommandBlocks, FiniteSetTheorems, SequenceTheorems,
  WellFoundedInduction, TLAPS

-----------------------------------------------------------------------------
(***************************************************************************)
(* Ranks.  In a finite set that is ordered totally, the number of elements *)
(* before an element tells which it is, and every number below the size of *)
(* the set is one's.                                                       *)
(***************************************************************************)
Before(S, R, x) == {y \in S : <<y, x>> \in R}

Orders(S, R) ==
  /\ \A x \in S : <<x, x>> \notin R
  /\ \A x, y, z \in S : <<x, y>> \in R /\ <<y, z>> \in R => <<x, z>> \in R
  /\ \A x, y \in S : x # y => <<x, y>> \in R \/ <<y, x>> \in R

\* A later element has more elements before it.
LEMMA RankGrows ==
  ASSUME NEW S, IsFiniteSet(S), NEW R, Orders(S, R), NEW x \in S
  PROVE  /\ Cardinality(Before(S, R, x)) \in 0 .. Cardinality(S) - 1
         /\ \A y \in S : <<x, y>> \in R =>
              Cardinality(Before(S, R, x)) < Cardinality(Before(S, R, y))
<1>1. \A z \in S : IsFiniteSet(Before(S, R, z)) /\ Cardinality(Before(S, R, z)) \in Nat
  <2>1. \A z \in S : Before(S, R, z) \in SUBSET S
    BY DEF Before
  <2> QED
    BY <2>1, FS_Subset, FS_CardinalityType
<1>2. IsFiniteSet(S \ {x}) /\ Cardinality(S \ {x}) = Cardinality(S) - 1
  BY FS_RemoveElement
<1>3. Cardinality(S) \in Nat
  BY FS_CardinalityType
<1>4. Before(S, R, x) \in SUBSET (S \ {x})
  BY DEF Before, Orders
<1>5. Cardinality(Before(S, R, x)) <= Cardinality(S) - 1
  BY <1>2, <1>4, FS_Subset
<1>6. ASSUME NEW y \in S, <<x, y>> \in R
      PROVE  Cardinality(Before(S, R, x)) < Cardinality(Before(S, R, y))
  <2>1. Before(S, R, x) \in SUBSET (Before(S, R, y) \ {x})
    BY <1>6 DEF Before, Orders
  <2>2. x \in Before(S, R, y)
    BY <1>6 DEF Before
  <2>3. /\ IsFiniteSet(Before(S, R, y) \ {x})
        /\ Cardinality(Before(S, R, y) \ {x}) = Cardinality(Before(S, R, y)) - 1
    BY <1>1, <2>2, FS_RemoveElement
  <2>4. Cardinality(Before(S, R, x)) <= Cardinality(Before(S, R, y)) - 1
    BY <2>1, <2>3, FS_Subset
  <2> QED
    BY <1>1, <2>4
<1> QED
  BY <1>1, <1>3, <1>5, <1>6

\* So the rank of an element tells which it is, and no rank is left out.
LEMMA RankTells ==
  ASSUME NEW S, IsFiniteSet(S), NEW R, Orders(S, R)
  PROVE  /\ \A x, y \in S :
              Cardinality(Before(S, R, x)) = Cardinality(Before(S, R, y)) => x = y
         /\ \A n \in 0 .. Cardinality(S) - 1 :
              \E x \in S : Cardinality(Before(S, R, x)) = n
<1> DEFINE N == 0 .. Cardinality(S) - 1
           rank == [x \in S |-> Cardinality(Before(S, R, x))]
<1>1. rank \in [S -> N]
  BY RankGrows
<1>2. \A x, y \in S : x # y => <<x, y>> \in R \/ <<y, x>> \in R
  BY DEF Orders
<1>3. \A x, y \in S : <<x, y>> \in R => rank[x] < rank[y]
  BY RankGrows
<1> HIDE DEF rank
<1>4. \A x, y \in S : rank[x] = rank[y] => x = y
  <2> SUFFICES ASSUME NEW x \in S, NEW y \in S, rank[x] = rank[y], x # y
               PROVE  FALSE
    OBVIOUS
  <2>1. rank[x] \in N /\ rank[y] \in N
    BY <1>1
  <2>2. rank[x] < rank[y] \/ rank[y] < rank[x]
    BY <1>2, <1>3
  <2> QED
    BY <2>1, <2>2
<1> USE DEF rank
<1>5. Cardinality(S) \in Nat
  BY FS_CardinalityType
<1>6. IsFiniteSet(N) /\ Cardinality(N) = Cardinality(S)
  BY <1>5, FS_Interval
<1>7. rank \in Injection(S, N)
  BY <1>1, <1>4 DEF Injection, IsInjective
<1>8. rank \in Surjection(S, N)
  BY <1>6, <1>7, FS_Injection
<1>9. \A n \in N : \E x \in S : rank[x] = n
  BY <1>8 DEF Surjection
<1> QED
  BY <1>4, <1>9

-----------------------------------------------------------------------------
(***************************************************************************)
(* Paths.                                                                  *)
(***************************************************************************)
\* A path is a sequence of steps, each to child a or child b.
LEMMA PathFacts ==
  ASSUME NEW p \in Paths
  PROVE  /\ Len(p) \in Nat /\ DOMAIN p = 1 .. Len(p)
         /\ \A i \in 1 .. Len(p) : p[i] \in {"a", "b"}
  BY DEF Paths

\* PartAt, with the positions as numbers.
LEMMA PartFacts ==
  ASSUME NEW p \in Paths, NEW q \in Paths, NEW i
  PROVE  PartAt(p, q, i) <=> /\ i \in 1 .. Len(p) /\ i \in 1 .. Len(q)
                             /\ \A j \in 1 .. i - 1 : p[j] = q[j]
                             /\ p[i] # q[i]
  BY PathFacts DEF PartAt

\* Paths are equal when their steps are.
LEMMA PathExt ==
  ASSUME NEW p \in Paths, NEW q \in Paths, Len(p) = Len(q),
         \A i \in 1 .. Len(p) : p[i] = q[i]
  PROVE  p = q
  BY SeqEqual DEF Paths

\* A tree has paths, finitely many and at least one.
LEMMA TreeFacts ==
  ASSUME NEW root, IsTree(root)
  PROVE  /\ DOMAIN root \subseteq Paths /\ IsFiniteSet(DOMAIN root)
         /\ Cardinality(DOMAIN root) \in Nat \ {0}
  BY FS_CardinalityType, FS_EmptySet DEF IsTree

\* Two paths part at one split only, and a third path parts with one of them
\* where it parts with the other, or where they part.
LEMMA PartOnce ==
  ASSUME NEW p \in Paths, NEW q \in Paths, NEW i, NEW j, PartAt(p, q, i), PartAt(p, q, j)
  PROVE  i = j
<1>1. /\ i \in Nat /\ j \in Nat /\ i >= 1 /\ j >= 1
      /\ \A k \in 1 .. i - 1 : p[k] = q[k]
      /\ \A k \in 1 .. j - 1 : p[k] = q[k]
      /\ p[i] # q[i] /\ p[j] # q[j]
  BY PathFacts, PartFacts
<1> QED
  BY <1>1

\* Parting is mutual.
LEMMA PartSym ==
  ASSUME NEW p, NEW q, NEW i, PartAt(p, q, i)
  PROVE  PartAt(q, p, i)
  BY DEF PartAt

\* The pairs of paths of which the first lies left.
LeftPairs(D) == {pq \in D \X D : LeftOf(pq[1], pq[2])}

\* Membership in LeftPairs.
LEMMA PairsIn ==
  ASSUME NEW D, NEW p \in D, NEW q \in D
  PROVE  <<p, q>> \in LeftPairs(D) <=> LeftOf(p, q)
<1>1. <<p, q>> \in D \X D /\ <<p, q>>[1] = p /\ <<p, q>>[2] = q
  OBVIOUS
<1> QED
  BY <1>1 DEF LeftPairs

\* LeftOf orders the leaves of a tree totally.
LEMMA LeftOrders ==
  ASSUME NEW root, IsTree(root)
  PROVE  Orders(DOMAIN root, LeftPairs(DOMAIN root))
<1> DEFINE D == DOMAIN root
           R == LeftPairs(D)
<1>1. D \subseteq Paths
  BY TreeFacts
<1>2. \A p, q \in D : <<p, q>> \in R <=> LeftOf(p, q)
  BY PairsIn
<1>3. \A p, q \in D : LeftOf(p, q) <=>
        \E i \in 1 .. Len(p) : PartAt(p, q, i) /\ p[i] = "a" /\ q[i] = "b"
  BY <1>1, PathFacts, PartFacts DEF LeftOf
<1>4. \A p \in D : ~LeftOf(p, p)
  BY <1>3
<1>5. ASSUME NEW p \in D, NEW q \in D, p # q
      PROVE  LeftOf(p, q) \/ LeftOf(q, p)
  <2>1. PICK i : PartAt(p, q, i)
    BY <1>5 DEF IsTree
  <2>2. /\ i \in 1 .. Len(p) /\ i \in 1 .. Len(q) /\ p[i] # q[i]
        /\ p[i] \in {"a", "b"} /\ q[i] \in {"a", "b"}
    BY <1>1, <2>1, PathFacts, PartFacts
  <2> QED
    BY <1>3, <2>1, <2>2, PartSym
<1>6. ASSUME NEW p \in D, NEW q \in D, NEW r \in D, LeftOf(p, q), LeftOf(q, r)
      PROVE  LeftOf(p, r)
  <2>1. PICK i \in 1 .. Len(p) : PartAt(p, q, i) /\ p[i] = "a" /\ q[i] = "b"
    BY <1>3, <1>6
  <2>2. PICK j \in 1 .. Len(q) : PartAt(q, r, j) /\ q[j] = "a" /\ r[j] = "b"
    BY <1>3, <1>6
  <2>3. /\ Len(p) \in Nat /\ Len(q) \in Nat /\ Len(r) \in Nat
        /\ i \in 1 .. Len(q) /\ j \in 1 .. Len(r)
        /\ \A k \in 1 .. i - 1 : p[k] = q[k]
        /\ \A k \in 1 .. j - 1 : q[k] = r[k]
    BY <1>1, <2>1, <2>2, PathFacts, PartFacts
  <2>4. CASE i < j
    <3>1. r[i] = "b" /\ i \in 1 .. Len(r) /\ \A k \in 1 .. i - 1 : p[k] = r[k]
      BY <2>1, <2>3, <2>4
    <3>2. PartAt(p, r, i)
      BY <1>1, <2>1, <2>3, <3>1, PartFacts
    <3> QED
      BY <1>3, <2>1, <3>1, <3>2
  <2>5. CASE j < i
    <3>1. p[j] = "a" /\ j \in 1 .. Len(p)
      BY <2>1, <2>2, <2>3, <2>5
    <3>2. PartAt(p, r, j)
      BY <1>1, <2>2, <2>3, <2>5, <3>1, PartFacts
    <3> QED
      BY <1>3, <2>2, <3>1, <3>2
  <2>6. i # j
    BY <2>1, <2>2
  <2> QED
    BY <2>3, <2>4, <2>5, <2>6
<1> HIDE DEF D, R
<1>7. \A p \in D : <<p, p>> \notin R
  BY <1>2, <1>4
<1>8. \A p, q, r \in D : <<p, q>> \in R /\ <<q, r>> \in R => <<p, r>> \in R
  BY <1>2, <1>6
<1>9. \A p, q \in D : p # q => <<p, q>> \in R \/ <<q, p>> \in R
  BY <1>2, <1>5
<1> QED
  BY <1>7, <1>8, <1>9 DEF Orders, D, R

\* leavesOf lists the leaves of a tree, each at one place.
LEMMA LeavesListed ==
  ASSUME NEW root, IsTree(root)
  PROVE  \E order \in [1 .. Cardinality(DOMAIN root) -> DOMAIN root] :
           /\ leavesOf(root) = [i \in 1 .. Cardinality(DOMAIN root) |-> root[order[i]]]
           /\ \A i, j \in 1 .. Cardinality(DOMAIN root) : order[i] = order[j] => i = j
           /\ \A p \in DOMAIN root :
                \E i \in 1 .. Cardinality(DOMAIN root) : order[i] = p
           /\ \A q \in DOMAIN root : ~LeftOf(q, order[1])
<1> DEFINE D == DOMAIN root
           N == 1 .. Cardinality(DOMAIN root)
           R == LeftPairs(D)
           order == [i \in N |-> CHOOSE p \in D : Cardinality({q \in D : LeftOf(q, p)}) = i - 1]
<1>1. Orders(D, R)
  BY LeftOrders
<1>2. \A p \in D : Before(D, R, p) = {q \in D : LeftOf(q, p)}
  <2>1. \A p, q \in D : <<q, p>> \in R <=> LeftOf(q, p)
    BY PairsIn
  <2> HIDE DEF R
  <2> QED
    BY <2>1 DEF Before
<1>3. IsFiniteSet(D) /\ Cardinality(D) \in Nat \ {0}
  BY TreeFacts
<1> HIDE DEF R
<1>4. /\ \A p, q \in D : Cardinality(Before(D, R, p)) = Cardinality(Before(D, R, q)) => p = q
      /\ \A n \in 0 .. Cardinality(D) - 1 : \E p \in D : Cardinality(Before(D, R, p)) = n
      /\ \A p \in D : Cardinality(Before(D, R, p)) \in 0 .. Cardinality(D) - 1
  BY <1>1, <1>3, RankTells, RankGrows
<1>5. \A i \in N : order[i] \in D /\ Cardinality(Before(D, R, order[i])) = i - 1
  <2> SUFFICES ASSUME NEW i \in N
               PROVE  order[i] \in D /\ Cardinality(Before(D, R, order[i])) = i - 1
    OBVIOUS
  <2>1. i - 1 \in 0 .. Cardinality(D) - 1
    BY <1>3
  <2>2. \E p \in D : Cardinality({q \in D : LeftOf(q, p)}) = i - 1
    BY <1>2, <1>4, <2>1
  <2>3. /\ order[i] \in D
        /\ Cardinality({q \in D : LeftOf(q, order[i])}) = i - 1
    BY <2>2
  <2> QED
    BY <1>2, <2>3
<1>6. leavesOf(root) = [i \in N |-> root[order[i]]]
  BY DEF leavesOf
<1> HIDE DEF order
<1>7. \A i, j \in N : order[i] = order[j] => i = j
  BY <1>3, <1>5
<1>8. \A p \in D : \E i \in N : order[i] = p
  <2> SUFFICES ASSUME NEW p \in D PROVE \E i \in N : order[i] = p
    OBVIOUS
  <2>1. Cardinality(Before(D, R, p)) + 1 \in N
    BY <1>3, <1>4
  <2>2. order[Cardinality(Before(D, R, p)) + 1] = p
    BY <1>3, <1>4, <1>5, <2>1
  <2> QED
    BY <2>1, <2>2
<1>9. \A q \in D : ~LeftOf(q, order[1])
  <2>1. 1 \in N /\ order[1] \in D /\ Cardinality(Before(D, R, order[1])) = 0
    BY <1>3, <1>5
  <2>2. IsFiniteSet(Before(D, R, order[1]))
    <3>1. Before(D, R, order[1]) \in SUBSET D
      BY DEF Before
    <3> QED
      BY <1>3, <3>1, FS_Subset
  <2>3. Before(D, R, order[1]) = {}
    BY <2>1, <2>2, FS_EmptySet
  <2> QED
    BY <1>2, <2>1, <2>3
<1>10. order \in [N -> D]
  BY <1>5 DEF order
<1> QED
  BY <1>6, <1>7, <1>8, <1>9, <1>10

\* The leftmost leaf is the first: its path never goes to child b.
LEMMA FirstLeaf ==
  ASSUME NEW root, IsTree(root)
  PROVE  \E p \in DOMAIN root : firstLeaf(root) = root[p]
<1>1. PICK p \in DOMAIN root : \A q \in DOMAIN root : ~LeftOf(q, p)
  <2>1. 1 \in 1 .. Cardinality(DOMAIN root)
    BY TreeFacts
  <2> QED
    BY <2>1, LeavesListed
<1>2. p \in Paths /\ DOMAIN root \subseteq Paths
  BY TreeFacts
<1>3. ASSUME NEW i \in DOMAIN p
      PROVE  p[i] = "a"
  <2>1. PICK q \in DOMAIN root : PartAt(p, q, i)
    BY <1>3 DEF IsTree
  <2>2. /\ q \in Paths /\ q[i] # p[i] /\ q[i] \in {"a", "b"} /\ p[i] \in {"a", "b"}
        /\ i \in DOMAIN q
    BY <1>2, <2>1, PathFacts, PartFacts
  <2>3. q[i] # "a"
    BY <1>1, <2>1, <2>2, PartSym DEF LeftOf
  <2> QED
    BY <2>2, <2>3
<1> QED
  BY <1>3 DEF firstLeaf

-----------------------------------------------------------------------------
(***************************************************************************)
(* The operations on trees: what splits, closes and joins them leaves a    *)
(* tree, with the leaves there were and at most one more.                  *)
(***************************************************************************)
LeafSet(root) == {root[p] : p \in DOMAIN root}

\* Each uid of a tree is one leaf's.
OneEach(root) == \A p, q \in DOMAIN root : root[p].id = root[q].id => p = q

\* A pane alone in its tab.
LEMMA AloneTree ==
  ASSUME NEW leaf
  PROVE  /\ IsTree(Alone(leaf)) /\ OneEach(Alone(leaf))
         /\ LeafSet(Alone(leaf)) = {leaf}
         /\ Cardinality(DOMAIN Alone(leaf)) = 1
<1>1. DOMAIN Alone(leaf) = {<<>>} /\ Alone(leaf)[<<>>] = leaf
  BY DEF Alone
<1>2. <<>> \in Paths /\ DOMAIN <<>> = {}
  BY DEF Paths
<1>3. IsFiniteSet({<<>>}) /\ Cardinality({<<>>}) = 1
  BY FS_Singleton
<1>4. IsTree(Alone(leaf))
  <2>1. \A p, q \in {<<>>} : p = q
    OBVIOUS
  <2> QED
    BY <1>1, <1>2, <1>3, <2>1 DEF IsTree
<1> QED
  BY <1>1, <1>3, <1>4 DEF OneEach, LeafSet

\* A path one step longer.
LEMMA StepFacts ==
  ASSUME NEW p \in Paths, NEW x \in {"a", "b"}
  PROVE  /\ Append(p, x) \in Paths /\ Len(Append(p, x)) = Len(p) + 1
         /\ Append(p, x)[Len(p) + 1] = x
         /\ \A j \in 1 .. Len(p) : Append(p, x)[j] = p[j]
  BY DEF Paths

\* Whatever parts with a path parts with its continuations, and these with each
\* other.
LEMMA PartStep ==
  ASSUME NEW p \in Paths, NEW x \in {"a", "b"}
  PROVE  /\ \A r \in Paths : \A i : PartAt(p, r, i) => PartAt(Append(p, x), r, i)
         /\ \A y \in {"a", "b"} \ {x} : PartAt(Append(p, x), Append(p, y), Len(p) + 1)
<1>1. Len(p) \in Nat
  BY PathFacts
<1>2. ASSUME NEW r \in Paths, NEW i, PartAt(p, r, i)
      PROVE  PartAt(Append(p, x), r, i)
  <2>1. /\ i \in 1 .. Len(p) /\ i \in 1 .. Len(r) /\ p[i] # r[i]
        /\ \A j \in 1 .. i - 1 : p[j] = r[j]
    BY <1>2, PartFacts
  <2>2. /\ i \in 1 .. Len(Append(p, x)) /\ Append(p, x)[i] # r[i]
        /\ \A j \in 1 .. i - 1 : Append(p, x)[j] = r[j]
    BY <1>1, <2>1, StepFacts
  <2> QED
    BY <2>1, <2>2, PartFacts, StepFacts
<1>3. ASSUME NEW y \in {"a", "b"} \ {x}
      PROVE  PartAt(Append(p, x), Append(p, y), Len(p) + 1)
  <2> DEFINE P == Append(p, x)
             Q == Append(p, y)
  <2>1. /\ P \in Paths /\ Q \in Paths /\ Len(P) = Len(p) + 1 /\ Len(Q) = Len(p) + 1
        /\ P[Len(p) + 1] = x /\ Q[Len(p) + 1] = y
        /\ \A j \in 1 .. Len(p) : P[j] = p[j] /\ Q[j] = p[j]
    BY StepFacts
  <2> HIDE DEF P, Q
  <2>2. PartAt(P, Q, Len(p) + 1)
    BY <1>1, <2>1, PartFacts
  <2> QED
    BY <2>2 DEF P, Q
<1> QED
  BY <1>2, <1>3

\* No path parts with itself.
LEMMA NoPartSelf ==
  ASSUME NEW p \in Paths, NEW i
  PROVE  ~PartAt(p, p, i)
  BY DEF PartAt

\* Splitting a leaf gives a tree with the new leaf next to it.
LEMMA SplitTree ==
  ASSUME NEW root, IsTree(root), NEW p \in DOMAIN root, NEW leaf
  PROVE  /\ IsTree(SplitAt(root, p, leaf))
         /\ Append(p, "b") \in DOMAIN SplitAt(root, p, leaf)
         /\ SplitAt(root, p, leaf)[Append(p, "b")] = leaf
         /\ LeafSet(SplitAt(root, p, leaf)) = LeafSet(root) \cup {leaf}
         /\ Cardinality(DOMAIN SplitAt(root, p, leaf)) <= Cardinality(DOMAIN root) + 1
         /\ OneEach(root) /\ leaf.id \notin LeafIds(root) => OneEach(SplitAt(root, p, leaf))
<1> DEFINE D == DOMAIN root
           pa == Append(p, "a")
           pb == Append(p, "b")
           E == (D \ {p}) \cup {pa, pb}
           split == SplitAt(root, p, leaf)
<1>1. D \subseteq Paths /\ p \in Paths /\ IsFiniteSet(D) /\ Cardinality(D) \in Nat
  BY TreeFacts
<1>2. /\ pa \in Paths /\ pb \in Paths /\ Len(pa) = Len(p) + 1 /\ Len(pb) = Len(p) + 1
      /\ Len(p) \in Nat
  BY <1>1, StepFacts, PathFacts
<1>3. /\ \A r \in Paths : \A i : PartAt(p, r, i) => PartAt(pa, r, i) /\ PartAt(pb, r, i)
      /\ PartAt(pa, pb, Len(p) + 1)
  BY <1>1, PartStep
<1>4. \A r \in D \ {p} : \E i : PartAt(p, r, i)
  BY DEF IsTree
<1> HIDE DEF pa, pb
<1>5. pa # pb /\ pa \notin D \ {p} /\ pb \notin D \ {p}
  BY <1>1, <1>2, <1>3, <1>4, NoPartSelf
<1>6. /\ DOMAIN split = E /\ split[pa] = root[p] /\ split[pb] = leaf
      /\ \A q \in D \ {p} : split[q] = root[q]
  BY <1>5 DEF SplitAt, pa, pb
<1> HIDE DEF split
<1>7. E \subseteq Paths /\ E # {}
  BY <1>1, <1>2
<1>8. IsFiniteSet(E) /\ Cardinality(E) <= Cardinality(D) + 1
  <2>1. IsFiniteSet(D \ {p}) /\ Cardinality(D \ {p}) = Cardinality(D) - 1
    BY <1>1, FS_RemoveElement
  <2> DEFINE F == (D \ {p}) \cup {pa}
  <2>2. IsFiniteSet(F) /\ Cardinality(F) \in {Cardinality(D) - 1, Cardinality(D)}
    BY <1>1, <2>1, FS_AddElement
  <2> HIDE DEF F
  <2>3. IsFiniteSet(F \cup {pb}) /\ Cardinality(F \cup {pb}) \in {Cardinality(F), Cardinality(F) + 1}
    BY <2>2, FS_AddElement
  <2>4. E = F \cup {pb}
    BY DEF F
  <2> HIDE DEF E
  <2> QED
    BY <1>1, <2>2, <2>3, <2>4
<1>9. \A q, r \in E : q # r => \E i : PartAt(q, r, i)
  <2> SUFFICES ASSUME NEW q \in E, NEW r \in E, q # r PROVE \E i : PartAt(q, r, i)
    OBVIOUS
  <2>1. CASE q \in D \ {p} /\ r \in D \ {p}
    BY <2>1 DEF IsTree
  <2>2. CASE q \in {pa, pb} /\ r \in D \ {p}
    BY <1>1, <1>3, <1>4, <2>2
  <2>3. CASE q \in D \ {p} /\ r \in {pa, pb}
    BY <1>1, <1>3, <1>4, <2>3, PartSym
  <2>4. CASE q \in {pa, pb} /\ r \in {pa, pb}
    BY <1>3, <2>4, PartSym
  <2> QED
    BY <2>1, <2>2, <2>3, <2>4
<1>10. \A q \in E : \A i \in DOMAIN q : \E r \in E : PartAt(q, r, i)
  <2>1. ASSUME NEW q \in D \ {p}, NEW i \in DOMAIN q
        PROVE  \E r \in E : PartAt(q, r, i)
    <3>1. PICK r \in D : PartAt(q, r, i)
      BY <2>1 DEF IsTree
    <3>2. CASE r = p
      <4>1. PartAt(pa, q, i)
        BY <1>1, <1>3, <3>1, <3>2, PartSym
      <4> QED
        BY <4>1, PartSym
    <3> QED
      BY <3>1, <3>2
  <2>2. ASSUME NEW q \in {pa, pb}, NEW i \in DOMAIN q
        PROVE  \E r \in E : PartAt(q, r, i)
    <3>1. i \in 1 .. Len(p) + 1
      BY <1>2, PathFacts
    <3>2. CASE i = Len(p) + 1
      BY <1>3, <3>2, PartSym
    <3>3. CASE i \in 1 .. Len(p)
      <4>1. i \in DOMAIN p
        BY <1>1, <3>3, PathFacts
      <4>2. PICK r \in D : PartAt(p, r, i)
        BY <4>1 DEF IsTree
      <4>3. r \in D \ {p} /\ PartAt(q, r, i)
        BY <1>1, <1>3, <4>2, NoPartSelf
      <4> QED
        BY <4>3
    <3> QED
      BY <1>2, <3>1, <3>2, <3>3
  <2> QED
    BY <2>1, <2>2
<1> HIDE DEF E
<1>11. IsTree(split)
  <2>1. \A q, r \in E : q # r => \E i \in DOMAIN q : PartAt(q, r, i)
    BY <1>9 DEF PartAt
  <2> QED
    BY <1>6, <1>7, <1>8, <1>10, <2>1 DEF IsTree
<1>12. LeafSet(split) = LeafSet(root) \cup {leaf}
  BY <1>6 DEF LeafSet, E
<1>13. ASSUME OneEach(root), leaf.id \notin LeafIds(root)
       PROVE  OneEach(split)
  BY <1>5, <1>6, <1>13 DEF OneEach, LeafIds, E
<1> QED
  BY <1>6, <1>8, <1>11, <1>12, <1>13 DEF split, pb, E

-----------------------------------------------------------------------------
\* What is left of a sequence after its first n elements, and a sequence put in
\* front of it that is one shorter.
LEMMA RestFacts ==
  ASSUME NEW S, NEW r \in Seq(S), NEW n \in Nat, n <= Len(r)
  PROVE  /\ SubSeq(r, n + 1, Len(r)) \in Seq(S)
         /\ Len(SubSeq(r, n + 1, Len(r))) = Len(r) - n
         /\ \A i \in 1 .. Len(r) - n : SubSeq(r, n + 1, Len(r))[i] = r[n + i]
<1> DEFINE m == n + 1
           k == Len(r)
<1>1. k \in Nat /\ m \in Nat /\ m = n + 1 /\ n <= k
  OBVIOUS
<1>2. \A i \in m .. k : r[i] \in S
  OBVIOUS
<1> DEFINE t == SubSeq(r, m, k)
<1> HIDE DEF m, k
<1>3. /\ t \in Seq(S) /\ Len(t) = IF m <= k THEN k - m + 1 ELSE 0
      /\ \A i \in 1 .. k - m + 1 : t[i] = r[m + i - 1]
  BY <1>1, <1>2, SubSeqProperties
<1> HIDE DEF t
<1>4. Len(t) = k - n /\ \A i \in 1 .. k - n : t[i] = r[n + i]
  BY <1>1, <1>3
<1> QED
  BY <1>3, <1>4 DEF t, m, k

\* The elements of a concatenation.
LEMMA Joined ==
  ASSUME NEW S, NEW front \in Seq(S), NEW t \in Seq(S)
  PROVE  /\ front \o t \in Seq(S) /\ Len(front \o t) = Len(front) + Len(t)
         /\ \A j \in 1 .. Len(front) : (front \o t)[j] = front[j]
         /\ \A j \in Len(front) + 1 .. Len(front) + Len(t) :
              (front \o t)[j] = t[j - Len(front)]
<1> DEFINE s == front \o t
<1>1. /\ s \in Seq(S) /\ Len(s) = Len(front) + Len(t)
      /\ \A j \in 1 .. Len(front) + Len(t) :
           s[j] = IF j <= Len(front) THEN front[j] ELSE t[j - Len(front)]
      /\ Len(front) \in Nat /\ Len(t) \in Nat
  BY ConcatProperties, LenProperties
<1> HIDE DEF s
<1>2. \A j \in 1 .. Len(front) : s[j] = front[j]
  BY <1>1
<1>3. \A j \in Len(front) + 1 .. Len(front) + Len(t) : s[j] = t[j - Len(front)]
  BY <1>1
<1> QED
  BY <1>1, <1>2, <1>3 DEF s

\* removeLeaf.  A path below the sibling loses the step at the split; the others
\* stay as they are.
LEMMA LiftedFacts ==
  ASSUME NEW p \in Paths, Len(p) # 0, NEW r \in Paths
  PROVE  /\ Lifted(p, r) \in Paths
         /\ ~PartAt(p, r, Len(p)) => Lifted(p, r) = r
         /\ PartAt(p, r, Len(p)) =>
              /\ Len(r) >= Len(p) /\ Len(Lifted(p, r)) = Len(r) - 1
              /\ \A j \in 1 .. Len(p) - 1 : Lifted(p, r)[j] = p[j]
              /\ \A j \in Len(p) .. Len(r) - 1 : Lifted(p, r)[j] = r[j + 1]
<1> DEFINE n == Len(p)
           other == IF Last(p) = "a" THEN "b" ELSE "a"
           S == {"a", "b"}
<1>0. n = Len(p)
  OBVIOUS
<1> HIDE DEF n
<1>1. /\ n \in Nat \ {0} /\ p \in Seq(S) /\ r \in Seq(S) /\ Len(r) \in Nat
      /\ DOMAIN p = 1 .. n /\ DOMAIN r = 1 .. Len(r)
      /\ \A i \in 1 .. n : p[i] \in S
      /\ \A i \in 1 .. Len(r) : r[i] \in S
  BY <1>0, PathFacts DEF Paths
<1>2. Last(p) = p[n] /\ p[n] \in S
  BY <1>0, <1>1 DEF Last
<1>3. /\ Front(p) \in Seq(S) /\ Len(Front(p)) = n - 1
      /\ \A j \in 1 .. n - 1 : Front(p)[j] = p[j]
  <2>1. 1 \in Int /\ n - 1 \in Int /\ \A i \in 1 .. n - 1 : p[i] \in S
    BY <1>1
  <2>2. /\ SubSeq(p, 1, n - 1) \in Seq(S)
        /\ Len(SubSeq(p, 1, n - 1)) = IF 1 <= n - 1 THEN n - 1 - 1 + 1 ELSE 0
        /\ \A i \in 1 .. n - 1 - 1 + 1 : SubSeq(p, 1, n - 1)[i] = p[1 + i - 1]
    BY <2>1, SubSeqProperties
  <2> QED
    BY <1>0, <1>1, <2>2 DEF Front
<1> DEFINE s == Sibling(p)
<1>4. /\ s \in Seq(S) /\ Len(s) = n /\ s[n] # p[n] /\ s[n] \in S
      /\ \A j \in 1 .. n - 1 : s[j] = p[j]
  <2>1. other \in S /\ other # p[n]
    BY <1>2
  <2>2. s = Append(Front(p), other)
    BY DEF Sibling
  <2> DEFINE front == Front(p)
  <2> HIDE DEF other, s, front
  <2>3. front \in Seq(S) /\ Len(front) = n - 1 /\ \A j \in 1 .. n - 1 : front[j] = p[j]
    BY <1>3 DEF front
  <2>4. s = Append(front, other)
    BY <2>2 DEF front
  <2>5. /\ s \in Seq(S) /\ Len(s) = n - 1 + 1 /\ s[n - 1 + 1] = other
        /\ \A j \in 1 .. n - 1 : s[j] = front[j]
    BY <2>1, <2>3, <2>4
  <2>6. n - 1 + 1 = n
    BY <1>1
  <2> QED
    BY <2>1, <2>3, <2>5, <2>6
<1> HIDE DEF s
<1>5. IsPrefix(s, r) <=> PartAt(p, r, n)
  <2>1. SubSeq(s, 1, n) = s
    BY <1>1, <1>4, SubSeqFull
  <2>2. CASE Len(r) < n
    <3>1. ~IsPrefix(s, r)
      BY <1>1, <1>4, <2>2 DEF IsPrefix
    <3>2. ~PartAt(p, r, n)
      BY <1>1, <2>2, PartFacts
    <3> QED
      BY <3>1, <3>2
  <2>3. CASE Len(r) >= n
    <3>1. \A i \in 1 .. n : r[i] \in S
      BY <1>1, <2>3
    <3>2. /\ SubSeq(r, 1, n) \in Seq(S)
          /\ Len(SubSeq(r, 1, n)) = IF 1 <= n THEN n - 1 + 1 ELSE 0
          /\ \A i \in 1 .. n - 1 + 1 : SubSeq(r, 1, n)[i] = r[1 + i - 1]
      BY <1>1, <3>1, SubSeqProperties
    <3>3. Len(SubSeq(r, 1, n)) = n /\ \A i \in 1 .. n : SubSeq(r, 1, n)[i] = r[i]
      BY <1>1, <3>2
    <3>4. SubSeq(r, 1, n) = s <=> \A i \in 1 .. n : s[i] = r[i]
      BY <1>4, <3>2, <3>3, SeqEqual
    <3>5. IsPrefix(s, r) <=> \A i \in 1 .. n : s[i] = r[i]
      BY <1>1, <1>4, <2>1, <2>3, <3>4 DEF IsPrefix
    <3>6. PartAt(p, r, n) <=> (\A j \in 1 .. n - 1 : p[j] = r[j]) /\ p[n] # r[n]
      <4>1. n \in 1 .. Len(p) /\ n \in 1 .. Len(r)
        BY <1>0, <1>1, <2>3
      <4> QED
        BY <4>1, PartFacts
    <3>7. r[n] \in S /\ p[n] \in S
      BY <1>1, <2>3
    <3> QED
      BY <1>1, <1>4, <3>5, <3>6, <3>7
  <2> QED
    BY <1>1, <2>2, <2>3
<1>6. CASE ~PartAt(p, r, n)
  BY <1>0, <1>5, <1>6 DEF Lifted, s
<1>7. CASE PartAt(p, r, n)
  <2> DEFINE t == SubSeq(r, n + 1, Len(r))
  <2>1. Len(r) >= n
    BY <1>1, <1>7, PartFacts
  <2>2. t \in Seq(S) /\ Len(t) = Len(r) - n /\ \A i \in 1 .. Len(r) - n : t[i] = r[n + i]
    BY <1>1, <2>1, RestFacts
  <2>3. Lifted(p, r) = Front(p) \o t
    BY <1>0, <1>5, <1>7 DEF Lifted, s
  <2> DEFINE front == Front(p)
  <2>4. front \in Seq(S) /\ Len(front) = n - 1 /\ \A j \in 1 .. n - 1 : front[j] = p[j]
    BY <1>3
  <2>5. Lifted(p, r) = front \o t
    BY <2>3
  <2> HIDE DEF t, front
  <2>6. /\ Lifted(p, r) \in Seq(S) /\ Len(Lifted(p, r)) = Len(r) - 1
        /\ \A j \in 1 .. n - 1 : Lifted(p, r)[j] = p[j]
        /\ \A j \in n .. Len(r) - 1 : Lifted(p, r)[j] = r[j + 1]
    <3>1. /\ front \o t \in Seq(S) /\ Len(front \o t) = Len(front) + Len(t)
          /\ \A j \in 1 .. Len(front) : (front \o t)[j] = front[j]
          /\ \A j \in Len(front) + 1 .. Len(front) + Len(t) :
               (front \o t)[j] = t[j - Len(front)]
      BY <2>2, <2>4, Joined
    <3> DEFINE s1 == front \o t
               k == Len(r)
    <3>2. n \in Nat \ {0} /\ k \in Nat /\ n <= k /\ Len(front) = n - 1 /\ Len(t) = k - n
      BY <1>1, <2>1, <2>2, <2>4
    <3>3. (\A i \in 1 .. k - n : t[i] = r[n + i]) /\ (\A j \in 1 .. n - 1 : front[j] = p[j])
      BY <2>2, <2>4
    <3> HIDE DEF s1, k
    <3>4. /\ s1 \in Seq(S) /\ Len(s1) = Len(front) + Len(t)
          /\ \A j \in 1 .. Len(front) : s1[j] = front[j]
          /\ \A j \in Len(front) + 1 .. Len(front) + Len(t) : s1[j] = t[j - Len(front)]
      BY <3>1 DEF s1
    <3>5. Len(s1) = k - 1 /\ \A j \in 1 .. n - 1 : s1[j] = p[j]
      BY <3>2, <3>3, <3>4
    <3>6. ASSUME NEW j \in n .. k - 1
          PROVE  s1[j] = r[j + 1]
      <4>1. j \in Len(front) + 1 .. Len(front) + Len(t)
        BY <3>2, <3>6
      <4>2. j - Len(front) \in 1 .. k - n /\ n + (j - Len(front)) = j + 1
        BY <3>2, <3>6
      <4> QED
        BY <3>3, <3>4, <4>1, <4>2
    <3> QED
      BY <2>5, <3>4, <3>5, <3>6 DEF s1, k
  <2> QED
    BY <1>0, <1>1, <1>7, <2>1, <2>6 DEF Paths
<1> QED
  BY <1>0, <1>6, <1>7

-----------------------------------------------------------------------------
\* Where lifted paths part.
LEMMA LiftedParts ==
  ASSUME NEW p \in Paths, Len(p) # 0, NEW r \in Paths, NEW q \in Paths, NEW i,
         PartAt(p, r, Len(p))
  PROVE  /\ PartAt(p, q, i) /\ i # Len(p) => PartAt(Lifted(p, r), q, i)
         /\ PartAt(p, q, Len(p)) /\ PartAt(r, q, i) =>
              /\ i - 1 \in Nat /\ i - 1 >= Len(p)
              /\ PartAt(Lifted(p, r), Lifted(p, q), i - 1)
<1> DEFINE n == Len(p)
           lr == Lifted(p, r)
           lq == Lifted(p, q)
<1>1. /\ n \in Nat \ {0} /\ Len(r) \in Nat /\ Len(q) \in Nat
      /\ lr \in Paths /\ lq \in Paths
  BY PathFacts, LiftedFacts
<1>2. /\ Len(r) >= n /\ Len(lr) = Len(r) - 1
      /\ \A j \in 1 .. n - 1 : lr[j] = p[j]
      /\ \A j \in n .. Len(r) - 1 : lr[j] = r[j + 1]
  BY LiftedFacts
<1>3. ASSUME PartAt(p, q, n)
      PROVE  /\ Len(q) >= n /\ Len(lq) = Len(q) - 1
             /\ \A j \in 1 .. n - 1 : lq[j] = p[j]
             /\ \A j \in n .. Len(q) - 1 : lq[j] = q[j + 1]
  BY <1>3, LiftedFacts
<1> HIDE DEF lr, lq
<1>4. ASSUME PartAt(p, q, i), i # n
      PROVE  PartAt(lr, q, i)
  <2>1. /\ i \in 1 .. n - 1 /\ i \in 1 .. Len(q) /\ p[i] # q[i]
        /\ \A j \in 1 .. i - 1 : p[j] = q[j]
    BY <1>1, <1>4, PartFacts
  <2>2. i \in 1 .. Len(lr) /\ lr[i] # q[i] /\ \A j \in 1 .. i - 1 : lr[j] = q[j]
    BY <1>1, <1>2, <2>1
  <2> QED
    BY <1>1, <2>1, <2>2, PartFacts
<1>5. ASSUME PartAt(p, q, n), PartAt(r, q, i)
      PROVE  i - 1 \in Nat /\ i - 1 >= n /\ PartAt(lr, lq, i - 1)
  <2>1. /\ i \in 1 .. Len(r) /\ i \in 1 .. Len(q) /\ r[i] # q[i]
        /\ \A j \in 1 .. i - 1 : r[j] = q[j]
    BY <1>5, PartFacts
  <2>2. /\ \A j \in 1 .. n - 1 : p[j] = r[j] /\ p[j] = q[j]
        /\ p[n] # r[n] /\ p[n] # q[n]
    BY <1>5, PartFacts
  <2>3. r[n] = q[n]
    <3>1. r[n] \in {"a", "b"} /\ q[n] \in {"a", "b"} /\ p[n] \in {"a", "b"}
      BY <1>1, <1>2, <1>3, <1>5, PathFacts
    <3> QED
      BY <2>2, <3>1
  <2>4. i > n
    <3>1. ~(i \in 1 .. n - 1)
      BY <2>1, <2>2
    <3>2. i # n
      BY <2>1, <2>3
    <3> QED
      BY <1>1, <2>1, <3>1, <3>2
  <2> DEFINE k == i - 1
  <2>5. /\ k \in Nat /\ k >= n /\ k >= 1 /\ i = k + 1 /\ k \in 1 .. Len(r) - 1 /\ k \in 1 .. Len(q) - 1
        /\ k \in n .. Len(r) - 1 /\ k \in n .. Len(q) - 1
    BY <1>1, <2>1, <2>4
  <2> HIDE DEF k
  <2>6. lr[k] # lq[k]
    BY <1>2, <1>3, <1>5, <2>1, <2>5
  <2>7. ASSUME NEW j \in 1 .. k - 1
        PROVE  lr[j] = lq[j]
    <3>1. CASE j \in 1 .. n - 1
      BY <1>2, <1>3, <1>5, <3>1
    <3>2. CASE j \in n .. k - 1
      <4>1. j \in n .. Len(r) - 1 /\ j \in n .. Len(q) - 1 /\ j + 1 \in 1 .. i - 1
        BY <1>1, <2>5, <3>2
      <4> QED
        BY <1>2, <1>3, <1>5, <2>1, <4>1
    <3> QED
      BY <1>1, <2>5, <3>1, <3>2
  <2>8. PartAt(lr, lq, k)
    <3>1. k \in 1 .. Len(lr) /\ k \in 1 .. Len(lq)
      BY <1>2, <1>3, <1>5, <2>5
    <3> QED
      BY <1>1, <2>6, <2>7, <3>1, PartFacts
  <2> QED
    BY <2>5, <2>8 DEF k
<1> QED
  BY <1>4, <1>5 DEF lr, lq

\* A path that parts with a second one before a third does parts with the third
\* at the same step.
LEMMA PartBefore ==
  ASSUME NEW p \in Paths, NEW q \in Paths, NEW r \in Paths, NEW i, NEW j,
         PartAt(p, q, i), PartAt(q, r, j), i < j
  PROVE  PartAt(p, r, i)
<1>1. /\ i \in 1 .. Len(p) /\ i \in 1 .. Len(q) /\ p[i] # q[i]
      /\ j \in 1 .. Len(q) /\ j \in 1 .. Len(r)
      /\ \A k \in 1 .. i - 1 : p[k] = q[k]
      /\ \A k \in 1 .. j - 1 : q[k] = r[k]
      /\ Len(p) \in Nat /\ Len(q) \in Nat /\ Len(r) \in Nat
  BY PathFacts, PartFacts
<1>2. i \in 1 .. Len(r) /\ q[i] = r[i] /\ \A k \in 1 .. i - 1 : q[k] = r[k]
  BY <1>1
<1> QED
  BY <1>1, <1>2, PartFacts

\* Removing a leaf gives a tree of the other leaves.
LEMMA RemoveTree ==
  ASSUME NEW root, IsTree(root), NEW p \in DOMAIN root, Cardinality(DOMAIN root) # 1
  PROVE  /\ IsTree(removeLeaf(root, p))
         /\ LeafSet(removeLeaf(root, p)) = {root[r] : r \in DOMAIN root \ {p}}
         /\ Cardinality(DOMAIN removeLeaf(root, p)) <= Cardinality(DOMAIN root)
         /\ OneEach(root) => OneEach(removeLeaf(root, p))
<1> DEFINE D == DOMAIN root
           n == Len(p)
           R == D \ {p}
           L(r) == Lifted(p, r)
           E == {L(r) : r \in R}
           rest == removeLeaf(root, p)
<1>1. D \subseteq Paths /\ p \in Paths /\ IsFiniteSet(D) /\ Cardinality(D) \in Nat
  BY TreeFacts
<1>2. \A q, r \in D : q # r => \E i : PartAt(q, r, i)
  BY DEF IsTree
<1>3. \A q \in D : \A i \in 1 .. Len(q) : \E r \in D : PartAt(q, r, i)
  BY <1>1, PathFacts DEF IsTree
<1>4. R # {}
  <2>1. SUFFICES ASSUME R = {} PROVE FALSE
    OBVIOUS
  <2>2. D = {p}
    BY <2>1
  <2> QED
    BY <2>2, FS_Singleton
<1>5. n # 0 /\ n \in Nat
  <2>1. PICK r \in R : TRUE
    BY <1>4
  <2>2. PICK i : PartAt(p, r, i)
    BY <1>2, <2>1
  <2>3. i \in 1 .. n
    BY <1>1, <2>2, PartFacts
  <2> QED
    BY <1>1, <2>3, PathFacts
<1>6. PICK s \in R : PartAt(p, s, n)
  <2>1. n \in 1 .. Len(p)
    BY <1>5
  <2>2. PICK s \in D : PartAt(p, s, n)
    BY <1>1, <1>3, <2>1
  <2> QED
    BY <1>1, <2>2, NoPartSelf
\* Every other leaf parts with p, at its last step or before.
<1>7. \A r \in R : L(r) \in Paths /\ (PartAt(p, r, n) \/ L(r) = r)
  BY <1>1, <1>5, LiftedFacts
<1>8. \A r \in R : ~PartAt(p, r, n) => \E i : i # n /\ PartAt(p, r, i)
  BY <1>2
<1>9. \A r \in R : \A q \in Paths : \A i :
        PartAt(p, r, n) /\ PartAt(p, q, i) /\ i # n => PartAt(L(r), q, i)
  BY <1>1, <1>5, LiftedParts
<1>10. \A r, q \in R : \A i :
        PartAt(p, r, n) /\ PartAt(p, q, n) /\ PartAt(r, q, i) =>
          i - 1 \in Nat /\ i - 1 >= n /\ PartAt(L(r), L(q), i - 1)
  BY <1>1, <1>5, LiftedParts
<1>11. \A r \in R : \A i : ~PartAt(p, r, n) => L(r) = r
  BY <1>7
<1> HIDE DEF L
<1>12. ASSUME NEW q \in R, NEW r \in R, q # r
       PROVE  \E i : PartAt(L(q), L(r), i)
  <2>1. PICK i : PartAt(q, r, i)
    BY <1>2, <1>12
  <2>2. CASE PartAt(p, q, n) /\ PartAt(p, r, n)
    BY <1>10, <2>1, <2>2
  <2>3. CASE PartAt(p, q, n) /\ ~PartAt(p, r, n)
    BY <1>1, <1>7, <1>8, <1>9, <2>3
  <2>4. CASE ~PartAt(p, q, n) /\ PartAt(p, r, n)
    <3>1. \E k : PartAt(L(r), q, k)
      BY <1>1, <1>8, <1>9, <2>4
    <3> QED
      BY <1>7, <2>4, <3>1, PartSym
  <2>5. CASE ~PartAt(p, q, n) /\ ~PartAt(p, r, n)
    BY <1>7, <2>1, <2>5
  <2> QED
    BY <2>2, <2>3, <2>4, <2>5
<1>13. ASSUME NEW r \in R, NEW i \in 1 .. Len(L(r))
       PROVE  \E q \in R : PartAt(L(r), L(q), i)
  <2>1. CASE ~PartAt(p, r, n)
    <3>1. L(r) = r
      BY <1>7, <2>1
    <3>2. PICK q \in D : PartAt(r, q, i)
      BY <1>3, <3>1
    <3>3. PICK k : k # n /\ PartAt(p, r, k)
      BY <1>8, <2>1
    <3>4. CASE q = p
      <4>1. i = k
        BY <1>1, <3>2, <3>3, <3>4, PartSym, PartOnce
      <4>2. PartAt(L(s), r, k)
        BY <1>1, <1>6, <1>9, <3>3
      <4> QED
        BY <3>1, <4>1, <4>2, PartSym
    <3>5. CASE q # p /\ PartAt(p, q, n)
      <4>1. PartAt(L(q), r, k)
        BY <1>1, <1>9, <3>3, <3>5
      <4>2. PartAt(r, q, k)
        <5>1. k < n
          BY <1>1, <1>5, <3>3, PathFacts, PartFacts
        <5> QED
          BY <1>1, <3>3, <3>5, <5>1, PartSym, PartBefore
      <4>3. i = k
        BY <1>1, <3>2, <4>2, PartOnce
      <4> QED
        BY <3>1, <3>5, <4>1, <4>3, PartSym
    <3>6. CASE q # p /\ ~PartAt(p, q, n)
      BY <1>7, <3>1, <3>2, <3>6
    <3> QED
      BY <3>4, <3>5, <3>6
  <2>2. CASE PartAt(p, r, n) /\ i < n
    <3>1. i \in 1 .. Len(p)
      BY <1>5, <2>2
    <3>2. PICK q \in D : PartAt(p, q, i)
      BY <1>1, <1>3, <3>1
    <3>3. q \in R /\ ~PartAt(p, q, n)
      BY <1>1, <1>5, <2>2, <3>2, PartOnce, NoPartSelf
    <3> QED
      BY <1>1, <1>5, <1>7, <1>9, <2>2, <3>2, <3>3
  <2>3. CASE PartAt(p, r, n) /\ i >= n
    <3>1. Len(L(r)) = Len(r) - 1 /\ Len(r) \in Nat
      BY <1>1, <1>5, <2>3, LiftedFacts, PathFacts DEF L
    <3>2. i + 1 \in 1 .. Len(r)
      BY <1>5, <3>1
    <3>3. PICK q \in D : PartAt(r, q, i + 1)
      BY <1>3, <3>2
    <3>4. PartAt(p, q, n)
      <4>1. n # i + 1 /\ n < i + 1
        BY <1>5, <2>3
      <4> QED
        BY <1>1, <2>3, <3>3, <4>1, PartSym, PartBefore
    <3>5. q \in R /\ PartAt(p, q, n)
      BY <1>1, <3>4, NoPartSelf
    <3>6. PartAt(L(r), L(q), i + 1 - 1)
      BY <1>10, <2>3, <3>3, <3>5
    <3>7. i + 1 - 1 = i
      BY <1>5
    <3> QED
      BY <3>5, <3>6, <3>7
  <2> QED
    BY <1>5, <2>1, <2>2, <2>3
<1>14. \A q, r \in R : L(q) = L(r) => q = r
  BY <1>7, <1>12, NoPartSelf
<1>15. DOMAIN rest = E /\ \A r \in R : rest[L(r)] = root[r]
  <2>1. rest = [q \in E |-> root[CHOOSE r \in R : L(r) = q]]
    BY DEF removeLeaf, L
  <2>2. \A r \in R : (CHOOSE q \in R : L(q) = L(r)) = r
    BY <1>14
  <2> QED
    BY <2>1, <2>2
<1> HIDE DEF rest, R
<1>16. IsFiniteSet(R) /\ Cardinality(R) <= Cardinality(D)
  BY <1>1, FS_Subset DEF R
<1>17. IsFiniteSet(E) /\ Cardinality(E) <= Cardinality(D)
  <2> DEFINE lift == [r \in R |-> L(r)]
  <2>1. IsFiniteSet(E) /\ Cardinality(E) <= Cardinality(R)
    <3>1. lift \in Surjection(R, E)
      BY DEF Surjection
    <3> HIDE DEF lift, E
    <3> QED
      BY <1>16, <3>1, FS_Surjection
  <2> QED
    BY <1>1, <1>16, <2>1, FS_CardinalityType
<1>18. IsTree(rest)
  <2>1. E \subseteq Paths /\ E # {}
    BY <1>4, <1>7
  <2>2. \A q, r \in E : q # r => \E i \in DOMAIN q : PartAt(q, r, i)
    BY <1>12 DEF PartAt
  <2>3. \A q \in E : \A i \in DOMAIN q : \E r \in E : PartAt(q, r, i)
    <3> SUFFICES ASSUME NEW r \in R, NEW i \in DOMAIN L(r)
                 PROVE  \E q \in E : PartAt(L(r), q, i)
      OBVIOUS
    <3>1. i \in 1 .. Len(L(r))
      BY <1>7, PathFacts
    <3> QED
      BY <1>13, <3>1
  <2> HIDE DEF E
  <2> QED
    BY <1>15, <1>17, <2>1, <2>2, <2>3 DEF IsTree
<1>19. LeafSet(rest) = {root[r] : r \in R}
  BY <1>15 DEF LeafSet
<1>20. ASSUME OneEach(root)
       PROVE  OneEach(rest)
  BY <1>15, <1>20 DEF OneEach, R
<1> QED
  BY <1>15, <1>17, <1>18, <1>19, <1>20 DEF rest, R

-----------------------------------------------------------------------------
\* A path one split further down.
LEMMA ConsFacts ==
  ASSUME NEW x \in {"a", "b"}, NEW p \in Paths
  PROVE  /\ <<x>> \o p \in Paths /\ Len(<<x>> \o p) = Len(p) + 1
         /\ (<<x>> \o p)[1] = x
         /\ \A i \in 1 .. Len(p) : (<<x>> \o p)[i + 1] = p[i]
         /\ Tail(<<x>> \o p) = p
<1> DEFINE S == {"a", "b"}
           one == <<x>>
           xp == one \o p
<1>1. p \in Seq(S) /\ Len(p) \in Nat
  BY PathFacts DEF Paths
<1>2. one \in Seq(S) /\ Len(one) = 1 /\ one[1] = x
  OBVIOUS
<1> HIDE DEF one, S
<1>3. /\ xp \in Seq(S) /\ Len(xp) = Len(one) + Len(p)
      /\ \A j \in 1 .. Len(one) : xp[j] = one[j]
      /\ \A j \in Len(one) + 1 .. Len(one) + Len(p) : xp[j] = p[j - Len(one)]
  BY <1>1, <1>2, Joined
<1> HIDE DEF xp
<1>4. Len(xp) = Len(p) + 1 /\ xp[1] = x
  BY <1>1, <1>2, <1>3
<1>5. ASSUME NEW i \in 1 .. Len(p)
      PROVE  xp[i + 1] = p[i]
  <2>1. i + 1 \in Len(one) + 1 .. Len(one) + Len(p) /\ i + 1 - Len(one) = i
    BY <1>1, <1>2
  <2> QED
    BY <1>3, <2>1
<1>6. Tail(xp) = p
  <2>1. /\ Tail(xp) \in Seq(S) /\ Len(Tail(xp)) = Len(xp) - 1
        /\ \A i \in 1 .. Len(Tail(xp)) : Tail(xp)[i] = xp[i + 1]
    <3>1. xp # <<>>
      BY <1>1, <1>4
    <3> QED
      BY <1>3, <3>1, HeadTailProperties
  <2> DEFINE t == Tail(xp)
  <2> HIDE DEF t
  <2>2. t \in Seq(S) /\ Len(t) = Len(p) /\ \A i \in 1 .. Len(t) : t[i] = p[i]
    BY <1>1, <1>4, <1>5, <2>1 DEF t
  <2>3. t = p
    BY <1>1, <2>2, SeqEqual
  <2> QED
    BY <2>3 DEF t
<1>7. xp \in Paths
  BY <1>3 DEF S, Paths
<1> QED
  BY <1>4, <1>5, <1>6, <1>7 DEF xp, one

\* Paths one split further down part one step later, or at that split.
LEMMA ConsParts ==
  ASSUME NEW p \in Paths, NEW q \in Paths, NEW x \in {"a", "b"}
  PROVE  /\ \A i : PartAt(p, q, i) => i \in Nat /\ PartAt(<<x>> \o p, <<x>> \o q, i + 1)
         /\ \A y \in {"a", "b"} \ {x} : PartAt(<<x>> \o p, <<y>> \o q, 1)
<1>1. ASSUME NEW i, PartAt(p, q, i)
      PROVE  i \in Nat /\ PartAt(<<x>> \o p, <<x>> \o q, i + 1)
  <2> DEFINE P == <<x>> \o p
             Q == <<x>> \o q
  <2>1. /\ P \in Paths /\ Len(P) = Len(p) + 1 /\ P[1] = x
        /\ Q \in Paths /\ Len(Q) = Len(q) + 1 /\ Q[1] = x
        /\ \A j \in 1 .. Len(p) : P[j + 1] = p[j]
        /\ \A j \in 1 .. Len(q) : Q[j + 1] = q[j]
    BY ConsFacts
  <2> HIDE DEF P, Q
  <2>2. /\ i \in 1 .. Len(p) /\ i \in 1 .. Len(q) /\ p[i] # q[i]
        /\ \A j \in 1 .. i - 1 : p[j] = q[j]
        /\ Len(p) \in Nat /\ Len(q) \in Nat
    BY <1>1, PartFacts, PathFacts
  <2> DEFINE k == i + 1
  <2>3. k \in 1 .. Len(P) /\ k \in 1 .. Len(Q) /\ P[k] # Q[k]
    BY <2>1, <2>2
  <2>4. ASSUME NEW j \in 1 .. k - 1
        PROVE  P[j] = Q[j]
    <3>1. CASE j = 1
      BY <2>1, <3>1
    <3>2. CASE j # 1
      <4> DEFINE l == j - 1
      <4>1. l \in 1 .. i - 1 /\ l \in 1 .. Len(p) /\ l \in 1 .. Len(q) /\ j = l + 1
        BY <2>2, <3>2
      <4> HIDE DEF l
      <4> QED
        BY <2>1, <2>2, <4>1
    <3> QED
      BY <3>1, <3>2
  <2> HIDE DEF k
  <2>5. PartAt(P, Q, k)
    BY <2>1, <2>3, <2>4, PartFacts
  <2> QED
    BY <2>2, <2>5 DEF P, Q, k
<1>2. ASSUME NEW y \in {"a", "b"} \ {x}
      PROVE  PartAt(<<x>> \o p, <<y>> \o q, 1)
  <2> DEFINE P == <<x>> \o p
             Q == <<y>> \o q
  <2>1. /\ P \in Paths /\ Len(P) = Len(p) + 1 /\ P[1] = x
        /\ Q \in Paths /\ Len(Q) = Len(q) + 1 /\ Q[1] = y
        /\ Len(p) \in Nat /\ Len(q) \in Nat
    BY ConsFacts, PathFacts
  <2> HIDE DEF P, Q
  <2>2. PartAt(P, Q, 1)
    BY <2>1, PartFacts
  <2> QED
    BY <2>2 DEF P, Q
<1> QED
  BY <1>1, <1>2

\* A tree made of two.
LEMMA JoinTree ==
  ASSUME NEW left, IsTree(left), NEW leaf
  PROVE  /\ IsTree(Join(left, Alone(leaf)))
         /\ LeafSet(Join(left, Alone(leaf))) = LeafSet(left) \cup {leaf}
         /\ Cardinality(DOMAIN Join(left, Alone(leaf))) <= Cardinality(DOMAIN left) + 1
         /\ OneEach(left) /\ leaf.id \notin LeafIds(left) => OneEach(Join(left, Alone(leaf)))
<1> DEFINE D == DOMAIN left
           A(q) == <<"a">> \o q
           b == <<"b">> \o <<>>
           E == {A(q) : q \in D} \cup {b}
           root == Join(left, Alone(leaf))
<1>1. /\ D \subseteq Paths /\ D # {} /\ IsFiniteSet(D) /\ Cardinality(D) \in Nat /\ <<>> \in Paths
      /\ Len(<<>>) = 0
  <2>1. <<>> \in Paths /\ Len(<<>>) = 0
    BY DEF Paths
  <2>2. D # {}
    BY DEF IsTree
  <2> QED
    BY <2>1, <2>2, TreeFacts
<1>2. /\ \A q \in Paths : A(q) \in Paths /\ Len(A(q)) = Len(q) + 1 /\ A(q)[1] = "a"
                          /\ Tail(A(q)) = q
      /\ b \in Paths /\ Len(b) = 1 /\ b[1] = "b" /\ Tail(b) = <<>>
  <2>1. "a" \in {"a", "b"} /\ "b" \in {"a", "b"}
    OBVIOUS
  <2>2. \A q \in Paths : A(q) \in Paths /\ Len(A(q)) = Len(q) + 1 /\ A(q)[1] = "a"
                         /\ Tail(A(q)) = q
    BY <2>1, ConsFacts
  <2>3. b \in Paths /\ Len(b) = Len(<<>>) + 1 /\ b[1] = "b" /\ Tail(b) = <<>>
    BY <1>1, <2>1, ConsFacts
  <2> QED
    BY <1>1, <2>2, <2>3
<1>3. /\ \A p, q \in Paths : \A i : PartAt(p, q, i) => i \in Nat /\ PartAt(A(p), A(q), i + 1)
      /\ \A p \in Paths : PartAt(A(p), b, 1)
  BY <1>1, ConsParts
<1>4. DOMAIN root = E
  <2>1. DOMAIN Alone(leaf) = {<<>>}
    BY DEF Alone
  <2> QED
    BY <2>1 DEF Join
<1>5. (\A q \in D : root[A(q)] = left[q]) /\ root[b] = leaf
  <2>1. Alone(leaf)[<<>>] = leaf /\ DOMAIN Alone(leaf) = {<<>>}
    BY DEF Alone
  <2>2. root = [p \in E |-> IF p[1] = "a" THEN left[Tail(p)] ELSE Alone(leaf)[Tail(p)]]
    BY <2>1 DEF Join
  <2> HIDE DEF A, b, root
  <2> QED
    BY <1>1, <1>2, <2>1, <2>2
<1> HIDE DEF A, b, root
<1>6. E \subseteq Paths /\ E # {}
  BY <1>1, <1>2
<1>7. IsFiniteSet(E) /\ Cardinality(E) <= Cardinality(D) + 1
  <2> DEFINE F == {A(q) : q \in D}
             down == [q \in D |-> A(q)]
  <2>1. down \in Surjection(D, F)
    BY DEF Surjection
  <2> HIDE DEF down, F
  <2>2. IsFiniteSet(F) /\ Cardinality(F) <= Cardinality(D) /\ Cardinality(F) \in Nat
    BY <1>1, <2>1, FS_Surjection, FS_CardinalityType
  <2>3. IsFiniteSet(F \cup {b}) /\ Cardinality(F \cup {b}) \in {Cardinality(F), Cardinality(F) + 1}
    BY <2>2, FS_AddElement
  <2>4. E = F \cup {b}
    BY DEF F
  <2> HIDE DEF E
  <2> QED
    BY <1>1, <2>2, <2>3, <2>4
<1>8. \A p, q \in E : p # q => \E i : PartAt(p, q, i)
  <2> SUFFICES ASSUME NEW p \in E, NEW q \in E, p # q PROVE \E i : PartAt(p, q, i)
    OBVIOUS
  <2>1. CASE p = b /\ q # b
    BY <1>1, <1>3, <2>1, PartSym
  <2>2. CASE p # b /\ q = b
    BY <1>1, <1>3, <2>2
  <2>3. CASE p # b /\ q # b
    <3>1. PICK p0 \in D : p = A(p0)
      BY <2>3
    <3>2. PICK q0 \in D : q = A(q0)
      BY <2>3
    <3>3. PICK i : PartAt(p0, q0, i)
      BY <3>1, <3>2 DEF IsTree
    <3> QED
      BY <1>1, <1>3, <3>1, <3>2, <3>3
  <2> QED
    BY <2>1, <2>2, <2>3
<1>9. \A p \in E : \A i \in 1 .. Len(p) : \E q \in E : PartAt(p, q, i)
  <2> SUFFICES ASSUME NEW p \in E, NEW i \in 1 .. Len(p) PROVE \E q \in E : PartAt(p, q, i)
    OBVIOUS
  <2>1. CASE p = b
    <3>1. i = 1
      <4>1. Len(p) = 1
        BY <1>2, <2>1
      <4> QED
        BY <4>1
    <3> QED
      BY <1>1, <1>3, <2>1, <3>1, PartSym
  <2>2. CASE p # b
    <3>1. PICK p0 \in D : p = A(p0)
      BY <2>2
    <3>2. CASE i = 1
      BY <1>1, <1>3, <3>1, <3>2
    <3>3. CASE i # 1
      <4> DEFINE k == i - 1
      <4>1. k \in 1 .. Len(p0) /\ i = k + 1
        BY <1>1, <1>2, <3>1, <3>3, PathFacts
      <4> HIDE DEF k
      <4>2. k \in DOMAIN p0
        BY <1>1, <4>1, PathFacts
      <4>3. PICK q0 \in D : PartAt(p0, q0, k)
        BY <4>2 DEF IsTree
      <4> QED
        BY <1>1, <1>3, <3>1, <4>1, <4>3
    <3> QED
      BY <3>2, <3>3
  <2> QED
    BY <2>1, <2>2
<1>10. LeafSet(root) = LeafSet(left) \cup {leaf}
  BY <1>4, <1>5 DEF LeafSet
<1>11. ASSUME OneEach(left), leaf.id \notin LeafIds(left)
       PROVE  OneEach(root)
  BY <1>4, <1>5, <1>11 DEF OneEach, LeafIds
<1> HIDE DEF E
<1>12. IsTree(root)
  <2>1. \A p, q \in E : p # q => \E i \in DOMAIN p : PartAt(p, q, i)
    BY <1>8 DEF PartAt
  <2>2. \A p \in E : \A i \in DOMAIN p : \E q \in E : PartAt(p, q, i)
    BY <1>6, <1>9, PathFacts
  <2> QED
    BY <1>4, <1>6, <1>7, <2>1, <2>2 DEF IsTree
<1> QED
  BY <1>4, <1>7, <1>10, <1>11, <1>12 DEF root

-----------------------------------------------------------------------------
\* Each preset is the tree that some splits of a blank pane give.
LEMMA ShapeIsTree ==
  ASSUME NEW root, IsTree(root), NEW other, DOMAIN other = DOMAIN root
  PROVE  IsTree(other)
  BY DEF IsTree

\* Three or four things are at most that many.
LEMMA AtMostFour ==
  ASSUME NEW a, NEW b, NEW c, NEW d
  PROVE  Cardinality({a, b, c}) <= 3 /\ Cardinality({a, b, c, d}) <= 4
<1>1. IsFiniteSet({a}) /\ Cardinality({a}) = 1
  BY FS_Singleton
<1> DEFINE two == {a} \cup {b}
           three == two \cup {c}
           four == three \cup {d}
<1>2. IsFiniteSet(two) /\ Cardinality(two) \in {1, 2}
  BY <1>1, FS_AddElement
<1> HIDE DEF two
<1>3. IsFiniteSet(three) /\ Cardinality(three) \in {1, 2, 3}
  BY <1>2, FS_AddElement
<1> HIDE DEF three
<1>4. Cardinality(four) \in {1, 2, 3, 4}
  BY <1>3, FS_AddElement
<1>5. three = {a, b, c} /\ four = {a, b, c, d}
  BY DEF three, two
<1> QED
  BY <1>3, <1>4, <1>5

\* The paths of the presets.
LEMMA ShortPaths ==
  /\ <<"a">> # <<"b">>
  /\ \A x, y, z \in {"a", "b"} : Append(<<x>>, y) = <<x, y>> /\ <<x>> # <<y, z>>
<1> SUFFICES ASSUME NEW x \in {"a", "b"}, NEW y \in {"a", "b"}, NEW z \in {"a", "b"}
             PROVE  <<"a">> # <<"b">> /\ Append(<<x>>, y) = <<x, y>> /\ <<x>> # <<y, z>>
  OBVIOUS
<1>1. <<"a">> # <<"b">>
  OBVIOUS
<1>2. <<x>> # <<y, z>>
  <2>1. Len(<<x>>) = 1 /\ Len(<<y, z>>) = 2
    OBVIOUS
  <2> QED
    BY <2>1
<1>3. Append(<<x>>, y) = <<x, y>>
  <2> DEFINE s == Append(<<x>>, y)
             t == <<x, y>>
             S == {"a", "b"}
  <2>1. s \in Seq(S) /\ Len(s) = 2 /\ s[1] = x /\ s[2] = y
    OBVIOUS
  <2>2. t \in Seq(S) /\ Len(t) = 2 /\ t[1] = x /\ t[2] = y
    OBVIOUS
  <2> HIDE DEF s, t, S
  <2>3. \A i \in 1 .. 2 : s[i] = t[i]
    BY <2>1, <2>2
  <2>4. s = t
    BY <2>1, <2>2, <2>3, SeqEqual
  <2> QED
    BY <2>4 DEF s, t
<1> QED
  BY <1>1, <1>2, <1>3

\* Each preset is a tree with at most four panes.
LEMMA PresetTrees ==
  ASSUME NEW preset \in DOMAIN PresetPaths, NEW root, DOMAIN root = Range(PresetPaths[preset])
  PROVE  /\ IsTree(root)
         /\ Len(PresetPaths[preset]) \in 1 .. 4
         /\ DOMAIN PresetPaths[preset] = 1 .. Len(PresetPaths[preset])
         /\ \A k, l \in DOMAIN PresetPaths[preset] :
              PresetPaths[preset][k] = PresetPaths[preset][l] => k = l
         /\ Cardinality(Range(PresetPaths[preset])) <= Len(PresetPaths[preset])
<1> DEFINE one == Alone(0)
           two == SplitAt(one, <<>>, 0)
           three == SplitAt(two, <<"b">>, 0)
           four == SplitAt(three, <<"a">>, 0)
<1>1. IsTree(one) /\ DOMAIN one = {<<>>}
  BY AloneTree DEF Alone
<1>2. IsTree(two) /\ DOMAIN two = {<<"a">>, <<"b">>}
  <2>1. Append(<<>>, "a") = <<"a">> /\ Append(<<>>, "b") = <<"b">>
    OBVIOUS
  <2> HIDE DEF one
  <2>2. IsTree(two)
    BY <1>1, SplitTree
  <2>3. DOMAIN two = (DOMAIN one \ {<<>>}) \cup {Append(<<>>, "a"), Append(<<>>, "b")}
    BY DEF SplitAt
  <2> QED
    BY <1>1, <2>1, <2>2, <2>3
<1> HIDE DEF two
<1>3. IsTree(three) /\ DOMAIN three = {<<"a">>, <<"b", "a">>, <<"b", "b">>}
  <2>1. /\ Append(<<"b">>, "a") = <<"b", "a">> /\ Append(<<"b">>, "b") = <<"b", "b">>
        /\ <<"a">> # <<"b">>
    BY ShortPaths
  <2>2. IsTree(three)
    BY <1>2, SplitTree
  <2>3. DOMAIN three = (DOMAIN two \ {<<"b">>}) \cup {Append(<<"b">>, "a"), Append(<<"b">>, "b")}
    BY DEF SplitAt
  <2> HIDE DEF three
  <2>4. DOMAIN three = ({<<"a">>, <<"b">>} \ {<<"b">>}) \cup {<<"b", "a">>, <<"b", "b">>}
    BY <1>2, <2>1, <2>3
  <2>5. ({<<"a">>, <<"b">>} \ {<<"b">>}) = {<<"a">>}
    BY <2>1
  <2> QED
    BY <2>2, <2>4, <2>5
<1> HIDE DEF three
<1>4. IsTree(four) /\ DOMAIN four = {<<"b", "a">>, <<"b", "b">>, <<"a", "a">>, <<"a", "b">>}
  <2>1. /\ Append(<<"a">>, "a") = <<"a", "a">> /\ Append(<<"a">>, "b") = <<"a", "b">>
        /\ <<"a">> # <<"b", "a">> /\ <<"a">> # <<"b", "b">>
    BY ShortPaths
  <2>2. IsTree(four)
    BY <1>3, SplitTree
  <2>3. DOMAIN four = (DOMAIN three \ {<<"a">>}) \cup {Append(<<"a">>, "a"), Append(<<"a">>, "b")}
    BY DEF SplitAt
  <2> HIDE DEF four
  <2>4. DOMAIN four = ({<<"a">>, <<"b", "a">>, <<"b", "b">>} \ {<<"a">>})
                        \cup {<<"a", "a">>, <<"a", "b">>}
    BY <1>3, <2>1, <2>3
  <2>5. ({<<"a">>, <<"b", "a">>, <<"b", "b">>} \ {<<"a">>}) = {<<"b", "a">>, <<"b", "b">>}
    BY <2>1
  <2> QED
    BY <2>2, <2>4, <2>5
<1> HIDE DEF four, one
<1> DEFINE paths == PresetPaths[preset]
<1>5. CASE preset = "single"
  <2>1. paths = <<<<>>>>
    BY <1>5 DEF PresetPaths
  <2> HIDE DEF paths
  <2>2. Range(paths) = {<<>>} /\ Len(paths) = 1 /\ DOMAIN paths = 1 .. Len(paths)
    BY <2>1 DEF Range
  <2>3. Cardinality({<<>>}) = 1
    BY FS_Singleton
  <2>4. IsTree(root)
    <3>1. DOMAIN root = DOMAIN one
      BY <1>1, <2>2 DEF paths
    <3> QED
      BY <1>1, <3>1, ShapeIsTree
  <2>5. \A k, l \in DOMAIN paths : k = l
    BY <2>2
  <2> QED
    BY <2>2, <2>3, <2>4, <2>5 DEF paths
<1>6. CASE preset \in {"columns", "rows"}
  <2> DEFINE a == <<"a">>
             c == <<"b", "a">>
             d == <<"b", "b">>
  <2>0. a # c /\ a # d /\ c # d
    OBVIOUS
  <2>1. paths = <<a, c, d>>
    BY <1>6 DEF PresetPaths
  <2> HIDE DEF paths, a, c, d
  <2>2. Range(paths) = {a, c, d} /\ Len(paths) = 3 /\ DOMAIN paths = 1 .. Len(paths)
    BY <2>1 DEF Range
  <2>3. \A k, l \in DOMAIN paths : paths[k] = paths[l] => k = l
    BY <2>0, <2>1
  <2>4. Cardinality({a, c, d}) <= 3
    BY AtMostFour
  <2>5. Range(paths) = DOMAIN three
    BY <1>3, <2>2 DEF a, c, d
  <2>6. IsTree(root)
    BY <1>3, <2>5, ShapeIsTree DEF paths
  <2> QED
    BY <2>2, <2>3, <2>4, <2>6 DEF paths
<1>7. CASE preset = "grid"
  <2> DEFINE a == <<"a", "a">>
             b == <<"a", "b">>
             c == <<"b", "a">>
             d == <<"b", "b">>
  <2>0. a # b /\ a # c /\ a # d /\ b # c /\ b # d /\ c # d
    OBVIOUS
  <2>1. paths = <<a, b, c, d>>
    BY <1>7 DEF PresetPaths
  <2> HIDE DEF paths, a, b, c, d
  <2>2. Range(paths) = {a, b, c, d} /\ Len(paths) = 4 /\ DOMAIN paths = 1 .. Len(paths)
    BY <2>1 DEF Range
  <2>3. \A k, l \in DOMAIN paths : paths[k] = paths[l] => k = l
    BY <2>0, <2>1
  <2>4. Cardinality({a, b, c, d}) <= 4
    BY AtMostFour
  <2>5. Range(paths) = DOMAIN four
    BY <1>4, <2>2 DEF a, b, c, d
  <2>6. IsTree(root)
    BY <1>4, <2>5, ShapeIsTree DEF paths
  <2> QED
    BY <2>2, <2>3, <2>4, <2>6 DEF paths
<1>8. preset \in {"single", "columns", "rows", "grid"}
  BY DEF PresetPaths
<1> QED
  BY <1>5, <1>6, <1>7, <1>8

-----------------------------------------------------------------------------
\* uid() gives values nothing refers to, another one each time.
LEMMA UidFacts ==
  ASSUME NEW k \in Nat, HasFresh(k)
  PROVE  /\ \A n \in 1 .. k : Uid(n) \in Uids /\ Uid(n) \notin UidsInUse
         /\ \A m, n \in 1 .. k : Uid(m) = Uid(n) => m = n
<1> DEFINE S == Fresh
           R == {uv \in S \X S : uv[1] < uv[2]}
           rank(u) == Cardinality({v \in S : v < u})
<1>1. S \subseteq 1 .. MaxUid /\ IsFiniteSet(S) /\ Cardinality(S) \in Nat /\ Cardinality(S) >= k
  <2>1. S \in SUBSET (1 .. MaxUid)
    BY DEF Fresh, Uids
  <2>2. IsFiniteSet(1 .. MaxUid)
    BY WorkspaceBounds, FS_Interval
  <2>3. IsFiniteSet(S)
    BY <2>1, <2>2, FS_Subset
  <2> QED
    BY <2>1, <2>3, FS_CardinalityType DEF HasFresh
<1>2. \A u, v \in S : <<u, v>> \in R <=> u < v
  OBVIOUS
<1>3. \A u \in S : Before(S, R, u) = {v \in S : v < u}
  BY <1>2 DEF Before
<1> HIDE DEF R, S
<1>4. Orders(S, R)
  <2>1. \A u \in S : u \in Nat
    BY <1>1
  <2>2. \A u \in S : ~(u < u)
    BY <2>1
  <2>3. \A u, v, w \in S : u < v /\ v < w => u < w
    BY <2>1
  <2>4. \A u, v \in S : u # v => u < v \/ v < u
    BY <2>1
  <2> QED
    BY <1>2, <2>2, <2>3, <2>4, Zenon DEF Orders
<1>5. \A n \in 0 .. Cardinality(S) - 1 : \E u \in S : Cardinality(Before(S, R, u)) = n
  <2>1. IsFiniteSet(S)
    BY <1>1
  <2> QED
    BY <1>4, <2>1, RankTells
<1>6. ASSUME NEW n \in 1 .. k
      PROVE  Uid(n) \in S /\ rank(Uid(n)) = n - 1
  <2>1. n - 1 \in 0 .. Cardinality(S) - 1
    BY <1>1
  <2>2. \E u \in S : Cardinality({v \in S : v < u}) = n - 1
    BY <1>3, <1>5, <2>1
  <2> QED
    BY <2>2 DEF Uid, S
<1> HIDE DEF rank
<1>7. \A m, n \in 1 .. k : Uid(m) = Uid(n) => m = n
  BY <1>6
<1>8. \A n \in 1 .. k : Uid(n) \in Uids /\ Uid(n) \notin UidsInUse
  BY <1>6 DEF S, Fresh
<1> QED
  BY <1>7, <1>8

-----------------------------------------------------------------------------
(***************************************************************************)
(* Trees whose leaves have their types, one uid each, and what the         *)
(* operations of the store make of them.                                   *)
(***************************************************************************)
Roots == UNION {[P -> Leaves] : P \in SUBSET Paths}
GoodRoot(root) == root \in Roots /\ IsTree(root) /\ OneEach(root)

\* What it takes to be a root: paths, and leaves of their type.
LEMMA RootType ==
  ASSUME NEW root
  PROVE  root \in Roots <=> /\ DOMAIN root \subseteq Paths
                            /\ root = [p \in DOMAIN root |-> root[p]]
                            /\ LeafSet(root) \subseteq Leaves
<1>1. ASSUME root \in Roots
      PROVE  /\ DOMAIN root \subseteq Paths
             /\ root = [p \in DOMAIN root |-> root[p]]
             /\ LeafSet(root) \subseteq Leaves
  <2>1. PICK P \in SUBSET Paths : root \in [P -> Leaves]
    BY <1>1 DEF Roots
  <2> QED
    BY <2>1 DEF LeafSet
<1>2. ASSUME DOMAIN root \subseteq Paths, root = [p \in DOMAIN root |-> root[p]],
             LeafSet(root) \subseteq Leaves
      PROVE  root \in Roots
  <2>1. root \in [DOMAIN root -> Leaves]
    BY <1>2 DEF LeafSet
  <2> QED
    BY <1>2, <2>1 DEF Roots
<1> QED
  BY <1>1, <1>2

\* The uids of a tree are those of its leaves.
LEMMA IdsOfLeaves ==
  ASSUME NEW root
  PROVE  LeafIds(root) = {leaf.id : leaf \in LeafSet(root)}
  BY DEF LeafIds, LeafSet

\* A leaf of a uid and a session.
LEMMA LeafType ==
  ASSUME NEW id \in Uids, NEW session \in Sessions \cup {NoSession}
  PROVE  Leaf(id, session) \in Leaves /\ Leaf(id, session).id = id
         /\ Leaf(id, session).session = session
  BY DEF Leaf, Leaves

\* What a good root gives: its leaves and uids, and the path of each uid.
LEMMA GoodFacts ==
  ASSUME NEW root, GoodRoot(root)
  PROVE  /\ LeafSet(root) \subseteq Leaves /\ LeafSet(root) # {} /\ LeafIds(root) # {}
         /\ LeafIds(root) \subseteq Uids
         /\ \A p \in DOMAIN root : root[p] \in Leaves
         /\ \A k, l \in LeafSet(root) : k.id = l.id => k = l
         /\ \A id \in LeafIds(root) : /\ PathOf(root, id) \in DOMAIN root
                                      /\ root[PathOf(root, id)].id = id
<1>1. LeafSet(root) \subseteq Leaves
  BY RootType DEF GoodRoot
<1>2. DOMAIN root # {}
  BY DEF GoodRoot, IsTree
<1>3. \A p \in DOMAIN root : root[p] \in LeafSet(root) /\ root[p].id \in LeafIds(root)
  BY DEF LeafSet, LeafIds
<1>4. \A k, l \in LeafSet(root) : k.id = l.id => k = l
  BY DEF GoodRoot, OneEach, LeafSet
<1>5. LeafIds(root) \subseteq Uids
  BY <1>1, IdsOfLeaves DEF Leaves
<1>6. ASSUME NEW id \in LeafIds(root)
      PROVE  PathOf(root, id) \in DOMAIN root /\ root[PathOf(root, id)].id = id
  <2>1. \E p \in DOMAIN root : root[p].id = id
    BY DEF LeafIds
  <2> QED
    BY <2>1 DEF PathOf
<1> QED
  BY <1>1, <1>2, <1>3, <1>4, <1>5, <1>6

\* A pane alone is a good root.
LEMMA GoodAlone ==
  ASSUME NEW leaf \in Leaves
  PROVE  /\ GoodRoot(Alone(leaf)) /\ LeafSet(Alone(leaf)) = {leaf}
         /\ LeafIds(Alone(leaf)) = {leaf.id} /\ Cardinality(DOMAIN Alone(leaf)) = 1
<1>1. /\ IsTree(Alone(leaf)) /\ OneEach(Alone(leaf)) /\ LeafSet(Alone(leaf)) = {leaf}
      /\ Cardinality(DOMAIN Alone(leaf)) = 1
  BY AloneTree
<1>2. Alone(leaf) = [p \in DOMAIN Alone(leaf) |-> Alone(leaf)[p]]
  BY DEF Alone
<1>3. Alone(leaf) \in Roots
  BY <1>1, <1>2, RootType, TreeFacts
<1> QED
  BY <1>1, <1>3, IdsOfLeaves DEF GoodRoot

\* A leaf under a new uid may be split in.
LEMMA GoodSplit ==
  ASSUME NEW root, GoodRoot(root), NEW p \in DOMAIN root, NEW leaf \in Leaves,
         leaf.id \notin LeafIds(root)
  PROVE  /\ GoodRoot(SplitAt(root, p, leaf))
         /\ LeafSet(SplitAt(root, p, leaf)) = LeafSet(root) \cup {leaf}
         /\ Cardinality(DOMAIN SplitAt(root, p, leaf)) <= Cardinality(DOMAIN root) + 1
<1>1. /\ IsTree(SplitAt(root, p, leaf)) /\ OneEach(SplitAt(root, p, leaf))
      /\ LeafSet(SplitAt(root, p, leaf)) = LeafSet(root) \cup {leaf}
      /\ Cardinality(DOMAIN SplitAt(root, p, leaf)) <= Cardinality(DOMAIN root) + 1
  BY SplitTree DEF GoodRoot
<1> DEFINE new == SplitAt(root, p, leaf)
<1>2. new = [q \in DOMAIN new |-> new[q]]
  BY DEF SplitAt
<1> HIDE DEF new
<1>3. LeafSet(new) \subseteq Leaves /\ DOMAIN new \subseteq Paths
  BY <1>1, GoodFacts, TreeFacts DEF new
<1>4. new \in Roots
  BY <1>2, <1>3, RootType
<1> QED
  BY <1>1, <1>4 DEF GoodRoot, new

\* A leaf under a new uid may be put beside a tree.
LEMMA GoodJoin ==
  ASSUME NEW root, GoodRoot(root), NEW leaf \in Leaves, leaf.id \notin LeafIds(root)
  PROVE  /\ GoodRoot(Join(root, Alone(leaf)))
         /\ LeafSet(Join(root, Alone(leaf))) = LeafSet(root) \cup {leaf}
         /\ Cardinality(DOMAIN Join(root, Alone(leaf))) <= Cardinality(DOMAIN root) + 1
<1>1. /\ IsTree(Join(root, Alone(leaf))) /\ OneEach(Join(root, Alone(leaf)))
      /\ LeafSet(Join(root, Alone(leaf))) = LeafSet(root) \cup {leaf}
      /\ Cardinality(DOMAIN Join(root, Alone(leaf))) <= Cardinality(DOMAIN root) + 1
  BY JoinTree DEF GoodRoot
<1> DEFINE new == Join(root, Alone(leaf))
<1>2. new = [q \in DOMAIN new |-> new[q]]
  BY DEF Join
<1> HIDE DEF new
<1>3. LeafSet(new) \subseteq Leaves /\ DOMAIN new \subseteq Paths
  BY <1>1, GoodFacts, TreeFacts DEF new
<1>4. new \in Roots
  BY <1>2, <1>3, RootType
<1> QED
  BY <1>1, <1>4 DEF GoodRoot, new

\* A leaf may be removed, unless it is the last.
LEMMA GoodRemove ==
  ASSUME NEW root, GoodRoot(root), NEW p \in DOMAIN root, Cardinality(DOMAIN root) # 1
  PROVE  /\ GoodRoot(removeLeaf(root, p))
         /\ LeafSet(removeLeaf(root, p)) = LeafSet(root) \ {root[p]}
         /\ LeafIds(removeLeaf(root, p)) = LeafIds(root) \ {root[p].id}
         /\ Cardinality(DOMAIN removeLeaf(root, p)) <= Cardinality(DOMAIN root)
<1>1. /\ IsTree(removeLeaf(root, p)) /\ OneEach(removeLeaf(root, p))
      /\ LeafSet(removeLeaf(root, p)) = {root[r] : r \in DOMAIN root \ {p}}
      /\ Cardinality(DOMAIN removeLeaf(root, p)) <= Cardinality(DOMAIN root)
  BY RemoveTree DEF GoodRoot
<1> DEFINE new == removeLeaf(root, p)
<1>2. new = [q \in DOMAIN new |-> new[q]]
  BY DEF removeLeaf
<1> HIDE DEF new
<1>3. \A r \in DOMAIN root : root[r].id = root[p].id => r = p
  BY DEF GoodRoot, OneEach
<1>4. LeafSet(new) = LeafSet(root) \ {root[p]}
  BY <1>1, <1>3 DEF new, LeafSet
<1>5. LeafIds(new) = LeafIds(root) \ {root[p].id}
  <2>1. \A leaf \in LeafSet(root) : leaf.id = root[p].id => leaf = root[p]
    BY <1>3 DEF LeafSet
  <2>2. root[p] \in LeafSet(root)
    BY DEF LeafSet
  <2> QED
    BY <1>4, <2>1, <2>2, IdsOfLeaves
<1>6. new \in Roots
  <2>1. LeafSet(new) \subseteq Leaves /\ DOMAIN new \subseteq Paths
    BY <1>1, <1>4, GoodFacts, TreeFacts DEF new
  <2> QED
    BY <1>2, <2>1, RootType
<1> QED
  BY <1>1, <1>4, <1>5, <1>6 DEF GoodRoot, new

\* A tree of the same shape and with the same uids.
LEMMA GoodSame ==
  ASSUME NEW root, GoodRoot(root), NEW new, DOMAIN new = DOMAIN root,
         new = [p \in DOMAIN new |-> new[p]],
         \A p \in DOMAIN root : new[p] \in Leaves /\ new[p].id = root[p].id
  PROVE  GoodRoot(new) /\ LeafIds(new) = LeafIds(root)
<1>1. IsTree(new)
  BY ShapeIsTree DEF GoodRoot
<1>2. OneEach(new)
  BY DEF GoodRoot, OneEach
<1>3. new \in Roots
  <2>1. LeafSet(new) \subseteq Leaves /\ DOMAIN new \subseteq Paths
    BY <1>1, TreeFacts DEF LeafSet
  <2> QED
    BY <2>1, RootType
<1>4. LeafIds(new) = LeafIds(root)
  BY DEF LeafIds
<1> QED
  BY <1>1, <1>2, <1>3, <1>4 DEF GoodRoot

\* A leaf may be given another session.
LEMMA GoodSet ==
  ASSUME NEW root, GoodRoot(root), NEW p \in DOMAIN root,
         NEW session \in Sessions \cup {NoSession}
  PROVE  LET new == [root EXCEPT ![p] = Leaf(root[p].id, session)]
         IN /\ GoodRoot(new) /\ LeafIds(new) = LeafIds(root) /\ DOMAIN new = DOMAIN root
            /\ LeafSet(new) = (LeafSet(root) \ {root[p]}) \cup {Leaf(root[p].id, session)}
<1> DEFINE leaf == Leaf(root[p].id, session)
           new == [root EXCEPT ![p] = leaf]
<1>1. leaf \in Leaves /\ leaf.id = root[p].id
  BY GoodFacts, LeafType DEF Leaves
<1> HIDE DEF leaf
<1>2. /\ DOMAIN new = DOMAIN root /\ new = [q \in DOMAIN new |-> new[q]]
      /\ new[p] = leaf /\ \A q \in DOMAIN root \ {p} : new[q] = root[q]
  OBVIOUS
<1> HIDE DEF new
<1>3. \A q \in DOMAIN root : new[q] \in Leaves /\ new[q].id = root[q].id
  BY <1>1, <1>2, GoodFacts
<1>4. GoodRoot(new) /\ LeafIds(new) = LeafIds(root)
  BY <1>2, <1>3, GoodSame
<1>5. LeafSet(new) = (LeafSet(root) \ {root[p]}) \cup {leaf}
  <2>1. \A q \in DOMAIN root : root[q] = root[p] => q = p
    BY DEF GoodRoot, OneEach
  <2> QED
    BY <1>2, <2>1 DEF LeafSet
<1> QED
  BY <1>2, <1>4, <1>5 DEF new, leaf

-----------------------------------------------------------------------------
\* Two leaves may exchange their sessions.
LEMMA GoodSwap ==
  ASSUME NEW root, GoodRoot(root), NEW p \in DOMAIN root, NEW q \in DOMAIN root, p # q
  PROVE  LET new == [root EXCEPT ![p].session = root[q].session,
                                 ![q].session = root[p].session]
         IN /\ GoodRoot(new) /\ LeafIds(new) = LeafIds(root) /\ DOMAIN new = DOMAIN root
            /\ LeafSet(new) = (LeafSet(root) \ {root[p], root[q]})
                 \cup {Leaf(root[p].id, root[q].session), Leaf(root[q].id, root[p].session)}
<1> DEFINE first == Leaf(root[p].id, root[q].session)
           second == Leaf(root[q].id, root[p].session)
           new == [root EXCEPT ![p].session = root[q].session,
                               ![q].session = root[p].session]
<1>1. root[p] \in Leaves /\ root[q] \in Leaves
  BY GoodFacts
<1>2. first \in Leaves /\ second \in Leaves /\ first.id = root[p].id /\ second.id = root[q].id
  BY <1>1, LeafType DEF Leaves
<1>3. /\ DOMAIN new = DOMAIN root /\ new = [r \in DOMAIN new |-> new[r]]
      /\ new[p] = first /\ new[q] = second
      /\ \A r \in DOMAIN root \ {p, q} : new[r] = root[r]
  <2>1. [root[p] EXCEPT !.session = root[q].session] = first
    BY <1>1 DEF Leaves, Leaf
  <2>2. [root[q] EXCEPT !.session = root[p].session] = second
    BY <1>1 DEF Leaves, Leaf
  <2> HIDE DEF first, second
  <2> QED
    BY <2>1, <2>2
<1> HIDE DEF first, second, new
<1>4. \A r \in DOMAIN root : new[r] \in Leaves /\ new[r].id = root[r].id
  BY <1>2, <1>3, GoodFacts
<1>5. GoodRoot(new) /\ LeafIds(new) = LeafIds(root)
  BY <1>3, <1>4, GoodSame
<1>6. LeafSet(new) = (LeafSet(root) \ {root[p], root[q]}) \cup {first, second}
  <2>1. \A r \in DOMAIN root : /\ root[r] = root[p] => r = p
                               /\ root[r] = root[q] => r = q
    BY DEF GoodRoot, OneEach
  <2> QED
    BY <1>3, <2>1 DEF LeafSet
<1> QED
  BY <1>3, <1>5, <1>6 DEF new, first, second

\* leavesOf lists the leaves of a tree one by one.
LEMMA ListFacts ==
  ASSUME NEW root, GoodRoot(root)
  PROVE  /\ leavesOf(root) \in Seq(Leaves) /\ Len(leavesOf(root)) \in Nat \ {0}
         /\ DOMAIN leavesOf(root) = 1 .. Len(leavesOf(root))
         /\ \A n \in DOMAIN leavesOf(root) : leavesOf(root)[n] \in LeafSet(root)
         /\ \A leaf \in LeafSet(root) : \E n \in DOMAIN leavesOf(root) : leavesOf(root)[n] = leaf
         /\ \A m, n \in DOMAIN leavesOf(root) :
              leavesOf(root)[m].id = leavesOf(root)[n].id => m = n
<1> DEFINE N == Cardinality(DOMAIN root)
           kept == leavesOf(root)
<1>1. PICK order \in [1 .. N -> DOMAIN root] :
         /\ kept = [i \in 1 .. N |-> root[order[i]]]
         /\ \A i, j \in 1 .. N : order[i] = order[j] => i = j
         /\ \A p \in DOMAIN root : \E i \in 1 .. N : order[i] = p
  BY LeavesListed DEF GoodRoot
<1>2. N \in Nat \ {0}
  BY TreeFacts DEF GoodRoot
<1>3. \A p \in DOMAIN root : root[p] \in Leaves /\ root[p] \in LeafSet(root)
  BY GoodFacts DEF LeafSet
<1>4. \A p, q \in DOMAIN root : root[p].id = root[q].id => p = q
  BY DEF GoodRoot, OneEach
<1> HIDE DEF N, kept
<1>5. kept \in [1 .. N -> Leaves]
  BY <1>1, <1>3
<1>6. kept \in Seq(Leaves) /\ DOMAIN kept = 1 .. N
  BY <1>2, <1>5, SeqDef
<1>7. Len(kept) = N
  BY <1>2, <1>6, LenProperties
<1>8. \A n \in 1 .. N : kept[n] \in LeafSet(root)
  BY <1>1, <1>3
<1>9. \A leaf \in LeafSet(root) : \E n \in 1 .. N : kept[n] = leaf
  BY <1>1 DEF LeafSet
<1>10. \A m, n \in 1 .. N : kept[m].id = kept[n].id => m = n
  BY <1>1, <1>4
<1> QED
  BY <1>2, <1>6, <1>7, <1>8, <1>9, <1>10 DEF kept

\* A preset keeps the first leaves and fills up with blank ones.
LEMMA GoodPreset ==
  ASSUME NEW root, GoodRoot(root), LeafIds(root) \subseteq UidsInUse,
         NEW preset \in DOMAIN PresetPaths, HasFresh(Len(PresetPaths[preset]))
  PROVE  LET new == PresetRoot(preset, root)
         IN /\ GoodRoot(new)
            /\ \A id \in LeafIds(new) : id \in LeafIds(root) \/ id \notin UidsInUse
            /\ \A leaf \in LeafSet(new) : leaf \in LeafSet(root) \/ leaf.session = NoSession
            /\ Cardinality(DOMAIN new) <= Len(PresetPaths[preset])
<1> DEFINE kept == leavesOf(root)
           paths == PresetPaths[preset]
           K == Len(paths)
           N == Len(kept)
           index(p) == CHOOSE k \in DOMAIN paths : paths[k] = p
           new == PresetRoot(preset, root)
           blank(k) == Leaf(Uid(k - N), NoSession)
<1>1. /\ N \in Nat /\ DOMAIN kept = 1 .. N
      /\ \A n \in 1 .. N : kept[n] \in LeafSet(root) /\ kept[n] \in Leaves
                           /\ kept[n].id \in LeafIds(root)
      /\ \A m, n \in 1 .. N : kept[m].id = kept[n].id => m = n
  BY ListFacts, GoodFacts, IdsOfLeaves
<1>2. /\ DOMAIN new = Range(paths) /\ new = [p \in DOMAIN new |-> new[p]]
      /\ \A p \in Range(paths) :
           new[p] = IF index(p) <= N THEN kept[index(p)] ELSE blank(index(p))
  BY DEF PresetRoot
<1>3. /\ IsTree(new) /\ K \in 1 .. 4 /\ DOMAIN paths = 1 .. K
      /\ Cardinality(Range(paths)) <= K
  BY <1>2, PresetTrees
<1>4. \A p \in Range(paths) : index(p) \in 1 .. K /\ paths[index(p)] = p
  BY <1>3 DEF Range
<1>5. /\ \A n \in 1 .. K : Uid(n) \in Uids /\ Uid(n) \notin UidsInUse
      /\ \A m, n \in 1 .. K : Uid(m) = Uid(n) => m = n
  BY <1>3, UidFacts
<1>6. \A k \in 1 .. K : ~(k <= N) =>
        /\ k - N \in 1 .. K /\ blank(k) \in Leaves /\ blank(k).id = Uid(k - N)
        /\ blank(k).session = NoSession
  <2> SUFFICES ASSUME NEW k \in 1 .. K, ~(k <= N)
               PROVE  /\ k - N \in 1 .. K /\ blank(k) \in Leaves /\ blank(k).id = Uid(k - N)
                      /\ blank(k).session = NoSession
    OBVIOUS
  <2>1. k - N \in 1 .. K
    BY <1>1, <1>3
  <2>2. Uid(k - N) \in Uids
    BY <1>5, <2>1
  <2> QED
    BY <2>1, <2>2, LeafType
<1> HIDE DEF new, paths, kept, index, K, N, blank
<1>7. \A p \in Range(paths) : new[p] \in Leaves
  BY <1>1, <1>2, <1>4, <1>6
<1>8. \A p \in Range(paths) :
        /\ index(p) <= N => new[p] \in LeafSet(root) /\ new[p].id \in LeafIds(root)
        /\ ~(index(p) <= N) => new[p].id \notin UidsInUse /\ new[p].session = NoSession
  BY <1>1, <1>2, <1>4, <1>5, <1>6
<1>9. ASSUME NEW p \in Range(paths), NEW q \in Range(paths), new[p].id = new[q].id
      PROVE  p = q
  <2>1. CASE index(p) <= N /\ index(q) <= N
    BY <1>1, <1>2, <1>3, <1>4, <1>9, <2>1
  <2>2. CASE ~(index(p) <= N) /\ ~(index(q) <= N)
    <3>1. Uid(index(p) - N) = Uid(index(q) - N)
      BY <1>2, <1>4, <1>6, <1>9, <2>2
    <3>2. index(p) - N = index(q) - N
      BY <1>4, <1>5, <1>6, <2>2, <3>1
    <3>3. index(p) = index(q)
      BY <1>1, <1>3, <1>4, <3>2
    <3> QED
      BY <1>4, <3>3
  <2>3. (index(p) <= N) <=> (index(q) <= N)
    BY <1>8, <1>9
  <2> QED
    BY <2>1, <2>2, <2>3
<1>10. OneEach(new)
  BY <1>2, <1>9 DEF OneEach
<1>11. new \in Roots
  <2>1. LeafSet(new) \subseteq Leaves /\ DOMAIN new \subseteq Paths
    BY <1>2, <1>3, <1>7, TreeFacts DEF LeafSet
  <2> QED
    BY <1>2, <2>1, RootType
<1>12. \A id \in LeafIds(new) : id \in LeafIds(root) \/ id \notin UidsInUse
  BY <1>2, <1>8 DEF LeafIds
<1>13. \A leaf \in LeafSet(new) : leaf \in LeafSet(root) \/ leaf.session = NoSession
  BY <1>2, <1>8 DEF LeafSet
<1> QED
  BY <1>2, <1>3, <1>10, <1>11, <1>12, <1>13 DEF GoodRoot, new, paths, K

\* A copy of a tree: the same sessions under uids of its own.
LEMMA GoodCopy ==
  ASSUME NEW root, GoodRoot(root), HasFresh(1 + Len(leavesOf(root)))
  PROVE  LET leaves == leavesOf(root)
             Nth(p) == CHOOSE n \in DOMAIN leaves : leaves[n] = root[p]
             new == [p \in DOMAIN root |-> [root[p] EXCEPT !.id = Uid(1 + Nth(p))]]
         IN /\ GoodRoot(new)
            /\ \A id \in LeafIds(new) : id \notin UidsInUse /\ id # Uid(1)
            /\ \A leaf \in LeafSet(new) : \E n \in DOMAIN leaves : leaf.session = leaves[n].session
            /\ DOMAIN new = DOMAIN root
<1> DEFINE leaves == leavesOf(root)
           N == Len(leaves)
           Nth(p) == CHOOSE n \in DOMAIN leaves : leaves[n] = root[p]
           copy(p) == [root[p] EXCEPT !.id = Uid(1 + Nth(p))]
           new == [p \in DOMAIN root |-> copy(p)]
<1>1. /\ N \in Nat /\ DOMAIN leaves = 1 .. N
      /\ \A leaf \in LeafSet(root) : \E n \in 1 .. N : leaves[n] = leaf
  BY ListFacts
<1>2. ASSUME NEW p \in DOMAIN root
      PROVE  Nth(p) \in 1 .. N /\ leaves[Nth(p)] = root[p]
  <2>1. root[p] \in LeafSet(root)
    BY DEF LeafSet
  <2>2. \E n \in DOMAIN leaves : leaves[n] = root[p]
    BY <1>1, <2>1
  <2> QED
    BY <1>1, <2>2
<1>3. /\ \A n \in 1 .. 1 + N : Uid(n) \in Uids /\ Uid(n) \notin UidsInUse
      /\ \A m, n \in 1 .. 1 + N : Uid(m) = Uid(n) => m = n
  <2>1. 1 + N \in Nat
    BY <1>1
  <2> QED
    BY <2>1, UidFacts
<1> HIDE DEF Nth, leaves, N
<1>4. ASSUME NEW p \in DOMAIN root
      PROVE  /\ copy(p) \in Leaves /\ copy(p).id = Uid(1 + Nth(p))
             /\ copy(p).session = leaves[Nth(p)].session
             /\ 1 + Nth(p) \in 1 .. 1 + N /\ 1 + Nth(p) # 1
  <2>1. 1 + Nth(p) \in 1 .. 1 + N /\ 1 + Nth(p) # 1
    BY <1>1, <1>2
  <2>2. root[p] \in Leaves
    BY GoodFacts
  <2> DEFINE u == Uid(1 + Nth(p))
  <2>3. u \in Uids
    BY <1>3, <2>1
  <2> HIDE DEF u
  <2>4. /\ [root[p] EXCEPT !.id = u] \in Leaves /\ [root[p] EXCEPT !.id = u].id = u
        /\ [root[p] EXCEPT !.id = u].session = root[p].session
    BY <2>2, <2>3 DEF Leaves
  <2> QED
    BY <1>2, <2>1, <2>4 DEF u
<1> HIDE DEF copy
<1>5. /\ DOMAIN new = DOMAIN root /\ new = [p \in DOMAIN new |-> new[p]]
      /\ \A p \in DOMAIN root : new[p] = copy(p)
  OBVIOUS
<1> HIDE DEF new
<1>6. ASSUME NEW p \in DOMAIN root, NEW q \in DOMAIN root, new[p].id = new[q].id
      PROVE  p = q
  <2>1. 1 + Nth(p) = 1 + Nth(q)
    BY <1>3, <1>4, <1>5, <1>6
  <2>2. Nth(p) = Nth(q)
    BY <1>2, <1>1, <2>1
  <2>3. root[p] = root[q]
    BY <1>2, <2>2
  <2> QED
    BY <2>3 DEF GoodRoot, OneEach
<1>7. OneEach(new)
  BY <1>5, <1>6 DEF OneEach
<1>8. IsTree(new)
  BY <1>5, ShapeIsTree DEF GoodRoot
<1>9. new \in Roots
  <2>1. LeafSet(new) \subseteq Leaves /\ DOMAIN new \subseteq Paths
    BY <1>4, <1>5, <1>8, TreeFacts DEF LeafSet
  <2> QED
    BY <1>5, <2>1, RootType
<1>10. \A id \in LeafIds(new) : id \notin UidsInUse /\ id # Uid(1)
  <2>1. 1 \in 1 .. 1 + N
    BY <1>1
  <2> QED
    BY <1>3, <1>4, <1>5, <2>1 DEF LeafIds
<1>11. \A leaf \in LeafSet(new) : \E n \in DOMAIN leaves : leaf.session = leaves[n].session
  BY <1>1, <1>2, <1>4, <1>5 DEF LeafSet
<1> QED
  BY <1>5, <1>7, <1>8, <1>9, <1>10, <1>11 DEF GoodRoot, new, copy, Nth, leaves

-----------------------------------------------------------------------------
(***************************************************************************)
(* Layouts: tabs with trees of their own, no uid twice.                    *)
(***************************************************************************)
IdsOf(tab) == {tab.id} \cup LeafIds(tab.root)
GoodTab(tab) ==
  /\ tab \in [id : Uids, root : Roots, focus : Uids] /\ GoodRoot(tab.root)
  /\ tab.id \notin LeafIds(tab.root) /\ tab.focus \in LeafIds(tab.root)
  /\ Cardinality(DOMAIN tab.root) <= MaxLeaves
Tabs == {tab \in [id : Uids, root : Roots, focus : Uids] : GoodTab(tab)}

LayoutOK(ts) ==
  /\ ts \in Seq(Tabs) /\ Len(ts) <= MaxTabs
  /\ \A i, j \in 1 .. Len(ts) : i # j => IdsOf(ts[i]) \cap IdsOf(ts[j]) = {}

LeavesIn(ts) == UNION {LeafSet(ts[i].root) : i \in 1 .. Len(ts)}
TabIdsIn(ts) == {ts[i].id : i \in 1 .. Len(ts)}
IdsIn(ts) == UNION {IdsOf(ts[i]) : i \in 1 .. Len(ts)}

\* What a layout gives for each of its tabs.
LEMMA LayoutFacts ==
  ASSUME NEW ts, LayoutOK(ts)
  PROVE  /\ Len(ts) \in Nat /\ DOMAIN ts = 1 .. Len(ts)
         /\ \A i \in 1 .. Len(ts) : ts[i] \in Tabs /\ GoodTab(ts[i])
         /\ \A i \in 1 .. Len(ts) : ts[i].id \in Uids /\ GoodRoot(ts[i].root)
         /\ ts = <<>> <=> Len(ts) = 0
<1>1. ts \in Seq(Tabs)
  BY DEF LayoutOK
<1>2. Len(ts) \in Nat /\ DOMAIN ts = 1 .. Len(ts) /\ \A i \in 1 .. Len(ts) : ts[i] \in Tabs
  BY <1>1, LenProperties, ElementOfSeq
<1>3. ts = <<>> <=> Len(ts) = 0
  BY <1>1, EmptySeq
<1> QED
  BY <1>2, <1>3 DEF Tabs, GoodTab

\* A leaf of a layout is in one tab only.
LEMMA LeavesFacts ==
  ASSUME NEW ts, LayoutOK(ts)
  PROVE  /\ LeavesIn(ts) \subseteq Leaves
         /\ \A k, l \in LeavesIn(ts) : k.id = l.id => k = l
         /\ \A leaf \in LeavesIn(ts) : \E i \in 1 .. Len(ts) :
              leaf \in LeafSet(ts[i].root) /\ leaf.id \in LeafIds(ts[i].root)
         /\ \A i \in 1 .. Len(ts) : \A leaf \in LeafSet(ts[i].root) :
              \A j \in 1 .. Len(ts) : leaf \in LeafSet(ts[j].root) => i = j
<1>1. \A i \in 1 .. Len(ts) : /\ LeafSet(ts[i].root) \subseteq Leaves
                              /\ \A k, l \in LeafSet(ts[i].root) : k.id = l.id => k = l
  BY LayoutFacts, GoodFacts
<1>2. \A i \in 1 .. Len(ts) : \A leaf \in LeafSet(ts[i].root) : leaf.id \in IdsOf(ts[i])
                                                       /\ leaf.id \in LeafIds(ts[i].root)
  BY IdsOfLeaves DEF IdsOf
<1>3. \A i, j \in 1 .. Len(ts) : \A id \in IdsOf(ts[i]) : id \in IdsOf(ts[j]) => i = j
  BY DEF LayoutOK
<1>4. \A leaf \in LeavesIn(ts) : \E i \in 1 .. Len(ts) : leaf \in LeafSet(ts[i].root)
  BY DEF LeavesIn
<1>5. ASSUME NEW k \in LeavesIn(ts), NEW l \in LeavesIn(ts), k.id = l.id
      PROVE  k = l
  <2>1. PICK i \in 1 .. Len(ts) : k \in LeafSet(ts[i].root)
    BY <1>4
  <2>2. PICK j \in 1 .. Len(ts) : l \in LeafSet(ts[j].root)
    BY <1>4
  <2>3. i = j
    BY <1>2, <1>3, <1>5, <2>1, <2>2
  <2> QED
    BY <1>1, <1>5, <2>1, <2>2, <2>3
<1>6. \A i, j \in 1 .. Len(ts) : \A leaf \in LeafSet(ts[i].root) :
        leaf \in LeafSet(ts[j].root) => i = j
  BY <1>2, <1>3
<1>7. LeavesIn(ts) \subseteq Leaves
  BY <1>1, <1>4
<1> QED
  BY <1>2, <1>4, <1>5, <1>6, <1>7

\* The uids of a page are those of its tabs and panes.
LEMMA IdsAre ==
  ASSUME LayoutOK(tabs)
  PROVE  /\ DOMAIN tabs = 1 .. Len(tabs) /\ Len(tabs) \in Nat
         /\ TabIds = TabIdsIn(tabs) /\ allLeaves = LeavesIn(tabs)
         /\ IdsIn(tabs) = TabIds \cup PaneIds /\ IdsIn(tabs) \subseteq UidsInUse
         /\ PaneIds = UNION {LeafIds(tabs[i].root) : i \in 1 .. Len(tabs)}
         /\ PaneIds \subseteq Uids /\ TabIds \subseteq Uids
<1>1. DOMAIN tabs = 1 .. Len(tabs) /\ Len(tabs) \in Nat
  BY LayoutFacts
<1>2. TabIds = TabIdsIn(tabs)
  BY <1>1 DEF TabIds, TabIdsIn
<1>3. allLeaves = LeavesIn(tabs)
  BY <1>1 DEF allLeaves, LeavesIn, LeafSet
<1>4. PaneIds = UNION {LeafIds(tabs[i].root) : i \in 1 .. Len(tabs)}
  BY <1>3, IdsOfLeaves DEF PaneIds, LeavesIn
<1>5. IdsIn(tabs) = TabIds \cup PaneIds
  BY <1>2, <1>4 DEF IdsIn, IdsOf, TabIdsIn
<1>6. IdsIn(tabs) \subseteq UidsInUse
  BY <1>5 DEF UidsInUse
<1>7. PaneIds \subseteq Uids /\ TabIds \subseteq Uids
  BY <1>2, <1>4, LayoutFacts, GoodFacts DEF TabIdsIn
<1> QED
  BY <1>1, <1>2, <1>3, <1>4, <1>5, <1>6, <1>7

\* The tab of a pane.
LEMMA TabOfPane ==
  ASSUME LayoutOK(tabs), NEW id \in PaneIds
  PROVE  LET i == tabForPane(id)
             p == PathOf(tabs[i].root, id)
         IN /\ i \in 1 .. Len(tabs) /\ id \in LeafIds(tabs[i].root)
            /\ p \in DOMAIN tabs[i].root /\ tabs[i].root[p].id = id
            /\ GoodTab(tabs[i]) /\ GoodRoot(tabs[i].root)
<1>1. \E i \in DOMAIN tabs : id \in LeafIds(tabs[i].root)
  BY IdsAre
<1>2. tabForPane(id) \in DOMAIN tabs /\ id \in LeafIds(tabs[tabForPane(id)].root)
  BY <1>1 DEF tabForPane
<1> DEFINE i == tabForPane(id)
<1> HIDE DEF i
<1>3. GoodTab(tabs[i]) /\ GoodRoot(tabs[i].root) /\ i \in 1 .. Len(tabs)
  BY <1>2, LayoutFacts DEF i
<1>4. /\ PathOf(tabs[i].root, id) \in DOMAIN tabs[i].root
      /\ tabs[i].root[PathOf(tabs[i].root, id)].id = id
  BY <1>2, <1>3, GoodFacts DEF i
<1> QED
  BY <1>2, <1>3, <1>4 DEF i

\* A tab of its own at the end.
LEMMA LayoutAppend ==
  ASSUME NEW ts, LayoutOK(ts), Len(ts) < MaxTabs, NEW tab, GoodTab(tab),
         \A i \in 1 .. Len(ts) : IdsOf(tab) \cap IdsOf(ts[i]) = {}
  PROVE  /\ LayoutOK(Append(ts, tab))
         /\ LeavesIn(Append(ts, tab)) = LeavesIn(ts) \cup LeafSet(tab.root)
         /\ TabIdsIn(Append(ts, tab)) = TabIdsIn(ts) \cup {tab.id}
<1> DEFINE us == Append(ts, tab)
           n == Len(ts)
<1>1. tab \in Tabs
  BY DEF Tabs, GoodTab
<1>2. ts \in Seq(Tabs) /\ n \in Nat
  BY LayoutFacts DEF LayoutOK
<1>3. us \in Seq(Tabs) /\ Len(us) = n + 1 /\ us[n + 1] = tab /\ \A i \in 1 .. n : us[i] = ts[i]
  BY <1>1, <1>2, AppendProperties
<1> HIDE DEF us
<1>4. \A i \in 1 .. Len(us) : i \in 1 .. n \/ i = n + 1
  BY <1>2, <1>3
<1>5. \A i, j \in 1 .. Len(us) : i # j => IdsOf(us[i]) \cap IdsOf(us[j]) = {}
  BY <1>3, <1>4 DEF LayoutOK
<1>6. Len(us) <= MaxTabs
  BY <1>2, <1>3, WorkspaceBounds
<1>7. n + 1 \in 1 .. Len(us) /\ 1 .. n \subseteq 1 .. Len(us)
  BY <1>2, <1>3
<1>8. LeavesIn(us) = LeavesIn(ts) \cup LeafSet(tab.root)
  BY <1>3, <1>4, <1>7 DEF LeavesIn
<1>9. TabIdsIn(us) = TabIdsIn(ts) \cup {tab.id}
  BY <1>3, <1>4, <1>7 DEF TabIdsIn
<1> QED
  BY <1>3, <1>5, <1>6, <1>8, <1>9 DEF LayoutOK, us

\* Another tree in one tab.
WithTab(ts, i, tab) == [ts EXCEPT ![i] = tab]
\* A tab may be replaced by one that shares no uid with the others.
LEMMA LayoutExcept ==
  ASSUME NEW ts, LayoutOK(ts), NEW i \in 1 .. Len(ts), NEW tab, GoodTab(tab),
         \A j \in 1 .. Len(ts) : j # i => IdsOf(tab) \cap IdsOf(ts[j]) = {},
         NEW us, us = WithTab(ts, i, tab)
  PROVE  /\ LayoutOK(us) /\ Len(us) = Len(ts)
         /\ us[i] = tab /\ \A j \in 1 .. Len(ts) : j # i => us[j] = ts[j]
         /\ LeavesIn(us) = (LeavesIn(ts) \ LeafSet(ts[i].root)) \cup LeafSet(tab.root)
         /\ tab.id = ts[i].id => TabIdsIn(us) = TabIdsIn(ts)
<1>1. tab \in Tabs
  BY DEF Tabs, GoodTab
<1>2. ts \in Seq(Tabs) /\ Len(ts) \in Nat
  BY LayoutFacts DEF LayoutOK
<1>3. /\ us \in Seq(Tabs) /\ Len(us) = Len(ts) /\ us[i] = tab
      /\ \A j \in 1 .. Len(ts) : j # i => us[j] = ts[j]
  <2>1. us = [ts EXCEPT ![i] = tab]
    BY DEF WithTab
  <2> QED
    BY <1>1, <1>2, <2>1, ExceptSeq
<1>4. \A j, k \in 1 .. Len(us) : j # k => IdsOf(us[j]) \cap IdsOf(us[k]) = {}
  BY <1>3 DEF LayoutOK
<1>5. LeavesIn(us) = (LeavesIn(ts) \ LeafSet(ts[i].root)) \cup LeafSet(tab.root)
  <2>1. \A j \in 1 .. Len(ts) : j # i => LeafSet(ts[j].root) \cap LeafSet(ts[i].root) = {}
    BY LeavesFacts
  <2> QED
    BY <1>3, <2>1 DEF LeavesIn
<1>6. ASSUME tab.id = ts[i].id
      PROVE  TabIdsIn(us) = TabIdsIn(ts)
  BY <1>3, <1>6 DEF TabIdsIn
<1>7. LayoutOK(us)
  BY <1>3, <1>4 DEF LayoutOK
<1> QED
  BY <1>3, <1>5, <1>6, <1>7

\* The first elements of a sequence, one left out, one put elsewhere.
LEMMA CutFacts ==
  ASSUME NEW S, NEW s \in Seq(S), NEW m \in Nat, m <= Len(s)
  PROVE  /\ SubSeq(s, 1, m) \in Seq(S) /\ Len(SubSeq(s, 1, m)) = m
         /\ \A j \in 1 .. m : SubSeq(s, 1, m)[j] = s[j]
<1>1. 1 \in Int /\ m \in Int /\ \A j \in 1 .. m : s[j] \in S
  BY LenProperties, ElementOfSeq
<1> DEFINE t == SubSeq(s, 1, m)
<1>2. /\ t \in Seq(S) /\ Len(t) = IF 1 <= m THEN m - 1 + 1 ELSE 0
      /\ \A j \in 1 .. m - 1 + 1 : t[j] = s[1 + j - 1]
  BY <1>1, SubSeqProperties
<1> HIDE DEF t
<1>3. Len(t) = m /\ \A j \in 1 .. m : t[j] = s[j]
  BY <1>2
<1> QED
  BY <1>2, <1>3 DEF t

\* RemoveAt leaves one element out.
LEMMA RemoveAtFacts ==
  ASSUME NEW S, NEW s \in Seq(S), NEW i \in 1 .. Len(s)
  PROVE  /\ RemoveAt(s, i) \in Seq(S) /\ Len(RemoveAt(s, i)) = Len(s) - 1
         /\ \A j \in 1 .. Len(s) - 1 : RemoveAt(s, i)[j] = s[IF j < i THEN j ELSE j + 1]
<1> DEFINE n == Len(s)
           front == SubSeq(s, 1, i - 1)
           back == SubSeq(s, i + 1, Len(s))
           t == front \o back
<1>1. n \in Nat /\ i \in Nat /\ i - 1 \in Nat /\ i - 1 <= n /\ i <= n
  BY LenProperties
<1>2. front \in Seq(S) /\ Len(front) = i - 1 /\ \A j \in 1 .. i - 1 : front[j] = s[j]
  BY <1>1, CutFacts
<1>3. back \in Seq(S) /\ Len(back) = n - i /\ \A j \in 1 .. n - i : back[j] = s[i + j]
  BY <1>1, RestFacts
<1> HIDE DEF front, back, n
<1>4. /\ t \in Seq(S) /\ Len(t) = Len(front) + Len(back)
      /\ \A j \in 1 .. Len(front) : t[j] = front[j]
      /\ \A j \in Len(front) + 1 .. Len(front) + Len(back) : t[j] = back[j - Len(front)]
  BY <1>2, <1>3, Joined
<1>5. RemoveAt(s, i) = t
  BY DEF RemoveAt, front, back
<1> HIDE DEF t
<1>6. Len(t) = n - 1
  BY <1>1, <1>2, <1>3, <1>4
<1>7. ASSUME NEW j \in 1 .. n - 1
      PROVE  t[j] = s[IF j < i THEN j ELSE j + 1]
  <2>1. CASE j < i
    BY <1>1, <1>2, <1>4, <2>1
  <2>2. CASE ~(j < i)
    <3> DEFINE k == j - (i - 1)
    <3>1. /\ j \in Len(front) + 1 .. Len(front) + Len(back) /\ j - Len(front) = k
          /\ k \in 1 .. n - i /\ i + k = j + 1
      BY <1>1, <1>2, <1>3, <2>2
    <3> HIDE DEF k
    <3> QED
      BY <1>3, <1>4, <2>2, <3>1
  <2> QED
    BY <2>1, <2>2
<1> QED
  BY <1>4, <1>5, <1>6, <1>7 DEF n

\* InsertAt puts one element in.
LEMMA InsertAtFacts ==
  ASSUME NEW S, NEW s \in Seq(S), NEW e \in S, NEW i \in 1 .. Len(s) + 1
  PROVE  /\ InsertAt(s, i, e) \in Seq(S) /\ Len(InsertAt(s, i, e)) = Len(s) + 1
         /\ InsertAt(s, i, e)[i] = e
         /\ \A j \in 1 .. Len(s) : InsertAt(s, i, e)[IF j < i THEN j ELSE j + 1] = s[j]
<1> DEFINE n == Len(s)
           m == i - 1
           front == SubSeq(s, 1, m)
           back == SubSeq(s, m + 1, Len(s))
           one == <<e>>
           most == front \o one
           t == most \o back
<1>1. n \in Nat /\ m \in Nat /\ m <= n /\ i = m + 1
  BY LenProperties
<1>2. front \in Seq(S) /\ Len(front) = m /\ \A j \in 1 .. m : front[j] = s[j]
  BY <1>1, CutFacts
<1>3. back \in Seq(S) /\ Len(back) = n - m /\ \A j \in 1 .. n - m : back[j] = s[m + j]
  BY <1>1, RestFacts
<1>4. one \in Seq(S) /\ Len(one) = 1 /\ one[1] = e
  OBVIOUS
<1>5. InsertAt(s, i, e) = t
  <2>1. back = SubSeq(s, i, Len(s)) /\ m = i - 1
    BY <1>1
  <2> HIDE DEF back, m
  <2> QED
    BY <2>1 DEF InsertAt
<1> HIDE DEF front, back, one, n, m
<1>6. /\ most \in Seq(S) /\ Len(most) = m + 1 /\ most[m + 1] = e
      /\ \A j \in 1 .. m : most[j] = s[j]
  <2>1. /\ most \in Seq(S) /\ Len(most) = Len(front) + Len(one)
        /\ \A j \in 1 .. Len(front) : most[j] = front[j]
        /\ \A j \in Len(front) + 1 .. Len(front) + Len(one) : most[j] = one[j - Len(front)]
    BY <1>2, <1>4, Joined
  <2> HIDE DEF most
  <2>2. m + 1 \in Len(front) + 1 .. Len(front) + Len(one) /\ m + 1 - Len(front) = 1
    BY <1>1, <1>2, <1>4
  <2> QED
    BY <1>1, <1>2, <1>4, <2>1, <2>2
<1> HIDE DEF most
<1>7. /\ t \in Seq(S) /\ Len(t) = Len(most) + Len(back)
      /\ \A j \in 1 .. Len(most) : t[j] = most[j]
      /\ \A j \in Len(most) + 1 .. Len(most) + Len(back) : t[j] = back[j - Len(most)]
  BY <1>3, <1>6, Joined
<1> HIDE DEF t
<1>8. Len(t) = n + 1 /\ t[i] = e
  BY <1>1, <1>3, <1>6, <1>7
<1>9. ASSUME NEW j \in 1 .. n
      PROVE  t[IF j < i THEN j ELSE j + 1] = s[j]
  <2>1. CASE j < i
    BY <1>1, <1>6, <1>7, <2>1
  <2>2. CASE ~(j < i)
    <3> DEFINE k == j - m
               l == j + 1
    <3>1. /\ l \in Len(most) + 1 .. Len(most) + Len(back) /\ l - Len(most) = k
          /\ k \in 1 .. n - m /\ m + k = j
      BY <1>1, <1>3, <1>6, <2>2
    <3> HIDE DEF k, l
    <3>2. t[l] = s[j]
      BY <1>3, <1>7, <3>1
    <3> QED
      BY <2>2, <3>2 DEF l
  <2> QED
    BY <2>1, <2>2
<1> QED
  BY <1>5, <1>7, <1>8, <1>9 DEF n

LeavesAt(ts, K) == UNION {LeafSet(ts[k].root) : k \in K}
TabIdsAt(ts, K) == {ts[k].id : k \in K}

\* The same tabs, or some of them, in another order.
LEMMA LayoutReindexed ==
  ASSUME NEW ts, LayoutOK(ts), NEW us \in Seq(Tabs), Len(us) <= Len(ts),
         NEW f \in [1 .. Len(us) -> 1 .. Len(ts)],
         \A j \in 1 .. Len(us) : us[j] = ts[f[j]],
         \A i, j \in 1 .. Len(us) : f[i] = f[j] => i = j
  PROVE  /\ LayoutOK(us)
         /\ LeavesIn(us) = LeavesAt(ts, Range(f))
         /\ TabIdsIn(us) = TabIdsAt(ts, Range(f))
<1>1. Len(ts) \in Nat /\ Len(us) \in Nat /\ Len(us) <= MaxTabs
  BY LenProperties, LayoutFacts, WorkspaceBounds DEF LayoutOK
<1>2. ASSUME NEW i \in 1 .. Len(us), NEW j \in 1 .. Len(us), i # j
      PROVE  IdsOf(us[i]) \cap IdsOf(us[j]) = {}
  <2>1. f[i] \in 1 .. Len(ts) /\ f[j] \in 1 .. Len(ts) /\ f[i] # f[j]
    BY <1>2
  <2>2. IdsOf(ts[f[i]]) \cap IdsOf(ts[f[j]]) = {}
    BY <2>1 DEF LayoutOK
  <2>3. us[i] = ts[f[i]] /\ us[j] = ts[f[j]]
    BY <1>2
  <2> QED
    BY <2>2, <2>3
<1>3. LayoutOK(us)
  BY <1>1, <1>2 DEF LayoutOK
<1>4. ASSUME NEW leaf
      PROVE  leaf \in LeavesIn(us) <=>
               leaf \in LeavesAt(ts, Range(f))
  <2>1. \A j \in 1 .. Len(us) : us[j] = ts[f[j]]
    OBVIOUS
  <2>2. leaf \in LeavesIn(us) <=> \E j \in 1 .. Len(us) : leaf \in LeafSet(us[j].root)
    BY DEF LeavesIn
  <2>3. leaf \in LeavesAt(ts, Range(f))
          <=> \E j \in 1 .. Len(us) : leaf \in LeafSet(ts[f[j]].root)
    BY DEF LeavesAt, Range
  <2>4. (\E j \in 1 .. Len(us) : leaf \in LeafSet(us[j].root))
          <=> \E j \in 1 .. Len(us) : leaf \in LeafSet(ts[f[j]].root)
    BY <2>1
  <2> QED
    BY <2>2, <2>3, <2>4
<1>5. ASSUME NEW id
      PROVE  id \in TabIdsIn(us) <=> id \in TabIdsAt(ts, Range(f))
  <2>1. \A j \in 1 .. Len(us) : us[j].id = ts[f[j]].id
    OBVIOUS
  <2>2. id \in TabIdsIn(us) <=> \E j \in 1 .. Len(us) : id = us[j].id
    BY DEF TabIdsIn
  <2>3. id \in TabIdsAt(ts, Range(f)) <=> \E j \in 1 .. Len(us) : id = ts[f[j]].id
    BY DEF TabIdsAt, Range
  <2> QED
    BY <2>1, <2>2, <2>3
<1> QED
  BY <1>3, <1>4, <1>5

\* A tab may be taken out of a layout.
LEMMA LayoutRemove ==
  ASSUME NEW ts, LayoutOK(ts), NEW i \in 1 .. Len(ts), NEW us, us = RemoveAt(ts, i)
  PROVE  /\ LayoutOK(us) /\ Len(us) = Len(ts) - 1
         /\ LeavesIn(us) = LeavesIn(ts) \ LeafSet(ts[i].root)
         /\ TabIdsIn(us) = TabIdsIn(ts) \ {ts[i].id}
<1> DEFINE n == Len(ts)
           m == n - 1
           A == (1 .. n) \ {i}
           Origin(j) == IF j < i THEN j ELSE j + 1
           f == [j \in 1 .. m |-> Origin(j)]
<1>1. ts \in Seq(Tabs) /\ n \in Nat /\ m \in Nat /\ m <= n
  BY LayoutFacts DEF LayoutOK
<1>2. us \in Seq(Tabs) /\ Len(us) = m /\ \A j \in 1 .. m : us[j] = ts[Origin(j)]
  BY <1>1, RemoveAtFacts
<1>3. \A j \in 1 .. m : Origin(j) \in A
  BY <1>1
<1>4. \A j, k \in 1 .. m : Origin(j) = Origin(k) => j = k
  BY <1>1
<1>5. \A k \in A : \E j \in 1 .. m : Origin(j) = k
  <2> SUFFICES ASSUME NEW k \in A PROVE \E j \in 1 .. m : Origin(j) = k
    OBVIOUS
  <2>1. CASE k < i
    <3>1. k \in 1 .. m /\ Origin(k) = k
      BY <1>1, <2>1
    <3> QED
      BY <3>1
  <2>2. CASE ~(k < i)
    <3> DEFINE l == k - 1
    <3>1. l \in 1 .. m /\ Origin(l) = k
      BY <1>1, <2>2
    <3> HIDE DEF l
    <3> QED
      BY <3>1
  <2> QED
    BY <2>1, <2>2
<1> HIDE DEF Origin
<1>6. f \in [1 .. m -> 1 .. n] /\ \A j \in 1 .. m : f[j] = Origin(j)
  BY <1>3
<1> HIDE DEF f, m
<1>7. /\ LayoutOK(us)
      /\ LeavesIn(us) = LeavesAt(ts, A)
      /\ TabIdsIn(us) = TabIdsAt(ts, A)
  <2>1. Len(us) <= Len(ts) /\ f \in [1 .. Len(us) -> 1 .. Len(ts)]
    BY <1>1, <1>2, <1>6
  <2>2. \A j \in 1 .. Len(us) : us[j] = ts[f[j]]
    BY <1>2, <1>6
  <2>3. \A j, k \in 1 .. Len(us) : f[j] = f[k] => j = k
    BY <1>2, <1>4, <1>6
  <2>4. Range(f) = A
    BY <1>2, <1>3, <1>5, <1>6 DEF Range
  <2>5. us \in Seq(Tabs)
    BY <1>2
  <2> HIDE DEF A, n
  <2>6. /\ LayoutOK(us)
        /\ LeavesIn(us) = LeavesAt(ts, Range(f))
        /\ TabIdsIn(us) = TabIdsAt(ts, Range(f))
    BY <2>1, <2>2, <2>3, <2>5, LayoutReindexed
  <2> QED
    BY <2>4, <2>6
<1>8. \A j \in 1 .. Len(ts) : j # i => LeafSet(ts[j].root) \cap LeafSet(ts[i].root) = {}
  BY LeavesFacts
<1>9. \A j \in 1 .. Len(ts) : j # i => ts[j].id # ts[i].id
  BY DEF LayoutOK, IdsOf
<1>10. LeavesIn(us) = LeavesIn(ts) \ LeafSet(ts[i].root)
  BY <1>7, <1>8 DEF LeavesIn, LeavesAt
<1>11. TabIdsIn(us) = TabIdsIn(ts) \ {ts[i].id}
  BY <1>7, <1>9 DEF TabIdsIn, TabIdsAt
<1> QED
  BY <1>2, <1>7, <1>10, <1>11 DEF m

\* A tab may be moved within a layout.
LEMMA LayoutMove ==
  ASSUME NEW ts, LayoutOK(ts), NEW from \in 1 .. Len(ts), NEW to \in 1 .. Len(ts)
  PROVE  LET us == InsertAt(RemoveAt(ts, from), to, ts[from])
         IN LayoutOK(us) /\ LeavesIn(us) = LeavesIn(ts) /\ TabIdsIn(us) = TabIdsIn(ts)
<1> DEFINE mid == RemoveAt(ts, from)
           us == InsertAt(mid, to, ts[from])
           n == Len(ts)
           m == n - 1
           Place(j) == IF j < to THEN j ELSE j + 1
           Origin(j) == IF j < from THEN j ELSE j + 1
           Source(k) == IF k = to THEN from ELSE IF k < to THEN Origin(k) ELSE Origin(k - 1)
           f == [k \in 1 .. n |-> Source(k)]
<1>1. ts \in Seq(Tabs) /\ n \in Nat /\ m \in Nat /\ ts[from] \in Tabs /\ to \in 1 .. m + 1
  BY LayoutFacts DEF LayoutOK
<1>2. /\ mid \in Seq(Tabs) /\ Len(mid) = m
      /\ \A j \in 1 .. m : mid[j] = ts[Origin(j)]
  BY <1>1, RemoveAtFacts
<1> HIDE DEF mid
<1>3. /\ us \in Seq(Tabs) /\ Len(us) = m + 1 /\ us[to] = ts[from]
      /\ \A j \in 1 .. m : us[Place(j)] = mid[j]
  <2> HIDE DEF m, n
  <2>1. to \in 1 .. Len(mid) + 1
    BY <1>1, <1>2
  <2>2. /\ us \in Seq(Tabs) /\ Len(us) = Len(mid) + 1 /\ us[to] = ts[from]
        /\ \A j \in 1 .. Len(mid) : us[Place(j)] = mid[j]
    <3> DEFINE e == ts[from]
    <3>1. mid \in Seq(Tabs) /\ e \in Tabs
      BY <1>1, <1>2
    <3> HIDE DEF e
    <3>2. /\ InsertAt(mid, to, e) \in Seq(Tabs) /\ Len(InsertAt(mid, to, e)) = Len(mid) + 1
          /\ InsertAt(mid, to, e)[to] = e
          /\ \A j \in 1 .. Len(mid) : InsertAt(mid, to, e)[IF j < to THEN j ELSE j + 1] = mid[j]
      BY <2>1, <3>1, InsertAtFacts
    <3> QED
      BY <3>2 DEF e
  <2> QED
    BY <1>2, <2>2
<1> HIDE DEF us
<1>4. \A j, k \in 1 .. n : Source(j) = Source(k) => j = k
  BY <1>1
<1>5. \A k \in 1 .. n : Source(k) \in 1 .. n
  BY <1>1
<1>6. ASSUME NEW k \in 1 .. n
      PROVE  us[k] = ts[Source(k)]
  <2>1. CASE k = to
    BY <1>3, <2>1
  <2>2. CASE k < to
    <3>1. k \in 1 .. m /\ Place(k) = k /\ Source(k) = Origin(k)
      BY <1>1, <2>2
    <3> HIDE DEF Place, Origin, Source
    <3> QED
      BY <1>2, <1>3, <3>1
  <2>3. CASE k > to
    <3> DEFINE j == k - 1
    <3>1. j \in 1 .. m /\ Place(j) = k /\ Source(k) = Origin(j)
      BY <1>1, <2>3
    <3> HIDE DEF j, Place, Origin, Source
    <3> QED
      BY <1>2, <1>3, <3>1
  <2> QED
    BY <1>1, <2>1, <2>2, <2>3
<1>7. ASSUME NEW k \in 1 .. n
      PROVE  \E j \in 1 .. n : Source(j) = k
  <2>1. CASE k = from
    BY <2>1
  <2>2. CASE k # from
    <3> DEFINE j == IF k < from THEN k ELSE k - 1
    <3>1. j \in 1 .. m /\ Origin(j) = k
      BY <1>1, <2>2
    <3> DEFINE l == IF j < to THEN j ELSE j + 1
    <3>2. l \in 1 .. n /\ l # to /\ (IF l < to THEN l ELSE l - 1) = j
      BY <1>1, <3>1
    <3> HIDE DEF j, l, Origin
    <3>3. Source(l) = k
      BY <3>1, <3>2
    <3> QED
      BY <3>2, <3>3
  <2> QED
    BY <2>1, <2>2
<1> HIDE DEF Source
<1>8. f \in [1 .. n -> 1 .. n] /\ \A j \in 1 .. n : f[j] = Source(j)
  BY <1>5
<1> HIDE DEF f
<1>9. m + 1 = n
  BY <1>1
<1> HIDE DEF m
<1>10. /\ LayoutOK(us)
       /\ LeavesIn(us) = LeavesAt(ts, 1 .. n)
       /\ TabIdsIn(us) = TabIdsAt(ts, 1 .. n)
  <2>1. Len(us) = n
    BY <1>3, <1>9
  <2>2. Len(us) <= Len(ts) /\ f \in [1 .. Len(us) -> 1 .. Len(ts)]
    BY <1>1, <1>8, <2>1
  <2>3. \A j \in 1 .. Len(us) : us[j] = ts[f[j]]
    BY <1>6, <1>8, <2>1
  <2>4. \A j, k \in 1 .. Len(us) : f[j] = f[k] => j = k
    BY <1>4, <1>8, <2>1
  <2>5. Range(f) = 1 .. n
    BY <1>5, <1>7, <1>8, <2>1 DEF Range
  <2>6. us \in Seq(Tabs)
    BY <1>3
  <2> HIDE DEF n
  <2>7. /\ LayoutOK(us)
        /\ LeavesIn(us) = LeavesAt(ts, Range(f))
        /\ TabIdsIn(us) = TabIdsAt(ts, Range(f))
    BY <2>2, <2>3, <2>4, <2>6, LayoutReindexed
  <2> QED
    BY <2>5, <2>7
<1> QED
  BY <1>10 DEF us, mid, n, LeavesIn, TabIdsIn, LeavesAt, TabIdsAt

-----------------------------------------------------------------------------
(***************************************************************************)
(* What an operation may do to the sessions on the page.                   *)
(***************************************************************************)
Shows(ts, s) == \E leaf \in LeavesIn(ts) : leaf.session = s
AtMostOne(ts, s) == \A k, l \in LeavesIn(ts) : k.session = s /\ l.session = s => k = l
NoMore(ts, us, s) == /\ Shows(us, s) => Shows(ts, s)
                     /\ AtMostOne(ts, s) => AtMostOne(us, s)

\* Sessions no leaf was given are shown as before.
LEMMA NoMoreKept ==
  ASSUME NEW ts, NEW us, NEW s,
         \A leaf \in LeavesIn(us) : leaf \in LeavesIn(ts) \/ leaf.session # s
  PROVE  NoMore(ts, us, s)
  BY DEF NoMore, Shows, AtMostOne

\* A leaf that takes the place of another one with the same session.
LEMMA NoMoreMoved ==
  ASSUME NEW ts, NEW us, NEW s, NEW old \in LeavesIn(ts), NEW new, new.session = old.session,
         \A leaf \in LeavesIn(us) : leaf \in LeavesIn(ts) \ {old} \/ leaf = new
  PROVE  NoMore(ts, us, s)
<1>1. ASSUME Shows(us, s)
      PROVE  Shows(ts, s)
  BY <1>1 DEF Shows
<1>2. ASSUME AtMostOne(ts, s), NEW k \in LeavesIn(us), NEW l \in LeavesIn(us),
             k.session = s, l.session = s
      PROVE  k = l
  <2>1. CASE new.session = s
    <3>1. \A leaf \in LeavesIn(ts) \ {old} : leaf.session # s
      BY <1>2, <2>1 DEF AtMostOne
    <3> QED
      BY <1>2, <3>1
  <2>2. CASE new.session # s
    BY <1>2, <2>2 DEF AtMostOne
  <2> QED
    BY <2>1, <2>2
<1> QED
  BY <1>1, <1>2 DEF NoMore, AtMostOne

\* Two leaves that exchange their sessions.
LEMMA NoMoreSwapped ==
  ASSUME NEW ts, NEW us, NEW s, NEW k \in LeavesIn(ts), NEW l \in LeavesIn(ts), k # l,
         NEW m, NEW n, m.session = l.session, n.session = k.session,
         \A leaf \in LeavesIn(us) : leaf \in LeavesIn(ts) \ {k, l} \/ leaf = m \/ leaf = n
  PROVE  NoMore(ts, us, s)
<1>1. ASSUME Shows(us, s)
      PROVE  Shows(ts, s)
  BY <1>1 DEF Shows
<1>2. ASSUME AtMostOne(ts, s), NEW x \in LeavesIn(us), NEW y \in LeavesIn(us),
             x.session = s, y.session = s
      PROVE  x = y
  <2>1. ~(k.session = s /\ l.session = s)
    BY <1>2 DEF AtMostOne
  <2>2. CASE k.session = s
    <3>1. \A leaf \in LeavesIn(ts) \ {k, l} : leaf.session # s
      BY <1>2, <2>2 DEF AtMostOne
    <3> QED
      BY <1>2, <2>1, <2>2, <3>1
  <2>3. CASE l.session = s
    <3>1. \A leaf \in LeavesIn(ts) \ {k, l} : leaf.session # s
      BY <1>2, <2>3 DEF AtMostOne
    <3> QED
      BY <1>2, <2>1, <2>3, <3>1
  <2>4. CASE k.session # s /\ l.session # s
    BY <1>2, <2>4 DEF AtMostOne
  <2> QED
    BY <2>2, <2>3, <2>4
<1> QED
  BY <1>1, <1>2 DEF NoMore, AtMostOne

\* A new leaf shows a session that no leaf shows.
LEMMA OneMore ==
  ASSUME NEW ts, NEW us, NEW new, ~Shows(ts, new.session),
         \A leaf \in LeavesIn(us) : leaf \in LeavesIn(ts) \/ leaf = new
  PROVE  AtMostOne(us, new.session)
  BY DEF Shows, AtMostOne

-----------------------------------------------------------------------------
(***************************************************************************)
(* The operations of the store.                                            *)
(***************************************************************************)
\* A tab is given another tree: its own panes, and others under fresh uids.
LEMMA TabChanged ==
  ASSUME NEW ts, LayoutOK(ts), NEW i \in 1 .. Len(ts), NEW root, GoodRoot(root),
         NEW focus \in LeafIds(root), Cardinality(DOMAIN root) <= MaxLeaves,
         \A id \in LeafIds(root) : id \in LeafIds(ts[i].root) \/ id \notin IdsIn(ts),
         NEW us, us = WithTab(ts, i, Tab(ts[i].id, root, focus))
  PROVE  /\ LayoutOK(us) /\ Len(us) = Len(ts) /\ TabIdsIn(us) = TabIdsIn(ts)
         /\ LeavesIn(us) = (LeavesIn(ts) \ LeafSet(ts[i].root)) \cup LeafSet(root)
         /\ us[i] = Tab(ts[i].id, root, focus)
         /\ \A j \in 1 .. Len(ts) : j # i => us[j] = ts[j]
<1> DEFINE tab == Tab(ts[i].id, root, focus)
<1>1. tab.id = ts[i].id /\ tab.root = root /\ tab.focus = focus
  BY DEF Tab
<1>2. GoodTab(ts[i]) /\ ts[i].id \in IdsIn(ts) /\ ts[i].id \in Uids
  BY LayoutFacts DEF IdsIn, IdsOf
<1>3. tab \in [id : Uids, root : Roots, focus : Uids]
  BY <1>2, GoodFacts DEF Tab, GoodRoot
<1>4. GoodTab(tab)
  BY <1>1, <1>2, <1>3 DEF GoodTab
<1> HIDE DEF tab
<1>5. \A j \in 1 .. Len(ts) : j # i => IdsOf(tab) \cap IdsOf(ts[j]) = {}
  <2> SUFFICES ASSUME NEW j \in 1 .. Len(ts), j # i
               PROVE  IdsOf(tab) \cap IdsOf(ts[j]) = {}
    OBVIOUS
  <2>1. IdsOf(ts[i]) \cap IdsOf(ts[j]) = {}
    BY DEF LayoutOK
  <2>2. IdsOf(ts[j]) \subseteq IdsIn(ts)
    BY DEF IdsIn
  <2>3. \A id \in IdsOf(tab) : id \in IdsOf(ts[i]) \/ id \notin IdsIn(ts)
    BY <1>1 DEF IdsOf
  <2> QED
    BY <2>1, <2>2, <2>3
<1>6. us = WithTab(ts, i, tab)
  BY DEF tab
<1>7. /\ LayoutOK(us) /\ Len(us) = Len(ts)
      /\ us[i] = tab /\ \A j \in 1 .. Len(ts) : j # i => us[j] = ts[j]
      /\ LeavesIn(us) = (LeavesIn(ts) \ LeafSet(ts[i].root)) \cup LeafSet(tab.root)
      /\ tab.id = ts[i].id => TabIdsIn(us) = TabIdsIn(ts)
  BY <1>4, <1>5, <1>6, LayoutExcept
<1> QED
  BY <1>1, <1>7 DEF tab

WithRootFocus(tab, root, focus) == [tab EXCEPT !.root = root, !.focus = focus]
WithRoot(tab, root) == [tab EXCEPT !.root = root]
WithFocus(tab, focus) == [tab EXCEPT !.focus = focus]
\* A tab with another tree, another focus, or both.
LEMMA TabExcept ==
  ASSUME NEW tab, GoodTab(tab), NEW root, NEW focus
  PROVE  /\ WithRootFocus(tab, root, focus) = Tab(tab.id, root, focus)
         /\ WithRoot(tab, root) = Tab(tab.id, root, tab.focus)
         /\ WithFocus(tab, focus) = Tab(tab.id, tab.root, focus)
<1>0. tab \in [id : Uids, root : Roots, focus : Uids]
  BY DEF GoodTab
<1> DEFINE mid == [tab EXCEPT !.root = root]
<1>1. [tab EXCEPT !.root = root, !.focus = focus] = [mid EXCEPT !.focus = focus]
  BY <1>0
<1>2. /\ mid \in [id : Uids, root : {root}, focus : Uids] /\ mid.root = root
      /\ mid.id = tab.id /\ mid.focus = tab.focus
  BY <1>0
<1>3. [tab EXCEPT !.focus = focus] = Tab(tab.id, tab.root, focus)
  BY <1>0 DEF Tab
<1> HIDE DEF mid
<1>4. [mid EXCEPT !.focus = focus] = Tab(mid.id, mid.root, focus)
  BY <1>2 DEF Tab
<1>5. mid = Tab(mid.id, mid.root, mid.focus)
  BY <1>2 DEF Tab
<1>6. mid = Tab(tab.id, root, tab.focus)
  BY <1>2, <1>5
<1>7. [mid EXCEPT !.focus = focus] = Tab(tab.id, root, focus)
  BY <1>2, <1>4
<1>8. [tab EXCEPT !.root = root, !.focus = focus] = Tab(tab.id, root, focus)
  BY <1>1, <1>7
<1>9. [tab EXCEPT !.root = root] = Tab(tab.id, root, tab.focus)
  BY <1>6 DEF mid
<1> QED
  BY <1>3, <1>8, <1>9 DEF WithRootFocus, WithRoot, WithFocus

\* SetTab with a tree of the tab's panes and fresh ones.
LEMMA SetTabDone ==
  ASSUME LayoutOK(tabs), NEW i \in 1 .. Len(tabs), NEW root, GoodRoot(root),
         NEW focus \in LeafIds(root), Cardinality(DOMAIN root) <= MaxLeaves,
         \A id \in LeafIds(root) : id \in LeafIds(tabs[i].root) \/ id \notin UidsInUse,
         SetTab(i, root, focus)
  PROVE  /\ LayoutOK(tabs') /\ TabIdsIn(tabs') = TabIdsIn(tabs) /\ Len(tabs') = Len(tabs)
         /\ LeavesIn(tabs') = (LeavesIn(tabs) \ LeafSet(tabs[i].root)) \cup LeafSet(root)
<1> DEFINE tab == tabs[i]
<1>1. GoodTab(tab)
  BY LayoutFacts
<1>2. tabs' = WithTab(tabs, i, WithRootFocus(tab, root, focus))
  BY DEF SetTab, WithTab, WithRootFocus
<1>3. WithRootFocus(tab, root, focus) = Tab(tab.id, root, focus)
  BY <1>1, TabExcept
<1>4. \A id \in LeafIds(root) : id \in LeafIds(tabs[i].root) \/ id \notin IdsIn(tabs)
  BY IdsAre
<1>5. tabs' = WithTab(tabs, i, Tab(tabs[i].id, root, focus))
  BY <1>2, <1>3
<1> QED
  BY <1>4, <1>5, TabChanged

\* SetLeaf replaces the one leaf with that uid.
LEMMA LeafSetDone ==
  ASSUME LayoutOK(tabs), NEW id \in PaneIds, NEW session \in Sessions \cup {NoSession},
         SetLeaf(id, session)
  PROVE  /\ LayoutOK(tabs') /\ TabIdsIn(tabs') = TabIdsIn(tabs)
         /\ \E old \in LeavesIn(tabs) :
              /\ old.id = id
              /\ LeavesIn(tabs') = (LeavesIn(tabs) \ {old}) \cup {Leaf(id, session)}
<1> DEFINE i == tabForPane(id)
           root == tabs[i].root
           p == PathOf(root, id)
           new == [root EXCEPT ![p] = Leaf(id, session)]
<1>1. /\ i \in 1 .. Len(tabs) /\ p \in DOMAIN root /\ root[p].id = id
      /\ GoodTab(tabs[i]) /\ GoodRoot(root)
  BY TabOfPane
<1>2. tabs' = [tabs EXCEPT ![i].root[p] = Leaf(id, session)]
  BY DEF SetLeaf
<1> HIDE DEF i, p
<1>3. /\ GoodRoot(new) /\ LeafIds(new) = LeafIds(root) /\ DOMAIN new = DOMAIN root
      /\ LeafSet(new) = (LeafSet(root) \ {root[p]}) \cup {Leaf(id, session)}
  BY <1>1, GoodSet
<1>4. tabs' = WithTab(tabs, i, Tab(tabs[i].id, new, tabs[i].focus))
  <2> DEFINE tab == tabs[i]
  <2>1. WithRoot(tab, new) = Tab(tab.id, new, tab.focus)
    BY <1>1, TabExcept
  <2>2. tabs' = WithTab(tabs, i, WithRoot(tab, new))
    BY <1>2 DEF WithTab, WithRoot
  <2> QED
    BY <2>1, <2>2
<1> HIDE DEF new
<1>5. tabs[i].focus \in LeafIds(new) /\ Cardinality(DOMAIN new) <= MaxLeaves
  BY <1>1, <1>3 DEF GoodTab
<1>6. /\ LayoutOK(tabs') /\ TabIdsIn(tabs') = TabIdsIn(tabs)
      /\ LeavesIn(tabs') = (LeavesIn(tabs) \ LeafSet(root)) \cup LeafSet(new)
  BY <1>1, <1>3, <1>4, <1>5, TabChanged
<1>7. root[p] \in LeafSet(root) /\ LeafSet(root) \subseteq LeavesIn(tabs)
  BY <1>1 DEF LeafSet, LeavesIn
<1>8. LeavesIn(tabs') = (LeavesIn(tabs) \ {root[p]}) \cup {Leaf(id, session)}
  BY <1>3, <1>6, <1>7
<1> QED
  BY <1>1, <1>6, <1>7, <1>8

\* A new tab.
LEMMA FreshIds ==
  ASSUME HasFresh(2)
  PROVE  /\ Uid(1) \in Uids /\ Uid(2) \in Uids /\ Uid(1) # Uid(2)
         /\ Uid(1) \notin UidsInUse /\ Uid(2) \notin UidsInUse
<1>1. 2 \in Nat /\ 1 \in 1 .. 2 /\ 2 \in 1 .. 2
  OBVIOUS
<1>2. /\ (\A n \in 1 .. 2 : Uid(n) \in Uids /\ Uid(n) \notin UidsInUse)
      /\ (\A m, n \in 1 .. 2 : Uid(m) = Uid(n) => m = n)
  BY <1>1, UidFacts
<1> QED
  BY <1>1, <1>2

\* The tab that createTab makes.
LEMMA NewTabGood ==
  ASSUME HasFresh(2), NEW session \in Sessions \cup {NoSession}
  PROVE  /\ GoodTab(NewTab(session)) /\ NewTab(session).id = Uid(1)
         /\ LeafSet(NewTab(session).root) = {Leaf(Uid(2), session)}
         /\ IdsOf(NewTab(session)) = {Uid(1), Uid(2)}
<1> DEFINE leaf == Leaf(Uid(2), session)
           root == Alone(leaf)
           tab == NewTab(session)
<1>1. Uid(1) \in Uids /\ Uid(2) \in Uids /\ Uid(1) # Uid(2)
  BY FreshIds
<1>2. leaf \in Leaves /\ leaf.id = Uid(2)
  BY <1>1, LeafType
<1>3. /\ GoodRoot(root) /\ LeafSet(root) = {leaf} /\ LeafIds(root) = {Uid(2)}
      /\ Cardinality(DOMAIN root) = 1
  BY <1>2, GoodAlone
<1>4. tab = [id |-> Uid(1), root |-> root, focus |-> Uid(2)]
  BY DEF NewTab, Tab
<1> HIDE DEF root, leaf, tab
<1>5. /\ tab \in [id : Uids, root : Roots, focus : Uids] /\ tab.id = Uid(1) /\ tab.root = root
      /\ tab.focus = Uid(2)
  BY <1>1, <1>3, <1>4 DEF GoodRoot
<1>6. 1 <= MaxLeaves
  BY WorkspaceBounds
<1>7. GoodTab(tab)
  BY <1>1, <1>3, <1>5, <1>6 DEF GoodTab
<1> QED
  BY <1>3, <1>5, <1>7 DEF tab, leaf, IdsOf

\* createTab: the tab goes to the end.
LEMMA TabAdded ==
  ASSUME LayoutOK(tabs), Len(tabs) < MaxTabs, NEW session \in Sessions \cup {NoSession},
         HasFresh(2), tabs' = Append(tabs, NewTab(session))
  PROVE  /\ LayoutOK(tabs') /\ Uid(1) \in TabIdsIn(tabs') /\ Uid(1) \in Uids
         /\ LeavesIn(tabs') = LeavesIn(tabs) \cup {Leaf(Uid(2), session)}
<1> DEFINE tab == NewTab(session)
<1>1. /\ GoodTab(tab) /\ tab.id = Uid(1) /\ LeafSet(tab.root) = {Leaf(Uid(2), session)}
      /\ IdsOf(tab) = {Uid(1), Uid(2)}
  BY NewTabGood
<1> HIDE DEF tab
<1>2. \A i \in 1 .. Len(tabs) : IdsOf(tab) \cap IdsOf(tabs[i]) = {}
  <2>1. \A i \in 1 .. Len(tabs) : IdsOf(tabs[i]) \subseteq UidsInUse
    BY IdsAre DEF IdsIn
  <2> QED
    BY <1>1, <2>1, FreshIds
<1>3. /\ LayoutOK(Append(tabs, tab))
      /\ LeavesIn(Append(tabs, tab)) = LeavesIn(tabs) \cup LeafSet(tab.root)
      /\ TabIdsIn(Append(tabs, tab)) = TabIdsIn(tabs) \cup {tab.id}
  BY <1>1, <1>2, LayoutAppend
<1> QED
  BY <1>1, <1>3, FreshIds DEF tab

\* The page before anyone signs in.
LEMMA NoTabs ==
  LayoutOK(<<>>) /\ LeavesIn(<<>>) = {} /\ TabIdsIn(<<>>) = {} /\ Len(<<>>) = 0
<1>1. <<>> \in Seq(Tabs) /\ Len(<<>>) = 0
  BY EmptySeq
<1>2. 1 .. Len(<<>>) = {}
  BY <1>1
<1> QED
  BY <1>1, <1>2, WorkspaceBounds DEF LayoutOK, LeavesIn, TabIdsIn

\* The tab that replaces the last one closed.
LEMMA OneTab ==
  ASSUME NEW session \in Sessions \cup {NoSession}, HasFresh(2), tabs' = <<NewTab(session)>>
  PROVE  /\ LayoutOK(tabs') /\ Uid(1) \in TabIdsIn(tabs') /\ Uid(1) \in Uids
         /\ LeavesIn(tabs') = {Leaf(Uid(2), session)}
<1> DEFINE tab == NewTab(session)
<1>1. GoodTab(tab) /\ tab.id = Uid(1) /\ LeafSet(tab.root) = {Leaf(Uid(2), session)}
  BY NewTabGood
<1> HIDE DEF tab
<1>2. 0 < MaxTabs
  BY WorkspaceBounds
<1>3. 1 .. Len(<<>>) = {}
  BY NoTabs
<1>4. \A i \in 1 .. Len(<<>>) : IdsOf(tab) \cap IdsOf(<<>>[i]) = {}
  BY <1>3
<1>5. /\ LayoutOK(Append(<<>>, tab))
      /\ LeavesIn(Append(<<>>, tab)) = LeavesIn(<<>>) \cup LeafSet(tab.root)
      /\ TabIdsIn(Append(<<>>, tab)) = TabIdsIn(<<>>) \cup {tab.id}
  BY <1>1, <1>2, <1>4, NoTabs, LayoutAppend
<1>6. Append(<<>>, tab) = <<tab>>
  OBVIOUS
<1> QED
  BY <1>1, <1>5, <1>6, NoTabs, FreshIds DEF tab

-----------------------------------------------------------------------------
NoMoreFor(ts, us) == \A s \in Sessions : NoMore(ts, us, s)

\* createTab.
LEMMA CreateTabDone ==
  ASSUME LayoutOK(tabs), Len(tabs) < MaxTabs, NEW session \in Sessions \cup {NoSession},
         createTab(session)
  PROVE  /\ LayoutOK(tabs') /\ activeTabId' \in TabIdsIn(tabs')
         /\ maximizedPaneId' = maximizedPaneId
         /\ LeavesIn(tabs') = LeavesIn(tabs) \cup {Leaf(Uid(2), session)}
<1>1. /\ HasFresh(2) /\ tabs' = Append(tabs, NewTab(session)) /\ activeTabId' = Uid(1)
      /\ maximizedPaneId' = maximizedPaneId
  BY DEF createTab
<1> QED
  BY <1>1, TabAdded

\* A blank pane more shows nothing.
LEMMA BlankMore ==
  ASSUME NEW ts, NEW us, NEW id,
         \A leaf \in LeavesIn(us) : leaf \in LeavesIn(ts) \/ leaf = Leaf(id, NoSession)
  PROVE  NoMoreFor(ts, us)
<1> SUFFICES ASSUME NEW s \in Sessions
             PROVE  NoMore(ts, us, s)
  BY DEF NoMoreFor
<1>1. Leaf(id, NoSession).session # s
  BY NoSessionIsNone DEF Leaf
<1> QED
  BY <1>1, NoMoreKept

\* No leaf more shows nothing more.
LEMMA FewerLeaves ==
  ASSUME NEW ts, NEW us, LeavesIn(us) \subseteq LeavesIn(ts)
  PROVE  NoMoreFor(ts, us)
<1> SUFFICES ASSUME NEW s \in Sessions
             PROVE  NoMore(ts, us, s)
  BY DEF NoMoreFor
<1> QED
  BY NoMoreKept

\* closeTab: the tab behind takes over, or a blank one.
LEMMA CloseTabDone ==
  ASSUME LayoutOK(tabs), activeTabId \in TabIdsIn(tabs), NEW i \in 1 .. Len(tabs), closeTab(i)
  PROVE  LayoutOK(tabs') /\ activeTabId' \in TabIdsIn(tabs') /\ NoMoreFor(tabs, tabs')
<1> DEFINE rest == RemoveAt(tabs, i)
<1>1. /\ LayoutOK(rest) /\ LeavesIn(rest) = LeavesIn(tabs) \ LeafSet(tabs[i].root)
      /\ TabIdsIn(rest) = TabIdsIn(tabs) \ {tabs[i].id}
  BY LayoutRemove
<1>2. /\ rest = <<>> => /\ HasFresh(2)
                        /\ tabs' = <<NewTab(NoSession)>>
                        /\ activeTabId' = Uid(1)
      /\ rest # <<>> =>
           /\ tabs' = rest
           /\ activeTabId # tabs[i].id => activeTabId' = activeTabId
           /\ activeTabId = tabs[i].id =>
                activeTabId' = rest[IF i <= Len(rest) THEN i ELSE Len(rest)].id
  BY DEF closeTab
<1> HIDE DEF rest
<1>3. CASE rest = <<>>
  <2>1. NoSession \in Sessions \cup {NoSession}
    OBVIOUS
  <2>2. /\ LayoutOK(tabs') /\ Uid(1) \in TabIdsIn(tabs')
        /\ LeavesIn(tabs') = {Leaf(Uid(2), NoSession)}
    BY <1>2, <1>3, <2>1, OneTab
  <2> QED
    BY <1>2, <1>3, <2>2, BlankMore
<1>4. CASE rest # <<>>
  <2>1. Len(rest) \in Nat /\ Len(rest) # 0 /\ i \in Nat /\ i # 0
    BY <1>1, <1>4, LayoutFacts
  <2>2. (IF i <= Len(rest) THEN i ELSE Len(rest)) \in 1 .. Len(rest)
    BY <2>1
  <2>3. \A k \in 1 .. Len(rest) : rest[k].id \in TabIdsIn(rest)
    BY DEF TabIdsIn
  <2>4. activeTabId' \in TabIdsIn(rest)
    BY <1>1, <1>2, <1>4, <2>2, <2>3
  <2> QED
    BY <1>1, <1>2, <1>4, <2>4, FewerLeaves
<1> QED
  BY <1>3, <1>4

\* The number of leaves and its limit are numbers.
LEMMA CountNat ==
  ASSUME NEW root, GoodRoot(root)
  PROVE  Cardinality(DOMAIN root) \in Nat \ {0} /\ MaxLeaves \in Nat
  BY TreeFacts, WorkspaceBounds DEF GoodRoot

\* splitPane.
LEMMA SplitDone ==
  ASSUME LayoutOK(tabs), NEW id, CanSplit(id), NEW session \in Sessions \cup {NoSession},
         splitPane(id, session)
  PROVE  /\ LayoutOK(tabs') /\ TabIdsIn(tabs') = TabIdsIn(tabs)
         /\ activeTabId' = activeTabId /\ maximizedPaneId' = NoId
         /\ LeavesIn(tabs') = LeavesIn(tabs) \cup {Leaf(Uid(1), session)}
<1> DEFINE i == tabForPane(id)
           p == PathOf(tabs[i].root, id)
           leaf == Leaf(Uid(1), session)
           new == SplitAt(tabs[i].root, p, leaf)
<1>1. id \in PaneIds /\ Cardinality(DOMAIN tabs[i].root) < MaxLeaves
  BY DEF CanSplit
<1>2. /\ i \in 1 .. Len(tabs) /\ p \in DOMAIN tabs[i].root
      /\ GoodTab(tabs[i]) /\ GoodRoot(tabs[i].root)
  BY <1>1, TabOfPane
<1>3. /\ HasFresh(1) /\ SetTab(i, new, Uid(1)) /\ activeTabId' = activeTabId
      /\ maximizedPaneId' = NoId
  BY DEF splitPane
<1>4. Uid(1) \in Uids /\ Uid(1) \notin UidsInUse
  BY <1>3, UidFacts
<1>5. leaf \in Leaves /\ leaf.id = Uid(1)
  BY <1>4, LeafType
<1> HIDE DEF i, p, leaf
<1>6. LeafIds(tabs[i].root) \subseteq UidsInUse
  BY <1>2, IdsAre
<1>7. /\ GoodRoot(new) /\ LeafSet(new) = LeafSet(tabs[i].root) \cup {leaf}
      /\ Cardinality(DOMAIN new) <= Cardinality(DOMAIN tabs[i].root) + 1
  BY <1>2, <1>4, <1>5, <1>6, GoodSplit
<1> HIDE DEF new
<1>8. Cardinality(DOMAIN new) <= MaxLeaves
  BY <1>1, <1>2, <1>7, CountNat
<1>9. /\ Uid(1) \in LeafIds(new)
      /\ \A d \in LeafIds(new) : d \in LeafIds(tabs[i].root) \/ d \notin UidsInUse
  BY <1>4, <1>5, <1>7, IdsOfLeaves
<1>10. /\ LayoutOK(tabs') /\ TabIdsIn(tabs') = TabIdsIn(tabs)
       /\ LeavesIn(tabs') = (LeavesIn(tabs) \ LeafSet(tabs[i].root)) \cup LeafSet(new)
  BY <1>2, <1>3, <1>7, <1>8, <1>9, SetTabDone
<1>11. LeafSet(tabs[i].root) \subseteq LeavesIn(tabs)
  BY <1>2 DEF LeavesIn
<1> QED
  BY <1>3, <1>7, <1>10, <1>11 DEF leaf

\* closePane.
LEMMA ClosePaneDone ==
  ASSUME LayoutOK(tabs), activeTabId \in TabIdsIn(tabs), maximizedPaneId \in Uids \cup {NoId},
         NEW id \in PaneIds, closePane(id)
  PROVE  /\ LayoutOK(tabs') /\ activeTabId' \in TabIdsIn(tabs')
         /\ maximizedPaneId' \in Uids \cup {NoId} /\ NoMoreFor(tabs, tabs')
<1> DEFINE i == tabForPane(id)
           p == PathOf(tabs[i].root, id)
           new == removeLeaf(tabs[i].root, p)
<1>1. /\ i \in 1 .. Len(tabs) /\ p \in DOMAIN tabs[i].root
      /\ GoodTab(tabs[i]) /\ GoodRoot(tabs[i].root)
  BY TabOfPane
<1>2. /\ Cardinality(DOMAIN tabs[i].root) = 1 =>
           closeTab(i) /\ maximizedPaneId' = maximizedPaneId
      /\ Cardinality(DOMAIN tabs[i].root) # 1 =>
           /\ SetTab(i, new, firstLeaf(new).id) /\ activeTabId' = activeTabId
           /\ maximizedPaneId' = IF maximizedPaneId = id THEN NoId ELSE maximizedPaneId
  BY DEF closePane
<1> HIDE DEF i, p
<1>3. CASE Cardinality(DOMAIN tabs[i].root) = 1
  BY <1>1, <1>2, <1>3, CloseTabDone
<1>4. CASE Cardinality(DOMAIN tabs[i].root) # 1
  <2>1. /\ GoodRoot(new) /\ LeafSet(new) \subseteq LeafSet(tabs[i].root)
        /\ LeafIds(new) \subseteq LeafIds(tabs[i].root)
        /\ Cardinality(DOMAIN new) <= Cardinality(DOMAIN tabs[i].root)
    BY <1>1, <1>4, GoodRemove
  <2> HIDE DEF new
  <2>2. firstLeaf(new).id \in LeafIds(new)
    BY <2>1, FirstLeaf DEF GoodRoot, LeafIds
  <2>3. Cardinality(DOMAIN new) <= MaxLeaves
    BY <1>1, <2>1, CountNat DEF GoodTab
  <2>4. /\ LayoutOK(tabs') /\ TabIdsIn(tabs') = TabIdsIn(tabs)
        /\ LeavesIn(tabs') = (LeavesIn(tabs) \ LeafSet(tabs[i].root)) \cup LeafSet(new)
    <3>1. \A d \in LeafIds(new) : d \in LeafIds(tabs[i].root) \/ d \notin UidsInUse
      BY <2>1
    <3>2. SetTab(i, new, firstLeaf(new).id)
      BY <1>2, <1>4
    <3> QED
      BY <1>1, <2>1, <2>2, <2>3, <3>1, <3>2, SetTabDone
  <2>5. LeafSet(tabs[i].root) \subseteq LeavesIn(tabs)
    BY <1>1 DEF LeavesIn
  <2>6. LeavesIn(tabs') \subseteq LeavesIn(tabs)
    BY <2>1, <2>4, <2>5
  <2> QED
    BY <1>2, <1>4, <2>4, <2>6, FewerLeaves
<1> QED
  BY <1>3, <1>4

\* focusPane.
LEMMA FocusDone ==
  ASSUME LayoutOK(tabs), maximizedPaneId \in Uids \cup {NoId}, NEW id \in PaneIds, focusPane(id)
  PROVE  /\ LayoutOK(tabs') /\ activeTabId' \in TabIdsIn(tabs')
         /\ maximizedPaneId' \in Uids \cup {NoId} /\ NoMoreFor(tabs, tabs')
<1> DEFINE i == tabForPane(id)
           tab == tabs[i]
<1>1. /\ i \in 1 .. Len(tabs) /\ id \in LeafIds(tab.root) /\ GoodTab(tab)
  BY TabOfPane
<1>2. /\ tabs' = WithTab(tabs, i, WithFocus(tab, id)) /\ activeTabId' = tab.id
      /\ maximizedPaneId' = IF activeTabId # tab.id THEN NoId ELSE maximizedPaneId
  BY DEF focusPane, WithTab, WithFocus
<1> HIDE DEF i
<1>3. WithFocus(tab, id) = Tab(tab.id, tab.root, id)
  BY <1>1, TabExcept
<1>4. tabs' = WithTab(tabs, i, Tab(tabs[i].id, tabs[i].root, id))
  BY <1>2, <1>3
<1>5. GoodRoot(tabs[i].root) /\ Cardinality(DOMAIN tabs[i].root) <= MaxLeaves
  BY <1>1 DEF GoodTab
<1>6. /\ LayoutOK(tabs') /\ TabIdsIn(tabs') = TabIdsIn(tabs)
      /\ LeavesIn(tabs') = (LeavesIn(tabs) \ LeafSet(tabs[i].root)) \cup LeafSet(tabs[i].root)
  BY <1>1, <1>4, <1>5, TabChanged
<1>7. LeavesIn(tabs') \subseteq LeavesIn(tabs) /\ tab.id \in TabIdsIn(tabs)
  BY <1>1, <1>6 DEF LeavesIn, TabIdsIn
<1> QED
  BY <1>2, <1>6, <1>7, FewerLeaves

-----------------------------------------------------------------------------
\* The active tab is one of the tabs, and what is on the screen is one of the panes.
LEMMA ActiveFacts ==
  ASSUME LayoutOK(tabs), activeTabId \in TabIdsIn(tabs)
  PROVE  /\ ActiveIndex \in 1 .. Len(tabs) /\ activeTab = tabs[ActiveIndex]
         /\ activeTab.id = activeTabId
         /\ GoodTab(activeTab) /\ GoodRoot(activeTab.root)
         /\ LeafIds(activeTab.root) \subseteq PaneIds
         /\ activeTab.focus \in PaneIds /\ Shown \subseteq PaneIds /\ PaneIds \subseteq Uids
<1>1. /\ activeTabId \in TabIds /\ DOMAIN tabs = 1 .. Len(tabs) /\ PaneIds \subseteq Uids
      /\ PaneIds = UNION {LeafIds(tabs[i].root) : i \in 1 .. Len(tabs)}
  BY IdsAre
<1>2. \E i \in 1 .. Len(tabs) : tabs[i].id = activeTabId
  BY DEF TabIdsIn
<1>3. /\ IndexOfTab(activeTabId) \in 1 .. Len(tabs)
      /\ tabs[IndexOfTab(activeTabId)].id = activeTabId
  BY <1>1, <1>2 DEF IndexOfTab
<1>4. ActiveIndex = IndexOfTab(activeTabId)
  BY <1>1 DEF ActiveIndex
<1>5. GoodTab(activeTab) /\ GoodRoot(activeTab.root)
  BY <1>3, <1>4, LayoutFacts DEF activeTab
<1>6. LeafIds(activeTab.root) \subseteq PaneIds
  BY <1>1, <1>3, <1>4 DEF activeTab
<1>7. activeTab.focus \in PaneIds
  BY <1>5, <1>6 DEF GoodTab
<1>8. Shown \subseteq PaneIds
  BY <1>6 DEF Shown
<1> QED
  BY <1>1, <1>3, <1>4, <1>5, <1>6, <1>7, <1>8 DEF activeTab

\* movePaneToTab: with the tab it was in, when it was alone there.
LEMMA MoveDone ==
  ASSUME LayoutOK(tabs), activeTabId \in TabIdsIn(tabs), maximizedPaneId \in Uids \cup {NoId},
         NEW id \in PaneIds, NEW t \in 1 .. Len(tabs), t # tabForPane(id),
         Cardinality(DOMAIN tabs[t].root) < MaxLeaves, movePaneToTab(id, t)
  PROVE  /\ LayoutOK(tabs') /\ activeTabId' \in TabIdsIn(tabs')
         /\ maximizedPaneId' \in Uids \cup {NoId} /\ NoMoreFor(tabs, tabs')
<1> DEFINE s == tabForPane(id)
           p == PathOf(tabs[s].root, id)
           old == tabs[s].root[p]
           copy == [LeafOf(tabs[s].root, id) EXCEPT !.id = Uid(1)]
           joined == Join(tabs[t].root, Alone(copy))
           moved == [tabs EXCEPT ![t].root = Join(@, Alone(copy)), ![t].focus = Uid(1)]
           next == removeLeaf(tabs[s].root, p)
<1>1. /\ HasFresh(1)
      /\ Cardinality(DOMAIN tabs[s].root) = 1 =>
           /\ tabs' = RemoveAt(moved, s)
           /\ activeTabId' =
                IF activeTabId # tabs[s].id THEN activeTabId
                ELSE tabs'[IF s <= Len(tabs') THEN s ELSE Len(tabs')].id
           /\ maximizedPaneId' = maximizedPaneId
      /\ Cardinality(DOMAIN tabs[s].root) # 1 =>
           /\ tabs' = [moved EXCEPT ![s].root = next, ![s].focus = firstLeaf(next).id]
           /\ maximizedPaneId' = IF maximizedPaneId = id THEN NoId ELSE maximizedPaneId
           /\ activeTabId' = activeTabId
  BY DEF movePaneToTab
<1>2. moved = WithTab(tabs, t, WithRootFocus(tabs[t], joined, Uid(1)))
  BY DEF WithTab, WithRootFocus
<1>3. [moved EXCEPT ![s].root = next, ![s].focus = firstLeaf(next).id]
        = WithTab(moved, s, WithRootFocus(moved[s], next, firstLeaf(next).id))
  BY DEF WithTab, WithRootFocus
<1>4. /\ s \in 1 .. Len(tabs) /\ p \in DOMAIN tabs[s].root
      /\ GoodTab(tabs[s]) /\ GoodRoot(tabs[s].root) /\ GoodTab(tabs[t]) /\ GoodRoot(tabs[t].root)
  BY TabOfPane, LayoutFacts
<1>5. old \in Leaves /\ old \in LeafSet(tabs[s].root) /\ LeafSet(tabs[s].root) \subseteq LeavesIn(tabs)
  BY <1>4, GoodFacts DEF LeafSet, LeavesIn
<1>6. Uid(1) \in Uids /\ Uid(1) \notin UidsInUse
  BY <1>1, UidFacts
<1>7. copy \in Leaves /\ copy.id = Uid(1) /\ copy.session = old.session
  <2>1. copy = [old EXCEPT !.id = Uid(1)]
    BY DEF LeafOf
  <2> QED
    BY <1>5, <1>6, <2>1 DEF Leaves
<1> HIDE DEF copy, old, s, p
<1>8. LeafIds(tabs[t].root) \subseteq UidsInUse
  BY IdsAre
<1>9. /\ GoodRoot(joined) /\ LeafSet(joined) = LeafSet(tabs[t].root) \cup {copy}
      /\ Cardinality(DOMAIN joined) <= Cardinality(DOMAIN tabs[t].root) + 1
  BY <1>4, <1>6, <1>7, <1>8, GoodJoin
<1> HIDE DEF joined
<1>10. Cardinality(DOMAIN joined) <= MaxLeaves
  BY <1>4, <1>9, CountNat
<1>11. /\ Uid(1) \in LeafIds(joined)
       /\ \A d \in LeafIds(joined) : d \in LeafIds(tabs[t].root) \/ d \notin IdsIn(tabs)
  BY <1>6, <1>7, <1>9, IdsOfLeaves, IdsAre
<1>12. WithRootFocus(tabs[t], joined, Uid(1)) = Tab(tabs[t].id, joined, Uid(1))
  BY <1>4, TabExcept
<1>13. moved = WithTab(tabs, t, Tab(tabs[t].id, joined, Uid(1)))
  BY <1>2, <1>12
<1> HIDE DEF moved
<1>14. /\ LayoutOK(moved) /\ Len(moved) = Len(tabs) /\ TabIdsIn(moved) = TabIdsIn(tabs)
       /\ LeavesIn(moved) = (LeavesIn(tabs) \ LeafSet(tabs[t].root)) \cup LeafSet(joined)
       /\ \A j \in 1 .. Len(tabs) : j # t => moved[j] = tabs[j]
  <2> DEFINE u == Uid(1)
  <2>1. /\ u \in LeafIds(joined)
        /\ \A d \in LeafIds(joined) : d \in LeafIds(tabs[t].root) \/ d \notin IdsIn(tabs)
    BY <1>11
  <2>2. moved = WithTab(tabs, t, Tab(tabs[t].id, joined, u))
    BY <1>13
  <2>3. GoodRoot(joined) /\ Cardinality(DOMAIN joined) <= MaxLeaves
    BY <1>9, <1>10
  <2> HIDE DEF u
  <2> QED
    BY <2>1, <2>2, <2>3, TabChanged
<1>15. moved[s] = tabs[s] /\ s \in 1 .. Len(moved)
  BY <1>4, <1>14 DEF s
<1>16. LeavesIn(moved) = LeavesIn(tabs) \cup {copy}
  <2>1. LeafSet(tabs[t].root) \subseteq LeavesIn(tabs)
    BY DEF LeavesIn
  <2> QED
    BY <1>9, <1>14, <2>1
<1>17. ASSUME \A leaf \in LeavesIn(tabs') : leaf \in LeavesIn(tabs) \ {old} \/ leaf = copy
       PROVE  NoMoreFor(tabs, tabs')
  BY <1>5, <1>7, <1>17, NoMoreMoved DEF NoMoreFor
<1>18. old # copy
  <2>1. old.id \in UidsInUse
    BY <1>4, <1>5, IdsOfLeaves, IdsAre
  <2> QED
    BY <1>6, <1>7, <2>1
<1>19. CASE Cardinality(DOMAIN tabs[s].root) = 1
  <2> DEFINE less == RemoveAt(moved, s)
  <2>1. /\ tabs' = less /\ maximizedPaneId' = maximizedPaneId
        /\ activeTabId # tabs[s].id => activeTabId' = activeTabId
        /\ activeTabId = tabs[s].id =>
             activeTabId' = less[IF s <= Len(less) THEN s ELSE Len(less)].id
    BY <1>1, <1>19
  <2>a. less = RemoveAt(moved, s)
    OBVIOUS
  <2> HIDE DEF less
  <2>2. /\ LayoutOK(less) /\ Len(less) = Len(moved) - 1
        /\ LeavesIn(less) = LeavesIn(moved) \ LeafSet(moved[s].root)
        /\ TabIdsIn(less) = TabIdsIn(moved) \ {moved[s].id}
    BY <1>14, <1>15, <2>a, LayoutRemove
  <2>3. Len(less) \in Nat /\ Len(less) # 0 /\ s \in Nat /\ s # 0
    <3>1. Len(tabs) \in Nat /\ t # s
      BY LayoutFacts DEF s
    <3> QED
      BY <1>4, <1>14, <2>2, <3>1
  <2>4. (IF s <= Len(less) THEN s ELSE Len(less)) \in 1 .. Len(less)
    BY <2>3
  <2>5. \A k \in 1 .. Len(less) : less[k].id \in TabIdsIn(less)
    BY DEF TabIdsIn
  <2>6. activeTabId' \in TabIdsIn(less)
    <3> DEFINE k == IF s <= Len(less) THEN s ELSE Len(less)
    <3>1. k \in 1 .. Len(less) /\ (activeTabId = tabs[s].id => activeTabId' = less[k].id)
      BY <2>1, <2>4
    <3> HIDE DEF k
    <3>2. CASE activeTabId = tabs[s].id
      BY <2>5, <3>1, <3>2
    <3>3. CASE activeTabId # tabs[s].id
      BY <1>14, <1>15, <2>1, <2>2, <3>3
    <3> QED
      BY <3>2, <3>3
  <2>7. \A leaf \in LeavesIn(less) : leaf \in LeavesIn(tabs) \ {old} \/ leaf = copy
    BY <1>5, <1>15, <1>16, <2>2
  <2> QED
    <3>1. tabs' = less
      BY <2>1
    <3>2. NoMoreFor(tabs, tabs')
      BY <1>17, <2>7, <3>1
    <3> QED
      BY <2>1, <2>2, <2>6, <3>1, <3>2
<1>20. CASE Cardinality(DOMAIN tabs[s].root) # 1
  <2>1. /\ GoodRoot(next) /\ LeafSet(next) = LeafSet(tabs[s].root) \ {old}
        /\ LeafIds(next) \subseteq LeafIds(tabs[s].root)
        /\ Cardinality(DOMAIN next) <= Cardinality(DOMAIN tabs[s].root)
    BY <1>4, <1>20, GoodRemove DEF old
  <2> HIDE DEF next
  <2>2. firstLeaf(next).id \in LeafIds(next)
    BY <2>1, FirstLeaf DEF GoodRoot, LeafIds
  <2> DEFINE first == firstLeaf(next).id
  <2>3. Cardinality(DOMAIN next) <= MaxLeaves
    BY <1>4, <2>1, CountNat DEF GoodTab
  <2>4. tabs' = WithTab(moved, s, WithRootFocus(moved[s], next, first))
    BY <1>1, <1>3, <1>20
  <2> HIDE DEF first
  <2>5. WithRootFocus(moved[s], next, first) = Tab(moved[s].id, next, first)
    BY <1>4, <1>15, TabExcept
  <2>6. tabs' = WithTab(moved, s, Tab(moved[s].id, next, first))
    BY <2>4, <2>5
  <2>7. \A d \in LeafIds(next) : d \in LeafIds(moved[s].root) \/ d \notin IdsIn(moved)
    BY <1>15, <2>1
  <2>8. /\ LayoutOK(tabs') /\ TabIdsIn(tabs') = TabIdsIn(moved)
        /\ LeavesIn(tabs') = (LeavesIn(moved) \ LeafSet(moved[s].root)) \cup LeafSet(next)
    BY <1>14, <1>15, <2>1, <2>2, <2>3, <2>6, <2>7, TabChanged DEF first
  <2>9. \A leaf \in LeavesIn(tabs') : leaf \in LeavesIn(tabs) \ {old} \/ leaf = copy
    BY <1>5, <1>15, <1>16, <2>1, <2>8
  <2> QED
    BY <1>1, <1>14, <1>17, <1>20, <2>8, <2>9
<1> QED
  BY <1>19, <1>20

\* applyPreset.
LEMMA PresetDone ==
  ASSUME LayoutOK(tabs), NEW i \in 1 .. Len(tabs), NEW preset \in DOMAIN PresetPaths,
         Len(PresetPaths[preset]) <= MaxLeaves, HasFresh(Len(PresetPaths[preset])),
         NEW root, root = PresetRoot(preset, tabs[i].root),
         SetTab(i, root, firstLeaf(root).id)
  PROVE  LayoutOK(tabs') /\ TabIdsIn(tabs') = TabIdsIn(tabs) /\ NoMoreFor(tabs, tabs')
<1>1. GoodTab(tabs[i]) /\ GoodRoot(tabs[i].root) /\ LeafIds(tabs[i].root) \subseteq UidsInUse
  BY LayoutFacts, IdsAre
<1>2. /\ GoodRoot(root)
      /\ \A id \in LeafIds(root) : id \in LeafIds(tabs[i].root) \/ id \notin UidsInUse
      /\ \A leaf \in LeafSet(root) : leaf \in LeafSet(tabs[i].root) \/ leaf.session = NoSession
      /\ Cardinality(DOMAIN root) <= Len(PresetPaths[preset])
  BY <1>1, GoodPreset
<1>3. Len(PresetPaths[preset]) \in 1 .. 4
  <2> DEFINE blank == [q \in Range(PresetPaths[preset]) |-> NoSession]
  <2>1. DOMAIN blank = Range(PresetPaths[preset])
    OBVIOUS
  <2> QED
    BY <2>1, PresetTrees
<1>4. Cardinality(DOMAIN root) <= MaxLeaves
  BY <1>2, <1>3, CountNat
<1>5. firstLeaf(root).id \in LeafIds(root)
  BY <1>2, FirstLeaf DEF GoodRoot, LeafIds
<1>6. /\ LayoutOK(tabs') /\ TabIdsIn(tabs') = TabIdsIn(tabs)
      /\ LeavesIn(tabs') = (LeavesIn(tabs) \ LeafSet(tabs[i].root)) \cup LeafSet(root)
  BY <1>2, <1>4, <1>5, SetTabDone
<1>7. LeafSet(tabs[i].root) \subseteq LeavesIn(tabs)
  BY DEF LeavesIn
<1>8. ASSUME NEW s \in Sessions
      PROVE  NoMore(tabs, tabs', s)
  <2>1. \A leaf \in LeavesIn(tabs') : leaf \in LeavesIn(tabs) \/ leaf.session # s
    BY <1>2, <1>6, <1>7, NoSessionIsNone
  <2> QED
    BY <2>1, NoMoreKept
<1> QED
  BY <1>6, <1>8 DEF NoMoreFor

-----------------------------------------------------------------------------
(***************************************************************************)
(* What the user does.                                                     *)
(***************************************************************************)
Ready ==
  /\ LayoutOK(tabs) /\ activeTabId \in TabIdsIn(tabs)
  /\ maximizedPaneId \in Uids \cup {NoId} /\ alive \subseteq Sessions
Steady ==
  /\ LayoutOK(tabs') /\ activeTabId' \in TabIdsIn(tabs')
  /\ maximizedPaneId' \in Uids \cup {NoId} /\ opened \subseteq opened'
  /\ \A s \in Sessions \ (Existing \cup opened') : NoMore(tabs, tabs', s)

\* A step that lets no session be shown more often.
LEMMA SteadyIf ==
  ASSUME LayoutOK(tabs'), activeTabId' \in TabIdsIn(tabs'),
         maximizedPaneId' \in Uids \cup {NoId}, opened' = opened, NoMoreFor(tabs, tabs')
  PROVE  Steady
  BY DEF Steady, NoMoreFor

\* NewBlankTab leaves the page in order.
LEMMA NewBlankTabSteady ==
  ASSUME Ready, NewBlankTab
  PROVE  Steady
<1>1. /\ LayoutOK(tabs) /\ Len(tabs) < MaxTabs /\ createTab(NoSession) /\ opened' = opened
      /\ maximizedPaneId \in Uids \cup {NoId}
  BY DEF NewBlankTab, Ready
<1>2. NoSession \in Sessions \cup {NoSession}
  OBVIOUS
<1>3. /\ LayoutOK(tabs') /\ activeTabId' \in TabIdsIn(tabs')
      /\ maximizedPaneId' = maximizedPaneId
      /\ LeavesIn(tabs') = LeavesIn(tabs) \cup {Leaf(Uid(2), NoSession)}
  BY <1>1, <1>2, CreateTabDone
<1>4. NoMoreFor(tabs, tabs')
  BY <1>3, BlankMore
<1> QED
  BY <1>1, <1>3, <1>4, SteadyIf

\* CloseTab leaves the page in order.
LEMMA CloseTabSteady ==
  ASSUME Ready, CloseTab
  PROVE  Steady
<1>1. PICK i \in DOMAIN tabs : closeTab(i)
  BY DEF CloseTab
<1>2. i \in 1 .. Len(tabs)
  BY IdsAre DEF Ready
<1>3. LayoutOK(tabs') /\ activeTabId' \in TabIdsIn(tabs') /\ NoMoreFor(tabs, tabs')
  BY <1>1, <1>2, CloseTabDone DEF Ready
<1> QED
  BY <1>3, SteadyIf DEF Ready, CloseTab

\* The same tabs show the same.
LEMMA SameLeaves ==
  ASSUME tabs' = tabs
  PROVE  NoMoreFor(tabs, tabs')
  BY FewerLeaves

\* ActivateTab leaves the page in order.
LEMMA ActivateTabSteady ==
  ASSUME Ready, ActivateTab
  PROVE  Steady
<1>1. tabs' = tabs /\ opened' = opened /\ activeTabId' \in TabIds /\ maximizedPaneId' = NoId
  BY DEF ActivateTab
<1>2. LayoutOK(tabs') /\ activeTabId' \in TabIdsIn(tabs')
  BY <1>1, IdsAre DEF Ready
<1> QED
  BY <1>1, <1>2, SameLeaves, SteadyIf

\* FocusPane leaves the page in order.
LEMMA FocusPaneSteady ==
  ASSUME Ready, FocusPane
  PROVE  Steady
<1>1. PICK id \in Shown \cup LeafIds(activeTab.root) : focusPane(id)
  BY DEF FocusPane
<1>2. id \in PaneIds
  BY ActiveFacts DEF Ready
<1>3. /\ LayoutOK(tabs') /\ activeTabId' \in TabIdsIn(tabs')
      /\ maximizedPaneId' \in Uids \cup {NoId} /\ NoMoreFor(tabs, tabs')
  BY <1>1, <1>2, FocusDone DEF Ready
<1> QED
  BY <1>3, SteadyIf DEF FocusPane

\* MovePaneToTab leaves the page in order.
LEMMA MovePaneToTabSteady ==
  ASSUME Ready, MovePaneToTab
  PROVE  Steady
<1>1. PICK id \in Shown, t \in DOMAIN tabs \ {ActiveIndex} :
        /\ t # tabForPane(id)
        /\ Cardinality(DOMAIN tabs[t].root) < MaxLeaves
        /\ movePaneToTab(id, t)
  BY DEF MovePaneToTab
<1>2. id \in PaneIds /\ t \in 1 .. Len(tabs)
  BY ActiveFacts, IdsAre DEF Ready
<1>3. /\ LayoutOK(tabs') /\ activeTabId' \in TabIdsIn(tabs')
      /\ maximizedPaneId' \in Uids \cup {NoId} /\ NoMoreFor(tabs, tabs')
  BY <1>1, <1>2, MoveDone DEF Ready
<1> QED
  BY <1>3, SteadyIf DEF MovePaneToTab

\* ClosePane leaves the page in order.
LEMMA ClosePaneSteady ==
  ASSUME Ready, ClosePane
  PROVE  Steady
<1>1. PICK id \in Shown : closePane(id)
  BY DEF ClosePane
<1>2. id \in PaneIds
  BY ActiveFacts DEF Ready
<1>3. /\ LayoutOK(tabs') /\ activeTabId' \in TabIdsIn(tabs')
      /\ maximizedPaneId' \in Uids \cup {NoId} /\ NoMoreFor(tabs, tabs')
  BY <1>1, <1>2, ClosePaneDone DEF Ready
<1> QED
  BY <1>3, SteadyIf DEF ClosePane

\* ToggleMaximize leaves the page in order.
LEMMA ToggleMaximizeSteady ==
  ASSUME Ready, ToggleMaximize
  PROVE  Steady
<1>1. PICK id \in Shown \cup {activeTab.focus} :
        maximizedPaneId' = IF maximizedPaneId = id THEN NoId ELSE id
  BY DEF ToggleMaximize
<1>2. id \in Uids
  BY ActiveFacts DEF Ready
<1>3. tabs' = tabs /\ activeTabId' = activeTabId /\ opened' = opened
  BY DEF ToggleMaximize
<1>4. LayoutOK(tabs') /\ activeTabId' \in TabIdsIn(tabs') /\ maximizedPaneId' \in Uids \cup {NoId}
  BY <1>1, <1>2, <1>3 DEF Ready
<1> QED
  BY <1>3, <1>4, SameLeaves, SteadyIf

\* ApplyPreset leaves the page in order.
LEMMA ApplyPresetSteady ==
  ASSUME Ready, ApplyPreset
  PROVE  Steady
<1>1. PICK preset \in DOMAIN PresetPaths :
        LET root == PresetRoot(preset, activeTab.root)
        IN /\ Len(PresetPaths[preset]) <= MaxLeaves
           /\ HasFresh(Len(PresetPaths[preset]))
           /\ SetTab(ActiveIndex, root, firstLeaf(root).id)
  BY DEF ApplyPreset
<1> DEFINE i == ActiveIndex
           root == PresetRoot(preset, tabs[i].root)
<1>2. i \in 1 .. Len(tabs) /\ activeTab = tabs[i]
  BY ActiveFacts DEF Ready
<1>3. /\ Len(PresetPaths[preset]) <= MaxLeaves
      /\ HasFresh(Len(PresetPaths[preset]))
      /\ SetTab(i, root, firstLeaf(root).id)
      /\ root = PresetRoot(preset, tabs[i].root)
  BY <1>1, <1>2
<1> HIDE DEF i, root
<1>4. LayoutOK(tabs') /\ TabIdsIn(tabs') = TabIdsIn(tabs) /\ NoMoreFor(tabs, tabs')
  BY <1>2, <1>3, PresetDone DEF Ready
<1>5. activeTabId' = activeTabId /\ maximizedPaneId' = maximizedPaneId /\ opened' = opened
  BY DEF ApplyPreset
<1> QED
  BY <1>4, <1>5, SteadyIf DEF Ready

\* MoveTab leaves the page in order.
LEMMA MoveTabSteady ==
  ASSUME Ready, MoveTab
  PROVE  Steady
<1>1. PICK from \in DOMAIN tabs, to \in DOMAIN tabs :
        tabs' = InsertAt(RemoveAt(tabs, from), to, tabs[from])
  BY DEF MoveTab
<1>2. from \in 1 .. Len(tabs) /\ to \in 1 .. Len(tabs)
  BY IdsAre DEF Ready
<1>3. LayoutOK(tabs') /\ LeavesIn(tabs') = LeavesIn(tabs) /\ TabIdsIn(tabs') = TabIdsIn(tabs)
  BY <1>1, <1>2, LayoutMove DEF Ready
<1>4. NoMoreFor(tabs, tabs')
  BY <1>3, FewerLeaves
<1>5. activeTabId' = activeTabId /\ maximizedPaneId' = maximizedPaneId /\ opened' = opened
  BY DEF MoveTab
<1> QED
  BY <1>3, <1>4, <1>5, SteadyIf DEF Ready

-----------------------------------------------------------------------------
Swapped(root, p, q, x, y) == [root EXCEPT ![p].session = x, ![q].session = y]

\* GoodSwap, for SwapWithNext.
LEMMA GoodSwapped ==
  ASSUME NEW root, GoodRoot(root), NEW p \in DOMAIN root, NEW q \in DOMAIN root, p # q,
         NEW new, new = Swapped(root, p, q, root[q].session, root[p].session)
  PROVE  /\ GoodRoot(new) /\ LeafIds(new) = LeafIds(root) /\ DOMAIN new = DOMAIN root
         /\ LeafSet(new) = (LeafSet(root) \ {root[p], root[q]})
              \cup {Leaf(root[p].id, root[q].session), Leaf(root[q].id, root[p].session)}
  BY GoodSwap DEF Swapped

\* The last of two trees counts.
LEMMA RootTwice ==
  ASSUME NEW tab, GoodTab(tab), NEW r, NEW s
  PROVE  WithRoot(WithRoot(tab, r), s) = WithRoot(tab, s)
<1> DEFINE mid == [tab EXCEPT !.root = r]
<1>1. tab \in [id : Uids, root : Roots, focus : Uids]
  BY DEF GoodTab
<1>2. mid \in [id : Uids, root : {r}, focus : Uids] /\ mid.id = tab.id /\ mid.focus = tab.focus
  BY <1>1
<1>3. [tab EXCEPT !.root = s] = Tab(tab.id, s, tab.focus)
  BY <1>1 DEF Tab
<1> HIDE DEF mid
<1>4. [mid EXCEPT !.root = s] = Tab(mid.id, s, mid.focus)
  BY <1>2 DEF Tab
<1>5. [mid EXCEPT !.root = s] = [tab EXCEPT !.root = s]
  BY <1>2, <1>3, <1>4
<1> QED
  BY <1>5 DEF WithRoot, mid

\* The next place of a list that goes round.
LEMMA NextInRing ==
  ASSUME NEW n \in Nat, NEW size \in Nat \ {0}
  PROVE  (n % size) + 1 \in 1 .. size
  OBVIOUS

\* SwapWithNext leaves the page in order.
LEMMA SwapWithNextSteady ==
  ASSUME Ready, SwapWithNext
  PROVE  Steady
<1> DEFINE i == ActiveIndex
           root == tabs[i].root
           leaves == leavesOf(root)
<1>1. i \in 1 .. Len(tabs) /\ activeTab = tabs[i] /\ GoodTab(tabs[i]) /\ GoodRoot(root)
  BY ActiveFacts DEF Ready
<1>2. PICK id \in Shown \cap LeafIds(activeTab.root) :
       LET leaves_1 == leavesOf(activeTab.root)
           n == CHOOSE k \in DOMAIN leaves_1 : leaves_1[k].id = id
           other == leaves_1[(n % Len(leaves_1)) + 1]
           mine == PathOf(activeTab.root, id)
           its == PathOf(activeTab.root, other.id)
       IN /\ other.id # id
          /\ tabs' = [tabs EXCEPT ![ActiveIndex].root[mine].session = other.session,
                                  ![ActiveIndex].root[its].session = leaves_1[n].session]
  BY DEF SwapWithNext
<1> DEFINE n == CHOOSE k \in DOMAIN leaves : leaves[k].id = id
           other == leaves[(n % Len(leaves)) + 1]
           p == PathOf(root, id)
           q == PathOf(root, other.id)
           new == Swapped(root, p, q, other.session, leaves[n].session)
<1>3. /\ other.id # id
      /\ tabs' = [tabs EXCEPT ![i].root[p].session = other.session,
                              ![i].root[q].session = leaves[n].session]
  BY <1>1, <1>2
<1>4. tabs' = WithTab(tabs, i, WithRoot(tabs[i], new))
  <2> DEFINE x == other.session
             y == leaves[n].session
             r == [root EXCEPT ![p].session = x]
             some == [tabs EXCEPT ![i].root = r]
  <2>1. /\ i \in DOMAIN tabs /\ tabs[i] \in [id : Uids, root : Roots, focus : Uids]
        /\ root = tabs[i].root
    BY <1>1, IdsAre DEF Ready, GoodTab
  <2>2. new = [r EXCEPT ![q].session = y]
    BY DEF Swapped
  <2>3. tabs' = [some EXCEPT ![i].root[q].session = y]
    BY <1>3
  <2>4. some[i].root = r /\ some[i] = WithRoot(tabs[i], r)
    BY <2>1 DEF WithRoot
  <2>5. tabs' = [some EXCEPT ![i] = WithRoot(some[i], [some[i].root EXCEPT ![q].session = y])]
    BY <2>3 DEF WithRoot
  <2> DEFINE tab == tabs[i]
  <2>a. GoodTab(tab)
    BY <1>1
  <2> HIDE DEF r, i, p, q, x, y, new, tab
  <2>b. WithRoot(WithRoot(tab, r), new) = WithRoot(tab, new)
    BY <2>a, RootTwice
  <2>6. WithRoot(WithRoot(tabs[i], r), new) = WithRoot(tabs[i], new)
    BY <2>b DEF tab
  <2>7. tabs' = [some EXCEPT ![i] = WithRoot(tabs[i], new)]
    BY <2>2, <2>4, <2>5, <2>6
  <2> QED
    BY <2>7 DEF WithTab
<1>5. id \in LeafIds(root)
  BY <1>1
<1> HIDE DEF i, root, leaves
<1>6. /\ Len(leaves) \in Nat \ {0} /\ DOMAIN leaves = 1 .. Len(leaves)
      /\ \A k \in DOMAIN leaves : leaves[k] \in LeafSet(root)
      /\ \A leaf \in LeafSet(root) : \E k \in DOMAIN leaves : leaves[k] = leaf
  BY <1>1, ListFacts DEF leaves
<1>7. n \in DOMAIN leaves /\ leaves[n].id = id
  <2>1. \E k \in DOMAIN leaves : leaves[k].id = id
    BY <1>5, <1>6, IdsOfLeaves
  <2> QED
    BY <2>1
<1>8. leaves[n] \in LeafSet(root) /\ other \in LeafSet(root)
  <2>1. (n % Len(leaves)) + 1 \in 1 .. Len(leaves)
    BY <1>6, <1>7, NextInRing
  <2> QED
    BY <1>6, <1>7, <2>1
<1> HIDE DEF n, other
<1>9. p \in DOMAIN root /\ root[p].id = id /\ q \in DOMAIN root /\ root[q].id = other.id
  <2>1. other.id \in LeafIds(root)
    BY <1>8, IdsOfLeaves
  <2> QED
    BY <1>1, <1>5, <2>1, GoodFacts
<1>10. root[p] = leaves[n] /\ root[q] = other /\ p # q
  <2>1. root[p] \in LeafSet(root) /\ root[q] \in LeafSet(root)
    BY <1>9 DEF LeafSet
  <2> QED
    BY <1>1, <1>3, <1>7, <1>8, <1>9, <2>1, GoodFacts
<1> HIDE DEF p, q
<1>11. new = Swapped(root, p, q, root[q].session, root[p].session)
  BY <1>10
<1> HIDE DEF new
<1>12. /\ GoodRoot(new) /\ LeafIds(new) = LeafIds(root) /\ DOMAIN new = DOMAIN root
       /\ LeafSet(new) = (LeafSet(root) \ {root[p], root[q]})
            \cup {Leaf(root[p].id, root[q].session), Leaf(root[q].id, root[p].session)}
  BY <1>1, <1>9, <1>10, <1>11, GoodSwapped
<1>13. WithRoot(tabs[i], new) = Tab(tabs[i].id, new, tabs[i].focus)
  BY <1>1, TabExcept
<1>14. tabs' = WithTab(tabs, i, Tab(tabs[i].id, new, tabs[i].focus))
  BY <1>4, <1>13
<1>15. /\ tabs[i].focus \in LeafIds(new) /\ Cardinality(DOMAIN new) <= MaxLeaves
       /\ LeafIds(new) = LeafIds(tabs[i].root)
  BY <1>1, <1>12 DEF GoodTab, root
<1>16. /\ LayoutOK(tabs') /\ TabIdsIn(tabs') = TabIdsIn(tabs)
       /\ LeavesIn(tabs') = (LeavesIn(tabs) \ LeafSet(tabs[i].root)) \cup LeafSet(new)
  BY <1>1, <1>12, <1>14, <1>15, TabChanged DEF Ready
<1>17. /\ root[p] \in LeavesIn(tabs) /\ root[q] \in LeavesIn(tabs) /\ root[p] # root[q]
       /\ LeafSet(root) \subseteq LeavesIn(tabs) /\ root = tabs[i].root
  BY <1>1, <1>3, <1>9 DEF LeavesIn, LeafSet, root
<1> DEFINE k == root[p]
           l == root[q]
           m == Leaf(k.id, l.session)
           o == Leaf(l.id, k.session)
<1>18. m.session = l.session /\ o.session = k.session
  BY DEF Leaf
<1>19. \A leaf \in LeavesIn(tabs') : leaf \in LeavesIn(tabs) \ {k, l} \/ leaf = m \/ leaf = o
  <2>1. k \in LeafSet(root) /\ l \in LeafSet(root)
    BY <1>9 DEF LeafSet
  <2> QED
    BY <1>12, <1>16, <1>17, <2>1
<1> HIDE DEF m, o, k, l
<1>20. NoMoreFor(tabs, tabs')
  <2> SUFFICES ASSUME NEW s \in Sessions
               PROVE  NoMore(tabs, tabs', s)
    BY DEF NoMoreFor
  <2>1. k \in LeavesIn(tabs) /\ l \in LeavesIn(tabs) /\ k # l
    BY <1>17 DEF k, l
  <2> QED
    BY <1>18, <1>19, <2>1, NoMoreSwapped
<1>21. activeTabId' = activeTabId /\ maximizedPaneId' = maximizedPaneId /\ opened' = opened
  BY DEF SwapWithNext
<1> QED
  BY <1>16, <1>20, <1>21, SteadyIf DEF Ready

\* SetLeaf shows its session once more than before, and no other session more.
LEMMA ShownOnce ==
  ASSUME LayoutOK(tabs), NEW id \in PaneIds, NEW x \in Sessions, SetLeaf(id, x)
  PROVE  /\ LayoutOK(tabs') /\ TabIdsIn(tabs') = TabIdsIn(tabs)
         /\ \A s : s # x => NoMore(tabs, tabs', s)
         /\ ~Shows(tabs, x) => AtMostOne(tabs', x)
         /\ Shows(tabs', x)
<1> DEFINE new == Leaf(id, x)
<1>1. PICK old \in LeavesIn(tabs) :
        /\ LayoutOK(tabs') /\ TabIdsIn(tabs') = TabIdsIn(tabs)
        /\ LeavesIn(tabs') = (LeavesIn(tabs) \ {old}) \cup {new}
  BY LeafSetDone
<1>2. new.session = x
  BY DEF Leaf
<1> HIDE DEF new
<1>3. ASSUME NEW s, s # x
      PROVE  NoMore(tabs, tabs', s)
  <2>1. \A leaf \in LeavesIn(tabs') : leaf \in LeavesIn(tabs) \/ leaf.session # s
    BY <1>1, <1>2, <1>3
  <2> QED
    BY <2>1, NoMoreKept
<1>4. ASSUME ~Shows(tabs, x)
      PROVE  AtMostOne(tabs', x)
  BY <1>1, <1>2, <1>4 DEF Shows, AtMostOne
<1>5. Shows(tabs', x)
  BY <1>1, <1>2 DEF Shows
<1> QED
  BY <1>1, <1>3, <1>4, <1>5

\* Choose leaves the page in order.
LEMMA ChooseSteady ==
  ASSUME Ready, Choose
  PROVE  Steady
<1>1. PICK id \in Shown, s \in Listed :
        SetLeaf(id, s) /\ opened' = opened \cup ({s} \ Existing)
  BY DEF Choose
<1>2. id \in PaneIds /\ s \in Sessions
  BY ActiveFacts DEF Ready, Listed
<1>3. /\ LayoutOK(tabs') /\ TabIdsIn(tabs') = TabIdsIn(tabs)
      /\ \A x : x # s => NoMore(tabs, tabs', x)
  BY <1>1, <1>2, ShownOnce DEF Ready
<1>4. activeTabId' = activeTabId /\ maximizedPaneId' = maximizedPaneId
  BY DEF Choose
<1> QED
  BY <1>1, <1>3, <1>4 DEF Steady, Ready

-----------------------------------------------------------------------------
CopyOf(root) ==
  LET leaves == leavesOf(root)
      Nth(p) == CHOOSE n \in DOMAIN leaves : leaves[n] = root[p]
  IN [p \in DOMAIN root |-> [root[p] EXCEPT !.id = Uid(1 + Nth(p))]]

\* GoodCopy, for DuplicateTab.
LEMMA GoodCopied ==
  ASSUME NEW root, GoodRoot(root), HasFresh(1 + Len(leavesOf(root))), NEW new, new = CopyOf(root)
  PROVE  /\ GoodRoot(new) /\ DOMAIN new = DOMAIN root
         /\ \A id \in LeafIds(new) : id \notin UidsInUse /\ id # Uid(1)
         /\ \A leaf \in LeafSet(new) : \E n \in DOMAIN leavesOf(root) :
              leaf.session = leavesOf(root)[n].session
  BY GoodCopy DEF CopyOf

\* DuplicateTab leaves the page in order.
LEMMA DuplicateTabSteady ==
  ASSUME Ready, DuplicateTab
  PROVE  Steady
<1>1. PICK i \in DOMAIN tabs :
        /\ HasFresh(1 + Len(leavesOf(tabs[i].root)))
        /\ tabs' = Append(tabs, Tab(Uid(1), CopyOf(tabs[i].root),
                                    firstLeaf(CopyOf(tabs[i].root)).id))
        /\ opened' = opened \cup ({leavesOf(tabs[i].root)[n].session :
                                     n \in DOMAIN leavesOf(tabs[i].root)} \cap (Sessions \ Existing))
  BY DEF DuplicateTab, CopyOf
<1> DEFINE root == tabs[i].root
           leaves == leavesOf(root)
           new == CopyOf(root)
           first == firstLeaf(new).id
           tab == Tab(Uid(1), new, first)
<1>2. HasFresh(1 + Len(leaves)) /\ new = CopyOf(root) /\ tabs' = Append(tabs, tab)
  BY <1>1
<1>3. \A n \in DOMAIN leaves : leaves[n].session \in Sessions \ Existing =>
                                  leaves[n].session \in opened'
  BY <1>1
<1>4. GoodTab(tabs[i]) /\ GoodRoot(root) /\ Cardinality(DOMAIN root) <= MaxLeaves
  BY IdsAre, LayoutFacts DEF Ready, GoodTab
<1>5. Len(leaves) \in Nat
  BY <1>4, ListFacts
<1>6. Uid(1) \in Uids /\ Uid(1) \notin UidsInUse
  <2>1. 1 + Len(leaves) \in Nat /\ 1 \in 1 .. 1 + Len(leaves)
    BY <1>5
  <2> QED
    BY <1>2, <2>1, UidFacts
<1>7. /\ GoodRoot(new) /\ DOMAIN new = DOMAIN root
      /\ \A id \in LeafIds(new) : id \notin UidsInUse /\ id # Uid(1)
      /\ \A leaf \in LeafSet(new) : \E n \in DOMAIN leaves : leaf.session = leaves[n].session
  BY <1>2, <1>4, GoodCopied
<1> HIDE DEF root, leaves, new
<1>8. first \in LeafIds(new) /\ first \in Uids /\ new \in Roots
  BY <1>7, FirstLeaf, GoodFacts DEF GoodRoot, LeafIds
<1> HIDE DEF first
<1>9. /\ tab.id = Uid(1) /\ tab.root = new /\ tab.focus = first
      /\ tab \in [id : Uids, root : Roots, focus : Uids]
  BY <1>6, <1>8 DEF Tab
<1> HIDE DEF tab
<1>10. GoodTab(tab)
  BY <1>4, <1>7, <1>8, <1>9 DEF GoodTab
<1>11. \A j \in 1 .. Len(tabs) : IdsOf(tab) \cap IdsOf(tabs[j]) = {}
  <2>1. \A j \in 1 .. Len(tabs) : IdsOf(tabs[j]) \subseteq UidsInUse
    BY IdsAre DEF IdsIn, Ready
  <2> QED
    BY <1>6, <1>7, <1>9, <2>1 DEF IdsOf
<1>12. Len(tabs) < MaxTabs /\ activeTabId' = Uid(1) /\ maximizedPaneId' = NoId
  BY DEF DuplicateTab
<1>13. /\ LayoutOK(tabs') /\ LeavesIn(tabs') = LeavesIn(tabs) \cup LeafSet(new)
       /\ TabIdsIn(tabs') = TabIdsIn(tabs) \cup {Uid(1)}
  BY <1>2, <1>9, <1>10, <1>11, <1>12, LayoutAppend DEF Ready
<1>14. opened \subseteq opened'
  BY <1>1
<1>15. ASSUME NEW s \in Sessions \ (Existing \cup opened')
       PROVE  NoMore(tabs, tabs', s)
  <2>1. \A leaf \in LeavesIn(tabs') : leaf \in LeavesIn(tabs) \/ leaf.session # s
    BY <1>3, <1>7, <1>13
  <2> QED
    BY <2>1, NoMoreKept
<1> QED
  BY <1>12, <1>13, <1>14, <1>15 DEF Steady

\* A nonempty set of numbers has a least one.
LEMMA LeastNumber ==
  ASSUME NEW S \in SUBSET Nat, S # {}
  PROVE  \E i \in S : \A j \in S : i <= j
<1> DEFINE R == OpToRel(<, Nat)
<1>1. IsWellFoundedOn(R, Nat)
  BY NatLessThanWellFounded
<1>2. \A a, b \in Nat : a < b => <<a, b>> \in R
  BY DEF OpToRel
<1> HIDE DEF R
<1>3. PICK x \in S : \A y \in S : ~ (<<y, x>> \in R)
  BY <1>1, WFMin
<1>4. \A y \in S : ~ (y < x)
  BY <1>2, <1>3, Zenon
<1> QED
  BY <1>4, SMT

\* Min of a set of numbers.
LEMMA MinOfNumbers ==
  ASSUME NEW S \in SUBSET Nat, S # {}
  PROVE  Min(S) \in S /\ \A j \in S : Min(S) <= j
<1>1. \E i \in S : \A j \in S : i <= j
  BY LeastNumber
<1> QED
  BY <1>1 DEF Min

\* The pane that OpenSession goes to exists.
LEMMA FirstPane ==
  ASSUME LayoutOK(tabs), NEW s, Bound(s)
  PROVE  FirstPaneId(s) \in PaneIds
<1> DEFINE N == {n \in DOMAIN tabs : \E p \in DOMAIN tabs[n].root : tabs[n].root[p].session = s}
           Is(n) == /\ \E p \in DOMAIN tabs[n].root : tabs[n].root[p].session = s
                    /\ \A m \in 1 .. n - 1 :
                         \A p \in DOMAIN tabs[m].root : tabs[m].root[p].session # s
           i == CHOOSE n \in DOMAIN tabs : Is(n)
           leaves == leavesOf(tabs[i].root)
           K == {k \in 1 .. Len(leaves) : leaves[k].session = s}
<1>1. /\ DOMAIN tabs = 1 .. Len(tabs) /\ Len(tabs) \in Nat
      /\ PaneIds = UNION {LeafIds(tabs[j].root) : j \in 1 .. Len(tabs)}
  BY IdsAre
<1>2. N \in SUBSET Nat /\ N # {}
  BY <1>1 DEF Bound, allLeaves
<1>3. PICK n \in N : \A m \in N : n <= m
  BY <1>2, LeastNumber
<1>4. n \in DOMAIN tabs /\ Is(n)
  <2>1. \A m \in 1 .. n - 1 : m \in DOMAIN tabs /\ m \notin N
    BY <1>1, <1>2, <1>3
  <2> QED
    BY <1>3, <2>1
<1> HIDE DEF Is
<1>5. i \in DOMAIN tabs /\ Is(i)
  BY <1>4
<1> HIDE DEF i
<1>6. GoodRoot(tabs[i].root) /\ \E leaf \in LeafSet(tabs[i].root) : leaf.session = s
  BY <1>1, <1>5, LayoutFacts DEF Is, LeafSet
<1>7. /\ Len(leaves) \in Nat /\ DOMAIN leaves = 1 .. Len(leaves)
      /\ \A k \in DOMAIN leaves : leaves[k] \in LeafSet(tabs[i].root)
      /\ \A leaf \in LeafSet(tabs[i].root) : \E k \in DOMAIN leaves : leaves[k] = leaf
  BY <1>6, ListFacts
<1>8. FirstPaneId(s) = leaves[SelectInSeq(leaves, LAMBDA leaf : leaf.session = s)].id
  BY DEF FirstPaneId, i, Is
<1>9. SelectInSeq(leaves, LAMBDA leaf : leaf.session = s) = IF K # {} THEN Min(K) ELSE 0
  BY DEF SelectInSeq
<1> HIDE DEF leaves
<1>10. K \in SUBSET Nat /\ K # {}
  BY <1>6, <1>7
<1>11. Min(K) \in K
  BY <1>10, MinOfNumbers
<1>12. leaves[Min(K)] \in LeafSet(tabs[i].root)
  BY <1>7, <1>11
<1>13. leaves[Min(K)].id \in PaneIds
  <2> DEFINE root == tabs[i].root
             leaf == leaves[Min(K)]
  <2>1. LeafIds(root) = {l.id : l \in LeafSet(root)} /\ leaf \in LeafSet(root)
    BY <1>12, IdsOfLeaves
  <2>2. LeafIds(root) \subseteq PaneIds
    BY <1>1, <1>5
  <2> HIDE DEF root, leaf
  <2>3. leaf.id \in LeafIds(root)
    BY <2>1
  <2> QED
    BY <2>2, <2>3 DEF leaf
<1> QED
  BY <1>8, <1>9, <1>10, <1>13

\* OpenSession leaves the page in order.
LEMMA OpenSessionSteady ==
  ASSUME Ready, OpenSession
  PROVE  Steady
<1>1. PICK s \in Listed :
        /\ opened' = opened \cup ({s} \ Existing)
        /\ \/ /\ SetLeaf(activeTab.focus, s)
              /\ UNCHANGED <<activeTabId, maximizedPaneId>>
           \/ Bound(s) /\ focusPane(FirstPaneId(s))
           \/ ~Bound(s) /\ Len(tabs) < MaxTabs /\ createTab(s)
  BY DEF OpenSession
<1>2. /\ s \in Sessions /\ LayoutOK(tabs) /\ activeTab.focus \in PaneIds
      /\ maximizedPaneId \in Uids \cup {NoId} /\ opened \subseteq opened'
  BY <1>1, ActiveFacts DEF Ready, Listed
<1>3. CASE SetLeaf(activeTab.focus, s) /\ UNCHANGED <<activeTabId, maximizedPaneId>>
  <2>1. /\ LayoutOK(tabs') /\ TabIdsIn(tabs') = TabIdsIn(tabs)
        /\ \A x : x # s => NoMore(tabs, tabs', x)
    BY <1>2, <1>3, ShownOnce
  <2> QED
    BY <1>1, <1>2, <1>3, <2>1 DEF Steady, Ready
<1>4. CASE Bound(s) /\ focusPane(FirstPaneId(s))
  <2>1. FirstPaneId(s) \in PaneIds
    BY <1>2, <1>4, FirstPane
  <2>2. /\ LayoutOK(tabs') /\ activeTabId' \in TabIdsIn(tabs')
        /\ maximizedPaneId' \in Uids \cup {NoId} /\ NoMoreFor(tabs, tabs')
    BY <1>2, <1>4, <2>1, FocusDone
  <2> QED
    BY <1>2, <2>2 DEF Steady, NoMoreFor
<1>5. CASE ~Bound(s) /\ Len(tabs) < MaxTabs /\ createTab(s)
  <2>1. /\ LayoutOK(tabs') /\ activeTabId' \in TabIdsIn(tabs')
        /\ maximizedPaneId' = maximizedPaneId
        /\ LeavesIn(tabs') = LeavesIn(tabs) \cup {Leaf(Uid(2), s)}
    BY <1>2, <1>5, CreateTabDone
  <2>2. ASSUME NEW x \in Sessions \ (Existing \cup opened')
        PROVE  NoMore(tabs, tabs', x)
    <3>1. Leaf(Uid(2), s).session # x
      BY <1>1, <2>2 DEF Leaf
    <3> QED
      BY <2>1, <3>1, NoMoreKept
  <2> QED
    BY <1>2, <2>1, <2>2 DEF Steady
<1> QED
  BY <1>1, <1>3, <1>4, <1>5

-----------------------------------------------------------------------------
(***************************************************************************)
(* What sanitizeLayout takes from a saved layout.                          *)
(***************************************************************************)
ShapedTab(tab, who) ==
  /\ tab = Tab(tab.id, tab.root, tab.focus) /\ tab.id \in Uids
  /\ IsTree(tab.root) /\ tab.root = [p \in DOMAIN tab.root |-> tab.root[p]]
  /\ \A p \in DOMAIN tab.root : tab.root[p] \in [id : Uids, session : who]
Shaped(layout, who) ==
  /\ layout.tabs = [i \in 1 .. Len(layout.tabs) |-> layout.tabs[i]]
  /\ \A i \in 1 .. Len(layout.tabs) : ShapedTab(layout.tabs[i], who)
Focused(tab) ==
  IF tab.focus \in LeafIds(tab.root) THEN tab.focus ELSE firstLeaf(tab.root).id

\* What a saved layout is known to be.
LEMMA SavedShaped ==
  ASSUME NEW layout \in SavedLayouts
  PROVE  Shaped(layout, Existing \cup {NoSession})
  BY SavedLayoutsAreTrees DEF Shaped, ShapedTab

\* What the page saves has that shape.
LEMMA SnapshotShaped ==
  ASSUME LayoutOK(tabs)
  PROVE  Shaped(snapshot, Sessions \cup {NoSession}) /\ snapshot.tabs = tabs
         /\ snapshot.activeTabId = activeTabId
<1>1. snapshot.tabs = tabs /\ snapshot.activeTabId = activeTabId
  BY DEF snapshot
<1>2. tabs = [i \in 1 .. Len(tabs) |-> tabs[i]]
  BY LayoutFacts DEF LayoutOK
<1>3. ASSUME NEW i \in 1 .. Len(tabs)
      PROVE  ShapedTab(tabs[i], Sessions \cup {NoSession})
  <2>1. tabs[i] \in [id : Uids, root : Roots, focus : Uids] /\ GoodRoot(tabs[i].root)
    BY LayoutFacts DEF GoodTab
  <2> DEFINE tab == tabs[i]
             root == tab.root
  <2>2. tab = Tab(tab.id, tab.root, tab.focus) /\ tab.id \in Uids
    BY <2>1 DEF Tab
  <2>3. root \in Roots /\ IsTree(root) /\ \A p \in DOMAIN root : root[p] \in Leaves
    BY <2>1, GoodFacts DEF GoodRoot
  <2>4. root = [p \in DOMAIN root |-> root[p]]
    BY <2>3, RootType
  <2> QED
    BY <2>2, <2>3, <2>4 DEF ShapedTab, Leaves
<1> QED
  BY <1>1, <1>2, <1>3 DEF Shaped

\* A tree without a uid twice is a good root, and its focus is made one of its panes.
LEMMA ShapedRoot ==
  ASSUME NEW tab, NEW who \in SUBSET (Sessions \cup {NoSession}), ShapedTab(tab, who),
         OneEach(tab.root)
  PROVE  /\ GoodRoot(tab.root)
         /\ Focused(tab) \in LeafIds(tab.root) /\ Focused(tab) \in Uids
         /\ \A leaf \in LeafSet(tab.root) : leaf.session \in who
<1> DEFINE root == tab.root
<1>1. /\ IsTree(root) /\ root = [p \in DOMAIN root |-> root[p]]
      /\ \A p \in DOMAIN root : root[p] \in [id : Uids, session : who]
  BY DEF ShapedTab
<1>2. DOMAIN root \subseteq Paths
  BY <1>1, TreeFacts
<1> HIDE DEF root
<1>3. LeafSet(root) \subseteq Leaves /\ \A leaf \in LeafSet(root) : leaf.session \in who
  BY <1>1 DEF LeafSet, Leaves
<1>4. root \in Roots
  BY <1>1, <1>2, <1>3, RootType
<1>5. GoodRoot(root)
  BY <1>1, <1>4 DEF GoodRoot, root
<1>6. firstLeaf(root).id \in LeafIds(root) /\ LeafIds(root) \subseteq Uids
  BY <1>1, <1>5, FirstLeaf, GoodFacts DEF LeafIds
<1> QED
  BY <1>3, <1>5, <1>6 DEF Focused, root

\* sanitizeLayout of a layout it takes.
LEMMA SanitizedIs ==
  ASSUME NEW layout, sanitizeLayout(layout) # NoLayout
  PROVE  /\ Acceptable(layout)
         /\ sanitizeLayout(layout).tabs =
              [i \in DOMAIN layout.tabs |-> WithFocus(layout.tabs[i], Focused(layout.tabs[i]))]
         /\ sanitizeLayout(layout).activeTabId =
              IF \E i \in DOMAIN layout.tabs : layout.tabs[i].id = layout.activeTabId
              THEN layout.activeTabId ELSE layout.tabs[1].id
<1>1. Acceptable(layout)
  BY DEF sanitizeLayout
<1>2. sanitizeLayout(layout) =
        [tabs |-> [i \in DOMAIN layout.tabs |->
                     WithFocus(layout.tabs[i], Focused(layout.tabs[i]))],
         activeTabId |-> IF \E i \in DOMAIN layout.tabs : layout.tabs[i].id = layout.activeTabId
                         THEN layout.activeTabId ELSE layout.tabs[1].id]
  BY <1>1 DEF sanitizeLayout, WithFocus, Focused
<1> QED
  BY <1>1, <1>2

\* What it takes is a layout, with the leaves that were saved.
LEMMA SanitizedGood ==
  ASSUME NEW layout, NEW who \in SUBSET (Sessions \cup {NoSession}), Shaped(layout, who),
         sanitizeLayout(layout) # NoLayout
  PROVE  /\ LayoutOK(sanitizeLayout(layout).tabs)
         /\ sanitizeLayout(layout).activeTabId \in TabIdsIn(sanitizeLayout(layout).tabs)
         /\ LeavesIn(sanitizeLayout(layout).tabs) = LeavesIn(layout.tabs)
         /\ \A leaf \in LeavesIn(layout.tabs) : leaf.session \in who
<1> DEFINE ts == layout.tabs
           n == Len(ts)
           us == sanitizeLayout(layout).tabs
           active == sanitizeLayout(layout).activeTabId
<1>1. /\ Acceptable(layout)
      /\ us = [i \in DOMAIN ts |-> WithFocus(ts[i], Focused(ts[i]))]
      /\ active = IF \E i \in DOMAIN ts : ts[i].id = layout.activeTabId
                  THEN layout.activeTabId ELSE ts[1].id
  BY SanitizedIs
<1>2. ts = [i \in 1 .. n |-> ts[i]] /\ \A i \in 1 .. n : ShapedTab(ts[i], who)
  BY DEF Shaped
<1>3. /\ n \in 1 .. MaxTabs /\ ~SameId(layout)
      /\ \A i \in DOMAIN ts : Cardinality(DOMAIN ts[i].root) <= MaxLeaves
  BY <1>1 DEF Acceptable
<1>4. DOMAIN ts = 1 .. n /\ n \in Nat /\ 1 \in 1 .. n /\ MaxTabs \in Nat
  BY <1>2, <1>3, WorkspaceBounds
<1>5. /\ \A i, j \in DOMAIN ts : i # j => ts[i].id # ts[j].id
      /\ \A i, j \in DOMAIN ts : ts[i].id \notin LeafIds(ts[j].root)
      /\ \A i, j \in DOMAIN ts : \A p \in DOMAIN ts[i].root, q \in DOMAIN ts[j].root :
           <<i, p>> # <<j, q>> => ts[i].root[p].id # ts[j].root[q].id
  BY <1>3 DEF SameId
<1> HIDE DEF ts, n, us, active
<1>6. \A i \in 1 .. n : OneEach(ts[i].root)
  BY <1>4, <1>5 DEF OneEach
<1>7. \A i, j \in 1 .. n : i # j => LeafIds(ts[i].root) \cap LeafIds(ts[j].root) = {}
  BY <1>4, <1>5 DEF LeafIds
<1>8. ASSUME NEW i \in 1 .. n
      PROVE  /\ GoodTab(us[i]) /\ us[i].id = ts[i].id /\ us[i].root = ts[i].root
             /\ \A leaf \in LeafSet(ts[i].root) : leaf.session \in who
  <2> DEFINE tab == ts[i]
             f == Focused(tab)
  <2>1. us[i] = WithFocus(tab, f)
    BY <1>1, <1>4
  <2>2. ShapedTab(tab, who) /\ OneEach(tab.root)
    BY <1>2, <1>6
  <2>3. tab.id \notin LeafIds(tab.root) /\ Cardinality(DOMAIN tab.root) <= MaxLeaves
    BY <1>3, <1>4, <1>5
  <2> HIDE DEF tab
  <2>4. /\ GoodRoot(tab.root) /\ f \in LeafIds(tab.root) /\ f \in Uids
        /\ \A leaf \in LeafSet(tab.root) : leaf.session \in who
    BY <2>2, ShapedRoot
  <2> HIDE DEF f
  <2>5. tab = Tab(tab.id, tab.root, tab.focus) /\ tab.id \in Uids
    BY <2>2 DEF ShapedTab
  <2>6. WithFocus(tab, f) = Tab(tab.id, tab.root, f)
    BY <2>5 DEF WithFocus, Tab
  <2> DEFINE new == Tab(tab.id, tab.root, f)
  <2>7. /\ new.id = tab.id /\ new.root = tab.root /\ new.focus = f
        /\ new \in [id : Uids, root : Roots, focus : Uids]
    BY <2>4, <2>5 DEF Tab, GoodRoot
  <2> HIDE DEF new
  <2>8. GoodTab(new)
    BY <2>3, <2>4, <2>7 DEF GoodTab
  <2>9. us[i] = new
    BY <2>1, <2>6 DEF new
  <2> QED
    BY <2>4, <2>7, <2>8, <2>9 DEF tab
<1>9. us \in Seq(Tabs) /\ Len(us) = n
  <2>1. \A i \in 1 .. n : us[i] \in Tabs
    BY <1>8 DEF Tabs, GoodTab
  <2>2. us \in [1 .. n -> Tabs]
    BY <1>1, <1>4, <2>1
  <2> QED
    BY <1>4, <2>2, IsASeq
<1>10. \A i, j \in 1 .. n : i # j => IdsOf(us[i]) \cap IdsOf(us[j]) = {}
  BY <1>4, <1>5, <1>7, <1>8 DEF IdsOf
<1>11. LayoutOK(us)
  BY <1>3, <1>4, <1>9, <1>10 DEF LayoutOK
<1>12. n = Len(ts) /\ LeavesIn(us) = LeavesIn(ts)
  BY <1>8, <1>9 DEF LeavesIn, n
<1>13. active \in TabIdsIn(us)
  BY <1>1, <1>4, <1>8, <1>9 DEF TabIdsIn
<1>14. \A leaf \in LeavesIn(ts) : leaf.session \in who
  BY <1>8, <1>12 DEF LeavesIn
<1> QED
  BY <1>11, <1>12, <1>13, <1>14 DEF ts, us, active

-----------------------------------------------------------------------------
\* No uid of a layout occurs twice.
LEMMA NoIdTwice ==
  ASSUME LayoutOK(tabs)
  PROVE  ~SameId(snapshot)
<1>1. snapshot.tabs = tabs
  BY SnapshotShaped
<1>2. DOMAIN tabs = 1 .. Len(tabs)
  BY LayoutFacts
<1>3. \A i \in 1 .. Len(tabs) : GoodTab(tabs[i])
  BY LayoutFacts
<1>4. \A i, j \in 1 .. Len(tabs) : i # j => IdsOf(tabs[i]) \cap IdsOf(tabs[j]) = {}
  BY DEF LayoutOK
<1>5. \A i, j \in 1 .. Len(tabs) : i # j => tabs[i].id # tabs[j].id
  BY <1>4 DEF IdsOf
<1>6. \A i, j \in 1 .. Len(tabs) : tabs[i].id \notin LeafIds(tabs[j].root)
  BY <1>3, <1>4 DEF IdsOf, GoodTab
<1>7. \A i, j \in 1 .. Len(tabs) : \A p \in DOMAIN tabs[i].root, q \in DOMAIN tabs[j].root :
        <<i, p>> # <<j, q>> => tabs[i].root[p].id # tabs[j].root[q].id
  <2> SUFFICES ASSUME NEW i \in 1 .. Len(tabs), NEW j \in 1 .. Len(tabs),
                      NEW p \in DOMAIN tabs[i].root, NEW q \in DOMAIN tabs[j].root,
                      <<i, p>> # <<j, q>>
               PROVE  tabs[i].root[p].id # tabs[j].root[q].id
    OBVIOUS
  <2>1. CASE i = j
    <3>1. OneEach(tabs[i].root)
      BY <1>3 DEF GoodTab, GoodRoot
    <3> QED
      BY <2>1, <3>1 DEF OneEach
  <2>2. CASE i # j
    <3>1. tabs[i].root[p].id \in IdsOf(tabs[i]) /\ tabs[j].root[q].id \in IdsOf(tabs[j])
      BY DEF IdsOf, LeafIds
    <3> QED
      BY <1>4, <2>2, <3>1
  <2> QED
    BY <2>1, <2>2
<1> QED
  BY <1>1, <1>2, <1>5, <1>6, <1>7 DEF SameId

\* sanitizeLayout gives a saved page back as it was, unless it is too deep.
LEMMA SnapshotRestored ==
  ASSUME LayoutOK(tabs), activeTabId \in TabIdsIn(tabs), ~TooDeep
  PROVE  sanitizeLayout(snapshot) = snapshot /\ snapshot # NoLayout
<1>1. snapshot.tabs = tabs /\ snapshot.activeTabId = activeTabId
  BY SnapshotShaped
<1>2. /\ DOMAIN tabs = 1 .. Len(tabs) /\ Len(tabs) \in Nat /\ MaxTabs \in Nat /\ Len(tabs) <= MaxTabs
      /\ \E i \in 1 .. Len(tabs) : tabs[i].id = activeTabId
  BY LayoutFacts, WorkspaceBounds DEF LayoutOK, TabIdsIn
<1>3. Len(tabs) \in 1 .. MaxTabs
  BY <1>2
<1>4. \A i \in 1 .. Len(tabs) : GoodTab(tabs[i])
  BY LayoutFacts
<1>5. Acceptable(snapshot)
  <2>1. ASSUME NEW i \in DOMAIN tabs, NEW p \in DOMAIN tabs[i].root
        PROVE  Len(p) <= MaxDepth
    <3>1. ~(Len(p) > MaxDepth)
      BY DEF TooDeep
    <3>2. IsTree(tabs[i].root)
      BY <1>2, <1>4 DEF GoodTab, GoodRoot
    <3>3. Len(p) \in Nat /\ MaxDepth \in Nat
      BY <3>2, TreeFacts, PathFacts, WorkspaceBounds
    <3> QED
      BY <3>1, <3>3
  <2>2. \A i \in DOMAIN tabs : Cardinality(DOMAIN tabs[i].root) <= MaxLeaves
    BY <1>2, <1>4 DEF GoodTab
  <2> QED
    BY <1>1, <1>3, <2>1, <2>2, NoIdTwice DEF Acceptable
<1>6. sanitizeLayout(snapshot) =
        [tabs |-> [i \in DOMAIN tabs |-> WithFocus(tabs[i], Focused(tabs[i]))],
         activeTabId |-> activeTabId]
  BY <1>1, <1>2, <1>5 DEF sanitizeLayout, WithFocus, Focused
<1>7. ASSUME NEW i \in 1 .. Len(tabs)
      PROVE  WithFocus(tabs[i], Focused(tabs[i])) = tabs[i]
  <2> DEFINE tab == tabs[i]
  <2>1. GoodTab(tab)
    BY <1>4
  <2> HIDE DEF tab
  <2>2. Focused(tab) = tab.focus
    BY <2>1 DEF Focused, GoodTab
  <2>3. WithFocus(tab, tab.focus) = tab
    BY <2>1 DEF WithFocus, GoodTab
  <2>4. WithFocus(tab, Focused(tab)) = tab
    BY <2>2, <2>3
  <2> QED
    BY <2>4 DEF tab
<1>8. tabs = [i \in 1 .. Len(tabs) |-> tabs[i]]
  BY LayoutFacts DEF LayoutOK
<1>9. [i \in DOMAIN tabs |-> WithFocus(tabs[i], Focused(tabs[i]))] = tabs
  BY <1>2, <1>7, <1>8
<1>10. sanitizeLayout(snapshot) = snapshot
  BY <1>6, <1>9 DEF snapshot
<1>11. snapshot # NoLayout
  BY <1>1, <1>2, NoTabs DEF NoLayout
<1> QED
  BY <1>10, <1>11

\* ReplaceLayout leaves the page in order.
LEMMA ReplaceLayoutSteady ==
  ASSUME Ready, ReplaceLayout
  PROVE  Steady
<1>1. PICK layout \in SavedLayouts :
        /\ sanitizeLayout(layout) # NoLayout
        /\ tabs' = sanitizeLayout(layout).tabs
        /\ activeTabId' = sanitizeLayout(layout).activeTabId
  BY DEF ReplaceLayout
<1> DEFINE who == Existing \cup {NoSession}
<1>2. Shaped(layout, who) /\ who \in SUBSET (Sessions \cup {NoSession})
  BY SavedShaped, WorkspaceBounds
<1>3. \A s \in Sessions \ Existing : s \notin who
  BY NoSessionIsNone
<1> HIDE DEF who
<1>4. /\ LayoutOK(tabs') /\ activeTabId' \in TabIdsIn(tabs')
      /\ LeavesIn(tabs') = LeavesIn(layout.tabs)
      /\ \A leaf \in LeavesIn(layout.tabs) : leaf.session \in who
  BY <1>1, <1>2, SanitizedGood
<1>5. maximizedPaneId' = NoId /\ opened' = opened
  BY DEF ReplaceLayout
<1>6. ASSUME NEW s \in Sessions \ (Existing \cup opened')
      PROVE  NoMore(tabs, tabs', s)
  <2>1. \A leaf \in LeavesIn(tabs') : leaf \in LeavesIn(tabs) \/ leaf.session # s
    BY <1>3, <1>4
  <2> QED
    BY <2>1, NoMoreKept
<1> QED
  BY <1>4, <1>5, <1>6 DEF Steady

\* What hydrate puts on the page: the layout that was saved, if it is valid.
LEMMA HydrateDone ==
  ASSUME LayoutOK(tabs), NEW saved, NEW open \in {tabs, <<>>}, hydrate(saved, open),
         saved = NoLayout \/ saved = snapshot
  PROVE  /\ hydrated' = TRUE /\ LayoutOK(tabs') /\ activeTabId' \in TabIdsIn(tabs')
         /\ NoMoreFor(tabs, tabs')
<1> DEFINE good == sanitizeLayout(saved)
<1>1. /\ hydrated' = TRUE
      /\ good # NoLayout => tabs' = good.tabs /\ activeTabId' = good.activeTabId
      /\ good = NoLayout /\ open = <<>> =>
           HasFresh(2) /\ tabs' = <<NewTab(NoSession)>> /\ activeTabId' = Uid(1)
      /\ good = NoLayout /\ open # <<>> => tabs' = open /\ activeTabId' = activeTab.id
  BY DEF hydrate
<1> HIDE DEF good
<1>2. CASE good # NoLayout
  <2>1. saved = snapshot
    <3>1. ASSUME saved = NoLayout
          PROVE  ~Acceptable(saved)
      <4>1. saved.tabs = <<>> /\ Len(<<>>) = 0
        BY <3>1, NoTabs DEF NoLayout
      <4> QED
        BY <4>1 DEF Acceptable
    <3>2. ASSUME saved = NoLayout
          PROVE  good = NoLayout
      BY <3>1, <3>2 DEF good, sanitizeLayout
    <3> QED
      BY <1>2, <3>2
  <2> DEFINE who == Sessions \cup {NoSession}
  <2>2. Shaped(snapshot, who) /\ snapshot.tabs = tabs /\ who \in SUBSET (Sessions \cup {NoSession})
    BY SnapshotShaped
  <2> HIDE DEF who
  <2>3. /\ LayoutOK(good.tabs) /\ good.activeTabId \in TabIdsIn(good.tabs)
        /\ LeavesIn(good.tabs) = LeavesIn(tabs)
    BY <1>2, <2>1, <2>2, SanitizedGood DEF good
  <2>4. tabs' = good.tabs /\ activeTabId' = good.activeTabId
    BY <1>1, <1>2
  <2>5. NoMoreFor(tabs, tabs')
    BY <2>3, <2>4, FewerLeaves
  <2> QED
    BY <1>1, <2>3, <2>4, <2>5
<1>3. CASE good = NoLayout /\ open = <<>>
  <2>1. /\ HasFresh(2) /\ tabs' = <<NewTab(NoSession)>> /\ activeTabId' = Uid(1)
        /\ NoSession \in Sessions \cup {NoSession}
    BY <1>1, <1>3
  <2>2. /\ LayoutOK(tabs') /\ Uid(1) \in TabIdsIn(tabs')
        /\ LeavesIn(tabs') = {Leaf(Uid(2), NoSession)}
    BY <2>1, OneTab
  <2> QED
    BY <1>1, <2>1, <2>2, BlankMore
<1>4. CASE good = NoLayout /\ open # <<>>
  <2>1. tabs' = tabs /\ activeTabId' = activeTab.id
    BY <1>1, <1>4
  <2>2. DOMAIN tabs = 1 .. Len(tabs) /\ Len(tabs) \in Nat /\ Len(tabs) # 0 /\ TabIds = TabIdsIn(tabs)
    BY <1>1, <1>4, LayoutFacts, IdsAre
  <2>3. ActiveIndex \in 1 .. Len(tabs)
    <3>1. CASE activeTabId \in TabIds
      <4>1. ActiveIndex = IndexOfTab(activeTabId)
        BY <3>1 DEF ActiveIndex
      <4>2. \E i \in DOMAIN tabs : tabs[i].id = activeTabId
        BY <3>1 DEF TabIds
      <4> QED
        BY <2>2, <4>1, <4>2 DEF IndexOfTab
    <3>2. CASE activeTabId \notin TabIds
      BY <2>2, <3>2 DEF ActiveIndex
    <3> QED
      BY <3>1, <3>2
  <2>4. activeTabId' \in TabIdsIn(tabs)
    BY <2>1, <2>3 DEF activeTab, TabIdsIn
  <2> QED
    BY <1>1, <2>1, <2>4, SameLeaves
<1> QED
  BY <1>2, <1>3, <1>4

\* What the user does in one step.
UserActs ==
  \/ NewBlankTab \/ CloseTab \/ ActivateTab \/ FocusPane \/ DuplicateTab \/ SwapWithNext
  \/ MovePaneToTab \/ ClosePane \/ ToggleMaximize \/ ApplyPreset \/ MoveTab \/ OpenSession
  \/ Choose \/ ReplaceLayout

\* Whatever the user does.
LEMMA UserSteady ==
  ASSUME Ready, UserActs
  PROVE  Steady /\ SignedIn /\ Saved
<1>1. Steady
  BY NewBlankTabSteady, CloseTabSteady, ActivateTabSteady, FocusPaneSteady, DuplicateTabSteady,
     SwapWithNextSteady, MovePaneToTabSteady, ClosePaneSteady, ToggleMaximizeSteady,
     ApplyPresetSteady, MoveTabSteady, OpenSessionSteady, ChooseSteady, ReplaceLayoutSteady
     DEF UserActs
<1>2. SignedIn /\ Saved
  BY DEF UserActs, NewBlankTab, CloseTab, ActivateTab, FocusPane, DuplicateTab, SwapWithNext,
     MovePaneToTab, ClosePane, ToggleMaximize, ApplyPreset, MoveTab, OpenSession, Choose,
     ReplaceLayout
<1> QED
  BY <1>1, <1>2

-----------------------------------------------------------------------------
(***************************************************************************)
(* The inductive invariant.                                                *)
(***************************************************************************)
LayoutHolds ==
  /\ LayoutOK(tabs)
  /\ activeTabId \in Uids \cup {NoId} /\ maximizedPaneId \in Uids \cup {NoId}
  /\ hydrated \in BOOLEAN /\ (hydrated <=> SignedIn)
  /\ hydrated => activeTabId \in TabIdsIn(tabs)
  /\ stored = IF hydrated THEN snapshot ELSE NoLayout
PlainTypes ==
  /\ login \in 0 .. MaxLogins /\ logins \in 0 .. MaxLogins /\ page \in {0, 1}
  /\ autoBound \in BOOLEAN /\ alive \subseteq Sessions /\ older \subseteq Sessions
  /\ requests \subseteq Requests /\ askedBy \in [Sessions -> 0 .. MaxLogins]
\* A session this page did not ask for is not there; one it waits for is not
\* older than the page, waits once, and no pane shows it unless the user opened it.
Unasked(s) == s \notin Existing /\ askedBy[s] = 0
Awaited(s) == \E r \in requests : r.session = s
Provenance ==
  /\ \A s \in Sessions : Unasked(s) => s \notin alive /\ s \notin older /\ ~Awaited(s)
  /\ \A r \in requests : r.session \notin Existing /\ r.session \notin older
  /\ \A q, r \in requests : q.session = r.session => q = r
\* The sessions AutoBind tells from older ones.
Told == IF BrowserAhead THEN {} ELSE Sessions
ShownRight ==
  \A s \in Told \ (Existing \cup opened) :
    /\ askedBy[s] = 0 \/ Awaited(s) => ~Shows(tabs, s)
    /\ AtMostOne(tabs, s)
WsIInv == LayoutHolds /\ PlainTypes /\ Provenance /\ ShownRight

\* The invariant holds at first.
LEMMA InitHolds ==
  ASSUME WorkspaceInit
  PROVE  WsIInv
<1>1. LayoutHolds
  <2>1. /\ tabs = <<>> /\ activeTabId = NoId /\ maximizedPaneId = NoId /\ hydrated = FALSE
        /\ stored = NoLayout /\ login = 0
    BY DEF WorkspaceInit
  <2>2. LayoutOK(tabs) /\ ~SignedIn
    BY <2>1, NoTabs DEF SignedIn
  <2>3. stored = IF hydrated THEN snapshot ELSE NoLayout
    BY <2>1
  <2> QED
    BY <2>1, <2>2, <2>3 DEF LayoutHolds
<1>2. PlainTypes
  <2>1. /\ login = 0 /\ logins = 0 /\ page = 0 /\ autoBound = FALSE /\ alive = Existing
        /\ older = {} /\ requests = {} /\ askedBy = [s \in Sessions |-> 0]
    BY DEF WorkspaceInit
  <2>2. 0 \in 0 .. MaxLogins /\ Existing \subseteq Sessions
    BY WorkspaceBounds
  <2>3. [s \in Sessions |-> 0] \in [Sessions -> 0 .. MaxLogins]
    BY <2>2
  <2> QED
    BY <2>1, <2>2, <2>3 DEF PlainTypes
<1>3. Provenance
  BY DEF WorkspaceInit, Provenance, Unasked, Awaited
<1>4. ShownRight
  BY NoTabs DEF WorkspaceInit, ShownRight, Shows, AtMostOne
<1> QED
  BY <1>1, <1>2, <1>3, <1>4 DEF WsIInv

\* The ids of tabs are uids.
LEMMA TabIdsUids ==
  ASSUME NEW ts, LayoutOK(ts)
  PROVE  TabIdsIn(ts) \subseteq Uids
  BY LayoutFacts DEF TabIdsIn

\* A page that is signed in has its layout.
LEMMA HydratedReady ==
  ASSUME WsIInv, SignedIn
  PROVE  Ready /\ hydrated
  BY DEF WsIInv, LayoutHolds, PlainTypes, Ready

\* A step that keeps the accounts, the sessions and the requests.
LEMMA ShownKept ==
  ASSUME WsIInv, askedBy' = askedBy, requests' \subseteq requests, opened \subseteq opened',
         \A s \in Sessions \ (Existing \cup opened') : NoMore(tabs, tabs', s)
  PROVE  ShownRight'
<1> SUFFICES ASSUME NEW s \in Told \ (Existing \cup opened')
             PROVE  /\ askedBy'[s] = 0 \/ Awaited(s)' => ~Shows(tabs', s)
                    /\ AtMostOne(tabs', s)
  BY DEF ShownRight
<1>1. (Awaited(s))' => Awaited(s)
  BY DEF Awaited
<1>2. /\ askedBy[s] = 0 \/ Awaited(s) => ~Shows(tabs, s)
      /\ AtMostOne(tabs, s)
  BY DEF WsIInv, ShownRight
<1>3. NoMore(tabs, tabs', s)
  BY DEF Told
<1> QED
  BY <1>1, <1>2, <1>3 DEF NoMore

\* persist keeps the saved layout that of the page.
LEMMA LayoutStep ==
  ASSUME WsIInv, LayoutOK(tabs'), activeTabId' \in Uids \cup {NoId},
         hydrated' => activeTabId' \in TabIdsIn(tabs'),
         maximizedPaneId' \in Uids \cup {NoId}, hydrated' \in BOOLEAN, hydrated' <=> SignedIn',
         hydrated => hydrated', persist
  PROVE  LayoutHolds'
<1>2. stored' = IF hydrated' THEN snapshot' ELSE NoLayout
  BY DEF WsIInv, LayoutHolds, persist
<1> QED
  BY <1>2 DEF LayoutHolds

\* What the user does preserves the invariant.
LEMMA UserHolds ==
  ASSUME WsIInv, UserActs
  PROVE  WsIInv'
<1>1. Ready /\ hydrated /\ SignedIn /\ Saved /\ Steady
  BY UserSteady, HydratedReady DEF UserActs, NewBlankTab, CloseTab, ActivateTab, FocusPane,
     DuplicateTab, SwapWithNext, MovePaneToTab, ClosePane, ToggleMaximize, ApplyPreset, MoveTab,
     OpenSession, Choose, ReplaceLayout
<1>2. UNCHANGED accountVars /\ persist
  BY <1>1 DEF Saved
<1>3. UNCHANGED <<hydrated, login, logins, alive, requests, autoBound, older, askedBy, page>>
  BY <1>2 DEF accountVars
<1>4. LayoutHolds'
  <2>1. LayoutOK(tabs') /\ activeTabId' \in TabIdsIn(tabs') /\ maximizedPaneId' \in Uids \cup {NoId}
    BY <1>1 DEF Steady
  <2>2. activeTabId' \in Uids
    BY <2>1, TabIdsUids
  <2>3. hydrated' \in BOOLEAN /\ (hydrated' <=> SignedIn') /\ (hydrated => hydrated')
    BY <1>3 DEF SignedIn, WsIInv, LayoutHolds
  <2> QED
    BY <1>2, <2>1, <2>2, <2>3, LayoutStep
<1>5. PlainTypes' /\ Provenance'
  BY <1>3 DEF WsIInv, PlainTypes, Provenance, Unasked, Awaited
<1>6. ShownRight'
  BY <1>1, <1>3, ShownKept DEF Steady
<1> QED
  BY <1>4, <1>5, <1>6 DEF WsIInv

\* So does asking for a session: no session asked for is on the page yet.
LEMMA RequestHolds ==
  ASSUME WsIInv, Request
  PROVE  WsIInv'
<1>a. PICK s \in Sessions \ Existing, how \in Surfaces :
        \E at \in CASE how = "tab" -> {NoId}
                    [] how = "split" -> {activeTab.focus}
                    [] OTHER -> Shown :
          /\ askedBy[s] = 0
          /\ askedBy' = [askedBy EXCEPT ![s] = login]
          /\ requests' = requests \cup
               {[stage |-> "made", how |-> how, at |-> at, session |-> s]}
          /\ alive' = alive \cup {s}
  BY DEF Request
<1> DEFINE Places == CASE how = "tab" -> {NoId}
                       [] how = "split" -> {activeTab.focus}
                       [] OTHER -> Shown
<1>1. PICK at \in Places :
        /\ askedBy[s] = 0
        /\ askedBy' = [askedBy EXCEPT ![s] = login]
        /\ requests' = requests \cup
             {[stage |-> "made", how |-> how, at |-> at, session |-> s]}
        /\ alive' = alive \cup {s}
  BY <1>a
<1>2. SignedIn /\ UNCHANGED <<tabs, activeTabId, maximizedPaneId, hydrated, stored, login, logins,
                              autoBound, older, opened, page>>
  BY DEF Request, layoutVars, pageVars
<1>3. Ready /\ login # 0 /\ login \in 0 .. MaxLogins
  BY <1>2, HydratedReady DEF SignedIn, WsIInv, PlainTypes
<1> DEFINE new == [stage |-> "made", how |-> how, at |-> at, session |-> s]
<1>4. new \in Requests /\ new.session = s
  <2>1. at \in Uids \cup {NoId}
    <3>1. activeTab.focus \in Uids /\ Shown \subseteq Uids
      BY <1>3, ActiveFacts DEF Ready
    <3> QED
      BY <1>1, <3>1
  <2> QED
    BY <2>1 DEF Requests, Surfaces
<1> HIDE DEF new
<1>5. requests' = requests \cup {new}
  BY <1>1 DEF new
<1>6. askedBy'[s] # 0 /\ \A x \in Sessions : x # s => askedBy'[x] = askedBy[x]
  BY <1>1, <1>3 DEF WsIInv, PlainTypes
<1>7. Unasked(s)
  BY <1>1 DEF Unasked
<1>8. LayoutHolds'
  BY <1>2 DEF WsIInv, LayoutHolds, SignedIn, snapshot
<1>9. PlainTypes'
  BY <1>1, <1>2, <1>3, <1>4, <1>5 DEF WsIInv, PlainTypes
<1>10. Provenance'
  <2>1. s \notin alive /\ s \notin older /\ ~Awaited(s)
    BY <1>7 DEF WsIInv, Provenance
  <2>2. \A x \in Sessions : Unasked(x)' => x # s /\ Unasked(x)
    BY <1>6 DEF Unasked
  <2>3. \A x \in Sessions : x # s => (Awaited(x)' <=> Awaited(x))
    BY <1>4, <1>5 DEF Awaited
  <2>4. \A x \in Sessions : Unasked(x)' => x \notin alive' /\ x \notin older' /\ ~Awaited(x)'
    BY <1>1, <1>2, <2>2, <2>3 DEF WsIInv, Provenance
  <2>5. \A r \in requests' : r.session \notin Existing /\ r.session \notin older'
    BY <1>1, <1>2, <1>4, <1>5, <2>1 DEF WsIInv, Provenance
  <2>6. \A q, r \in requests' : q.session = r.session => q = r
    BY <1>4, <1>5, <2>1 DEF WsIInv, Provenance, Awaited
  <2> QED
    BY <2>4, <2>5, <2>6 DEF Provenance
<1>11. ShownRight'
  <2> SUFFICES ASSUME NEW x \in Told \ (Existing \cup opened')
               PROVE  /\ askedBy'[x] = 0 \/ Awaited(x)' => ~Shows(tabs', x)
                      /\ AtMostOne(tabs', x)
    BY DEF ShownRight
  <2>1. /\ askedBy[x] = 0 \/ Awaited(x) => ~Shows(tabs, x)
        /\ AtMostOne(tabs, x)
    BY <1>2 DEF WsIInv, ShownRight
  <2>2. Awaited(x)' => Awaited(x) \/ x = s
    BY <1>4, <1>5 DEF Awaited
  <2> QED
    BY <1>1, <1>2, <1>6, <2>1, <2>2
<1> QED
  BY <1>8, <1>9, <1>10, <1>11 DEF WsIInv

\* So does the answer to a DELETE.
LEMMA UndoneHolds ==
  ASSUME WsIInv, Undone
  PROVE  WsIInv'
<1>1. requests' \subseteq requests /\ alive' \subseteq alive
  BY DEF Undone
<1>2. UNCHANGED <<tabs, activeTabId, maximizedPaneId, hydrated, stored, login, logins,
                  autoBound, older, opened, page, askedBy>>
  BY DEF Undone, layoutVars, pageVars
<1>3. LayoutHolds'
  BY <1>2 DEF WsIInv, LayoutHolds, SignedIn, snapshot
<1>4. PlainTypes'
  BY <1>1, <1>2 DEF WsIInv, PlainTypes
<1>5. Provenance'
  BY <1>1, <1>2 DEF WsIInv, Provenance, Unasked, Awaited
<1>6. ShownRight'
  BY <1>1, <1>2, ShownKept, SameLeaves DEF NoMoreFor
<1> QED
  BY <1>3, <1>4, <1>5, <1>6 DEF WsIInv

-----------------------------------------------------------------------------
\* A leaf more shows its session, and no other session more than before.
LEMMA AddedOnce ==
  ASSUME NEW ts, NEW us, NEW id, NEW x, LeavesIn(us) = LeavesIn(ts) \cup {Leaf(id, x)}
  PROVE  /\ \A s : s # x => NoMore(ts, us, s)
         /\ ~Shows(ts, x) => AtMostOne(us, x)
         /\ Shows(us, x)
<1> DEFINE new == Leaf(id, x)
<1>1. new.session = x /\ LeavesIn(us) = LeavesIn(ts) \cup {new}
  BY DEF Leaf
<1> HIDE DEF new
<1>2. ASSUME NEW s, s # x
      PROVE  NoMore(ts, us, s)
  <2>1. \A leaf \in LeavesIn(us) : leaf \in LeavesIn(ts) \/ leaf.session # s
    BY <1>1, <1>2
  <2> QED
    BY <2>1, NoMoreKept
<1>3. ASSUME ~Shows(ts, x)
      PROVE  AtMostOne(us, x)
  BY <1>1, <1>3 DEF Shows, AtMostOne
<1>4. Shows(us, x)
  BY <1>1 DEF Shows
<1> QED
  BY <1>2, <1>3, <1>4

\* The surface of a request comes up with its session.
LEMMA SurfaceDone ==
  ASSUME WsIInv, NEW r \in requests, HasRoom(r), Surface(r)
  PROVE  /\ LayoutOK(tabs') /\ activeTabId' \in Uids \cup {NoId}
         /\ hydrated => activeTabId' \in TabIdsIn(tabs')
         /\ maximizedPaneId' \in Uids \cup {NoId}
         /\ \A s : s # r.session => NoMore(tabs, tabs', s)
         /\ ~Shows(tabs, r.session) => AtMostOne(tabs', r.session)
         /\ Shows(tabs', r.session)
<1>1. /\ LayoutOK(tabs) /\ activeTabId \in Uids \cup {NoId} /\ maximizedPaneId \in Uids \cup {NoId}
      /\ hydrated => activeTabId \in TabIdsIn(tabs)
  BY DEF WsIInv, LayoutHolds
<1>2. r.session \in Sessions /\ r.session \in Sessions \cup {NoSession} /\ r.how \in Surfaces
  BY DEF WsIInv, PlainTypes, Requests
<1>3. CASE r.how = "tab"
  <2>1. Len(tabs) < MaxTabs /\ createTab(r.session)
    BY <1>3 DEF HasRoom, Surface
  <2>2. /\ LayoutOK(tabs') /\ activeTabId' \in TabIdsIn(tabs')
        /\ maximizedPaneId' = maximizedPaneId
        /\ LeavesIn(tabs') = LeavesIn(tabs) \cup {Leaf(Uid(2), r.session)}
    BY <1>1, <1>2, <2>1, CreateTabDone
  <2>3. activeTabId' \in Uids
    BY <2>2, TabIdsUids
  <2>4. /\ \A s : s # r.session => NoMore(tabs, tabs', s)
        /\ ~Shows(tabs, r.session) => AtMostOne(tabs', r.session)
        /\ Shows(tabs', r.session)
    <3> DEFINE u == Uid(2)
               x == r.session
    <3>1. LeavesIn(tabs') = LeavesIn(tabs) \cup {Leaf(u, x)}
      BY <2>2
    <3> HIDE DEF u, x
    <3>2. /\ \A s : s # x => NoMore(tabs, tabs', s)
          /\ ~Shows(tabs, x) => AtMostOne(tabs', x)
          /\ Shows(tabs', x)
      BY <3>1, AddedOnce
    <3> QED
      BY <3>2 DEF x
  <2> QED
    BY <1>1, <2>2, <2>3, <2>4
<1>4. CASE r.how = "here"
  <2>1. /\ r.at \in PaneIds /\ SetLeaf(r.at, r.session)
        /\ activeTabId' = activeTabId /\ maximizedPaneId' = maximizedPaneId
    BY <1>4 DEF HasRoom, Surface
  <2>2. /\ LayoutOK(tabs') /\ TabIdsIn(tabs') = TabIdsIn(tabs)
        /\ \A s : s # r.session => NoMore(tabs, tabs', s)
        /\ ~Shows(tabs, r.session) => AtMostOne(tabs', r.session)
        /\ Shows(tabs', r.session)
    BY <1>1, <1>2, <2>1, ShownOnce
  <2> QED
    BY <1>1, <2>1, <2>2
<1>5. CASE r.how \in {"split", "paneSplit"}
  <2>1. CanSplit(r.at) /\ splitPane(r.at, r.session)
    BY <1>5 DEF HasRoom, Surface
  <2>2. /\ LayoutOK(tabs') /\ TabIdsIn(tabs') = TabIdsIn(tabs)
        /\ activeTabId' = activeTabId /\ maximizedPaneId' = NoId
        /\ LeavesIn(tabs') = LeavesIn(tabs) \cup {Leaf(Uid(1), r.session)}
    BY <1>1, <1>2, <2>1, SplitDone
  <2>3. /\ \A s : s # r.session => NoMore(tabs, tabs', s)
        /\ ~Shows(tabs, r.session) => AtMostOne(tabs', r.session)
        /\ Shows(tabs', r.session)
    <3> DEFINE u == Uid(1)
               x == r.session
    <3>1. LeavesIn(tabs') = LeavesIn(tabs) \cup {Leaf(u, x)}
      BY <2>2
    <3> HIDE DEF u, x
    <3>2. /\ \A s : s # x => NoMore(tabs, tabs', s)
          /\ ~Shows(tabs, x) => AtMostOne(tabs', x)
          /\ Shows(tabs', x)
      BY <3>1, AddedOnce
    <3> QED
      BY <3>2 DEF x
  <2> QED
    BY <1>1, <2>2, <2>3
<1> QED
  BY <1>2, <1>3, <1>4, <1>5 DEF Surfaces

\* The session of a surface that comes up is not awaited any more.
LEMMA ArrivalShown ==
  ASSUME WsIInv, NEW x \in Sessions, askedBy' = askedBy, opened' = opened,
         \A r \in requests' : Awaited(r.session) /\ r.session # x,
         x \notin Existing /\ askedBy[x] # 0,
         \A s : s # x => NoMore(tabs, tabs', s),
         x \notin Told \/ x \in opened \/ AtMostOne(tabs', x)
  PROVE  ShownRight'
<1> SUFFICES ASSUME NEW s \in Told \ (Existing \cup opened')
             PROVE  /\ askedBy'[s] = 0 \/ Awaited(s)' => ~Shows(tabs', s)
                    /\ AtMostOne(tabs', s)
  BY DEF ShownRight
<1>1. /\ askedBy[s] = 0 \/ Awaited(s) => ~Shows(tabs, s)
      /\ AtMostOne(tabs, s)
  BY DEF WsIInv, ShownRight
<1>2. Awaited(s)' => Awaited(s) /\ s # x
  BY DEF Awaited
<1>3. CASE s # x
  BY <1>1, <1>2, <1>3 DEF NoMore
<1>4. CASE s = x
  BY <1>2, <1>4
<1> QED
  BY <1>3, <1>4

\* So does the answer to POST /sessions, to whatever page it finds.
LEMMA SessionArrivesHolds ==
  ASSUME WsIInv, SessionArrives
  PROVE  WsIInv'
<1>1. PICK r \in requests :
        /\ r.stage = "made"
        /\ \/ HasRoom(r) /\ Surface(r) /\ requests' = requests \ {r}
           \/ ~HasRoom(r) /\ NoRoom(r)
  BY DEF SessionArrives
<1>2. /\ UNCHANGED <<login, logins, autoBound, older, opened, page, hydrated, alive, askedBy>>
      /\ persist
  BY DEF SessionArrives, pageVars
<1>3. /\ LayoutOK(tabs) /\ activeTabId \in Uids \cup {NoId} /\ maximizedPaneId \in Uids \cup {NoId}
      /\ hydrated => activeTabId \in TabIdsIn(tabs)
      /\ hydrated \in BOOLEAN /\ (hydrated <=> SignedIn)
  BY DEF WsIInv, LayoutHolds
<1>4. /\ hydrated' \in BOOLEAN /\ (hydrated' <=> SignedIn') /\ (hydrated => hydrated')
      /\ (hydrated' => hydrated)
  BY <1>2, <1>3 DEF SignedIn
<1>5. /\ r \in Requests /\ r.session \in Sessions /\ r.session \notin Existing
      /\ askedBy[r.session] # 0 /\ r.session \notin older
      /\ \A q \in requests : q.session = r.session => q = r
  BY DEF WsIInv, PlainTypes, Provenance, Unasked, Awaited, Requests
<1>6. CASE HasRoom(r) /\ Surface(r) /\ requests' = requests \ {r}
  <2>1. /\ LayoutOK(tabs') /\ activeTabId' \in Uids \cup {NoId}
        /\ hydrated => activeTabId' \in TabIdsIn(tabs')
        /\ maximizedPaneId' \in Uids \cup {NoId}
        /\ \A s : s # r.session => NoMore(tabs, tabs', s)
        /\ ~Shows(tabs, r.session) => AtMostOne(tabs', r.session)
    BY <1>6, SurfaceDone
  <2>2. LayoutHolds'
    BY <1>2, <1>4, <2>1, LayoutStep
  <2>3. PlainTypes' /\ Provenance'
    BY <1>2, <1>6 DEF WsIInv, PlainTypes, Provenance, Unasked, Awaited
  <2>4. \A q \in requests' : Awaited(q.session) /\ q.session # r.session
    BY <1>5, <1>6 DEF Awaited
  <2>5. r.session \notin Told \/ r.session \in opened \/ AtMostOne(tabs', r.session)
    <3>1. CASE r.session \notin Told \/ r.session \in opened
      BY <3>1
    <3>2. CASE r.session \in Told \ opened
      <4>1. Awaited(r.session)
        BY DEF Awaited
      <4>2. ~Shows(tabs, r.session)
        BY <1>5, <3>2, <4>1 DEF WsIInv, ShownRight
      <4> QED
        BY <2>1, <4>2
    <3> QED
      BY <3>1, <3>2
  <2>6. ShownRight'
    BY <1>2, <1>5, <2>1, <2>4, <2>5, ArrivalShown
  <2> QED
    BY <2>2, <2>3, <2>6 DEF WsIInv
<1>7. CASE NoRoom(r)
  <2> DEFINE undo == [r EXCEPT !.stage = "undo"]
  <2>1. /\ requests' \subseteq (requests \ {r}) \cup {undo}
        /\ tabs' = tabs /\ activeTabId' = activeTabId /\ maximizedPaneId' = maximizedPaneId
    BY <1>7 DEF NoRoom
  <2>2. undo \in Requests /\ undo.session = r.session
    BY <1>5 DEF Requests
  <2> HIDE DEF undo
  <2>3. LayoutHolds'
    BY <1>2, <1>3, <1>4, <2>1, LayoutStep
  <2>4. PlainTypes'
    BY <1>2, <2>1, <2>2 DEF WsIInv, PlainTypes
  <2>5. \A s : Awaited(s)' => Awaited(s)
    BY <2>1, <2>2 DEF Awaited
  <2>6. Provenance'
    <3>1. \A s \in Sessions : Unasked(s)' => s \notin alive' /\ s \notin older' /\ ~Awaited(s)'
      BY <1>2, <2>5 DEF WsIInv, Provenance, Unasked
    <3>2. \A q \in requests' : q.session \notin Existing /\ q.session \notin older'
      BY <1>2, <1>5, <2>1, <2>2 DEF WsIInv, Provenance
    <3>3. \A p, q \in requests' : p.session = q.session => p = q
      BY <1>5, <2>1, <2>2 DEF WsIInv, Provenance
    <3> QED
      BY <3>1, <3>2, <3>3 DEF Provenance
  <2>7. ShownRight'
    BY <1>2, <2>1, <2>5 DEF WsIInv, ShownRight
  <2> QED
    BY <2>3, <2>4, <2>6, <2>7 DEF WsIInv
<1> QED
  BY <1>1, <1>6, <1>7

\* So does signing in.
LEMMA SignInHolds ==
  ASSUME WsIInv, SignIn
  PROVE  WsIInv'
<1>1. /\ ~SignedIn /\ logins < MaxLogins /\ logins' = logins + 1 /\ login' = logins'
      /\ hydrate(stored, tabs) /\ persist /\ autoBound' = FALSE
      /\ older' = {s \in alive : askedBy[s] = 0}
      /\ UNCHANGED <<maximizedPaneId, alive, requests, askedBy, opened, page>>
  BY DEF SignIn
<1>2. ~hydrated /\ stored = NoLayout /\ LayoutOK(tabs) /\ maximizedPaneId \in Uids \cup {NoId}
  BY <1>1 DEF WsIInv, LayoutHolds
<1>3. /\ hydrated' = TRUE /\ LayoutOK(tabs') /\ activeTabId' \in TabIdsIn(tabs')
      /\ NoMoreFor(tabs, tabs')
  BY <1>1, <1>2, HydrateDone
<1>4. logins \in Nat /\ MaxLogins \in Nat
  BY WorkspaceBounds DEF WsIInv, PlainTypes
<1>5. logins' \in 0 .. MaxLogins /\ login' \in 0 .. MaxLogins /\ login' # 0
  BY <1>1, <1>4
<1>6. LayoutHolds'
  <2>1. activeTabId' \in Uids
    BY <1>3, TabIdsUids
  <2>2. SignedIn'
    BY <1>5 DEF SignedIn
  <2>3. stored' = snapshot'
    BY <1>1, <1>3 DEF persist
  <2> QED
    BY <1>1, <1>2, <1>3, <2>1, <2>2, <2>3 DEF LayoutHolds
<1>7. PlainTypes'
  BY <1>1, <1>5 DEF WsIInv, PlainTypes
<1>8. Provenance'
  <2>1. \A s \in Sessions : Unasked(s)' => s \notin alive' /\ s \notin older' /\ ~Awaited(s)'
    BY <1>1 DEF WsIInv, Provenance, Unasked, Awaited
  <2>2. \A r \in requests' : r.session \notin Existing /\ r.session \notin older'
    <3> SUFFICES ASSUME NEW r \in requests
                 PROVE  r.session \notin Existing /\ r.session \notin older'
      BY <1>1
    <3>1. r.session \in Sessions /\ r.session \notin Existing /\ Awaited(r.session)
      BY DEF WsIInv, PlainTypes, Requests, Provenance, Awaited
    <3>2. ~Unasked(r.session)
      BY <3>1 DEF WsIInv, Provenance
    <3> QED
      BY <1>1, <3>1, <3>2 DEF Unasked
  <2> QED
    BY <1>1, <2>1, <2>2 DEF WsIInv, Provenance
<1>9. ShownRight'
  BY <1>1, <1>3, ShownKept DEF NoMoreFor
<1> QED
  BY <1>6, <1>7, <1>8, <1>9 DEF WsIInv

\* So does signing out.
LEMMA SignOutHolds ==
  ASSUME WsIInv, SignOut
  PROVE  WsIInv'
<1>1. /\ login' = 0 /\ tabs' = <<>> /\ activeTabId' = NoId /\ maximizedPaneId' = NoId
      /\ hydrated' = FALSE /\ stored' = NoLayout
      /\ UNCHANGED <<logins, alive, requests, autoBound, older, askedBy, opened, page>>
  BY DEF SignOut
<1>2. LayoutOK(tabs') /\ LeavesIn(tabs') = {}
  BY <1>1, NoTabs
<1>3. LayoutHolds'
  BY <1>1, <1>2 DEF LayoutHolds, SignedIn
<1>4. 0 \in 0 .. MaxLogins
  BY WorkspaceBounds
<1>5. PlainTypes' /\ Provenance'
  BY <1>1, <1>4 DEF WsIInv, PlainTypes, Provenance, Unasked, Awaited
<1>6. NoMoreFor(tabs, tabs')
  BY <1>2, FewerLeaves
<1>7. ShownRight'
  BY <1>1, <1>6, ShownKept DEF NoMoreFor
<1> QED
  BY <1>3, <1>5, <1>7 DEF WsIInv

\* So does a reload.
LEMMA ReloadHolds ==
  ASSUME WsIInv, Reload
  PROVE  WsIInv'
<1>1. /\ SignedIn /\ page' = 1 - page /\ requests' = {} /\ maximizedPaneId' = NoId
      /\ hydrate(stored, <<>>) /\ persist /\ autoBound' = FALSE /\ older' = Listed
      /\ UNCHANGED <<login, logins, alive, askedBy, opened>>
  BY DEF Reload
<1>2. stored = snapshot /\ LayoutOK(tabs)
  BY <1>1 DEF WsIInv, LayoutHolds
<1>3. /\ hydrated' = TRUE /\ LayoutOK(tabs') /\ activeTabId' \in TabIdsIn(tabs')
      /\ NoMoreFor(tabs, tabs')
  BY <1>1, <1>2, HydrateDone
<1>4. LayoutHolds'
  <2>1. activeTabId' \in Uids
    BY <1>3, TabIdsUids
  <2>2. SignedIn'
    BY <1>1 DEF SignedIn
  <2>3. stored' = snapshot'
    BY <1>1, <1>3 DEF persist
  <2> QED
    BY <1>1, <1>3, <2>1, <2>2, <2>3 DEF LayoutHolds
<1>5. PlainTypes'
  <2>1. page' \in {0, 1} /\ Listed \subseteq Sessions
    BY <1>1 DEF WsIInv, PlainTypes, Listed
  <2>2. older' \subseteq Sessions /\ autoBound' \in BOOLEAN /\ requests' \subseteq Requests
    BY <1>1, <2>1
  <2> QED
    BY <1>1, <2>1, <2>2 DEF WsIInv, PlainTypes
<1>6. Provenance'
  BY <1>1 DEF WsIInv, Provenance, Unasked, Awaited, Listed
<1>7. ShownRight'
  BY <1>1, <1>3, ShownKept DEF NoMoreFor
<1> QED
  BY <1>4, <1>5, <1>6, <1>7 DEF WsIInv

-----------------------------------------------------------------------------
\* The pane AutoBind fills exists.
LEMMA FirstOfFirst ==
  ASSUME Ready
  PROVE  firstLeaf(tabs[1].root).id \in PaneIds
<1>1. 1 \in 1 .. Len(tabs)
  BY ActiveFacts, LayoutFacts DEF Ready
<1>2. GoodRoot(tabs[1].root) /\ LeafIds(tabs[1].root) \subseteq PaneIds
  BY <1>1, LayoutFacts, IdsAre DEF Ready
<1>3. firstLeaf(tabs[1].root).id \in LeafIds(tabs[1].root)
  BY <1>2, FirstLeaf DEF GoodRoot, LeafIds
<1> QED
  BY <1>2, <1>3

\* So does AutoBind: what it shows is older than the page, if it can tell, so no
\* request waits for it.
LEMMA AutoBindHolds ==
  ASSUME WsIInv, AutoBind
  PROVE  WsIInv'
<1>1. /\ SignedIn /\ autoBound' = TRUE /\ persist
      /\ UNCHANGED <<activeTabId, maximizedPaneId, hydrated, login, logins, alive, requests,
                     older, askedBy, opened, page>>
  BY DEF AutoBind
<1>2. Ready /\ hydrated /\ LayoutOK(tabs)
  BY <1>1, HydratedReady DEF Ready
<1>3. /\ LayoutOK(tabs') /\ TabIdsIn(tabs') = TabIdsIn(tabs)
      /\ ShownRight'
  <2>1. CASE tabs' = tabs
    <3>1. NoMoreFor(tabs, tabs')
      BY <2>1, SameLeaves
    <3> QED
      BY <1>1, <1>2, <2>1, <3>1, ShownKept DEF NoMoreFor
  <2>2. CASE tabs' # tabs
    <3>1. PICK s \in Predating :
            /\ \A leaf \in allLeaves : leaf.session = NoSession
            /\ SetLeaf(firstLeaf(tabs[1].root).id, s)
      BY <2>2 DEF AutoBind
    <3>2. firstLeaf(tabs[1].root).id \in PaneIds /\ s \in Sessions
      BY <1>2, <3>1, FirstOfFirst DEF Ready, Predating, Listed, WsIInv, PlainTypes
    <3>3. /\ LayoutOK(tabs') /\ TabIdsIn(tabs') = TabIdsIn(tabs)
          /\ \A x : x # s => NoMore(tabs, tabs', x)
          /\ ~Shows(tabs, s) => AtMostOne(tabs', s)
      BY <1>2, <3>1, <3>2, ShownOnce
    <3>4. ~Shows(tabs, s)
      BY <1>2, <3>1, <3>2, IdsAre, NoSessionIsNone DEF Shows
    <3>5. ASSUME NEW x \in Told \ (Existing \cup opened')
          PROVE  /\ askedBy'[x] = 0 \/ Awaited(x)' => ~Shows(tabs', x)
                 /\ AtMostOne(tabs', x)
      <4>1. /\ askedBy[x] = 0 \/ Awaited(x) => ~Shows(tabs, x)
            /\ AtMostOne(tabs, x)
        BY <1>1 DEF WsIInv, ShownRight
      <4>2. Awaited(x)' => Awaited(x)
        BY <1>1 DEF Awaited
      <4>3. CASE x # s
        BY <1>1, <3>3, <4>1, <4>2, <4>3 DEF NoMore
      <4>4. CASE x = s
        <5>1. ~Unasked(x) /\ ~Awaited(x)
          <6>1. s \in older /\ s \in alive
            BY <3>1, <4>4 DEF Told, Predating
          <6> QED
            BY <3>2, <4>4, <6>1 DEF WsIInv, Provenance, Awaited
        <5>2. askedBy[x] # 0
          BY <5>1 DEF Unasked
        <5> QED
          BY <1>1, <3>3, <3>4, <4>2, <4>4, <5>1, <5>2
      <4> QED
        BY <4>3, <4>4
    <3> QED
      BY <3>3, <3>5 DEF ShownRight
  <2> QED
    BY <2>1, <2>2
<1>4. LayoutHolds'
  <2>1. /\ activeTabId' \in Uids \cup {NoId} /\ maximizedPaneId' \in Uids \cup {NoId}
        /\ hydrated' \in BOOLEAN /\ (hydrated' <=> SignedIn') /\ (hydrated => hydrated')
        /\ activeTabId' \in TabIdsIn(tabs')
    BY <1>1, <1>2, <1>3 DEF WsIInv, LayoutHolds, SignedIn, Ready
  <2> QED
    BY <1>1, <1>3, <2>1, LayoutStep
<1>5. PlainTypes' /\ Provenance'
  BY <1>1 DEF WsIInv, PlainTypes, Provenance, Unasked, Awaited
<1> QED
  BY <1>3, <1>4, <1>5 DEF WsIInv

\* A step of another part of the page.
LEMMA StutterHolds ==
  ASSUME WsIInv, UNCHANGED workspaceVars
  PROVE  WsIInv'
<1>1. UNCHANGED <<tabs, activeTabId, maximizedPaneId, hydrated, stored, login, logins, alive,
                  requests, autoBound, older, askedBy, opened, page>>
  BY DEF workspaceVars
<1>2. LayoutHolds'
  BY <1>1 DEF WsIInv, LayoutHolds, SignedIn, snapshot
<1>3. PlainTypes'
  BY <1>1 DEF WsIInv, PlainTypes
<1>4. Provenance'
  BY <1>1 DEF WsIInv, Provenance, Unasked, Awaited
<1>5. ShownRight'
  BY <1>1 DEF WsIInv, ShownRight, Awaited
<1> QED
  BY <1>2, <1>3, <1>4, <1>5 DEF WsIInv

\* The inductive invariant holds.
THEOREM WorkspaceInvariant == WorkspaceSpec => []WsIInv
<1>1. WorkspaceInit => WsIInv
  BY InitHolds
<1>2. WsIInv /\ [WorkspaceNext]_workspaceVars => WsIInv'
  <2> SUFFICES ASSUME WsIInv, [WorkspaceNext]_workspaceVars
               PROVE  WsIInv'
    OBVIOUS
  <2>1. CASE UserActs
    BY <2>1, UserHolds
  <2>2. CASE Request
    BY <2>2, RequestHolds
  <2>3. CASE SessionArrives
    BY <2>3, SessionArrivesHolds
  <2>4. CASE Undone
    BY <2>4, UndoneHolds
  <2>5. CASE SignIn
    BY <2>5, SignInHolds
  <2>6. CASE SignOut
    BY <2>6, SignOutHolds
  <2>7. CASE Reload
    BY <2>7, ReloadHolds
  <2>8. CASE AutoBind
    BY <2>8, AutoBindHolds
  <2>9. CASE UNCHANGED workspaceVars
    BY <2>9, StutterHolds
  <2> QED
    BY <2>1, <2>2, <2>3, <2>4, <2>5, <2>6, <2>7, <2>8, <2>9 DEF WorkspaceNext, UserActs
<1> QED
  BY <1>1, <1>2, PTL DEF WorkspaceSpec

\* What the properties say of each tab.
LEMMA TabTypes ==
  ASSUME LayoutOK(tabs), NEW i \in DOMAIN tabs
  PROVE  /\ tabs[i].id \in Uids /\ tabs[i].focus \in Uids
         /\ tabs[i].focus \in LeafIds(tabs[i].root)
         /\ Cardinality(DOMAIN tabs[i].root) <= MaxLeaves /\ IsTree(tabs[i].root)
         /\ \A p \in DOMAIN tabs[i].root : p \in Paths /\ tabs[i].root[p] \in Leaves
<1>1. GoodTab(tabs[i]) /\ GoodRoot(tabs[i].root)
  BY LayoutFacts
<1>2. \A p \in DOMAIN tabs[i].root : p \in Paths
  BY <1>1, TreeFacts DEF GoodRoot
<1> QED
  BY <1>1, <1>2, GoodFacts DEF GoodTab, GoodRoot

\* The variables of the workspace have their types.
THEOREM WorkspaceTypes == WorkspaceSpec => []WorkspaceTypeOK
<1>1. WsIInv => WorkspaceTypeOK
  <2> SUFFICES ASSUME WsIInv
               PROVE  WorkspaceTypeOK
    OBVIOUS
  <2>1. LayoutHolds /\ PlainTypes /\ LayoutOK(tabs)
    BY DEF WsIInv, LayoutHolds
  <2>2. \A i \in DOMAIN tabs :
          /\ tabs[i].id \in Uids /\ tabs[i].focus \in Uids
          /\ \A p \in DOMAIN tabs[i].root : p \in Paths /\ tabs[i].root[p] \in Leaves
    BY <2>1, TabTypes
  <2> QED
    BY <2>1, <2>2 DEF WorkspaceTypeOK, LayoutHolds, PlainTypes
<1> QED
  BY <1>1, WorkspaceInvariant, PTL

\* However panes are split, closed, moved, duplicated and restored, and whenever
\* a session arrives: one uid each, a focus in each tab, an active tab, both limits kept.
THEOREM PanesStayConsistent == WorkspaceSpec => []PanesConsistent
<1>1. WsIInv => PanesConsistent
  <2> SUFFICES ASSUME WsIInv
               PROVE  PanesConsistent
    OBVIOUS
  <2>1. LayoutOK(tabs) /\ (hydrated => activeTabId \in TabIdsIn(tabs)) /\ Len(tabs) <= MaxTabs
    BY DEF WsIInv, LayoutHolds, LayoutOK
  <2>2. ~SameId(snapshot) /\ TabIds = TabIdsIn(tabs)
    BY <2>1, NoIdTwice, IdsAre
  <2>3. \A i \in DOMAIN tabs :
          /\ tabs[i].focus \in LeafIds(tabs[i].root)
          /\ Cardinality(DOMAIN tabs[i].root) <= MaxLeaves
          /\ IsTree(tabs[i].root)
    BY <2>1, TabTypes
  <2> QED
    BY <2>1, <2>2, <2>3 DEF PanesConsistent
<1> QED
  BY <1>1, WorkspaceInvariant, PTL

\* A session is shown twice only if the user opened it again, when the browser's
\* clock is not ahead of the server's.
THEOREM ShownOnlyOnce == WorkspaceSpec => []OpenedOnce
<1>1. WsIInv => OpenedOnce
  <2> SUFFICES ASSUME WsIInv
               PROVE  OpenedOnce
    OBVIOUS
  <2>1. allLeaves = LeavesIn(tabs)
    BY IdsAre DEF WsIInv, LayoutHolds
  <2>2. ~BrowserAhead => \A s \in Sessions \ (Existing \cup opened) : AtMostOne(tabs, s)
    BY DEF WsIInv, ShownRight, Told
  <2> QED
    BY <2>1, <2>2 DEF OpenedOnce, AtMostOne
<1> QED
  BY <1>1, WorkspaceInvariant, PTL

Surfaced(r) ==
  r.stage = "made" /\ r.how \in {"tab", "split"} /\ page' = page =>
    \/ r \in requests'
    \/ [r EXCEPT !.stage = "undo"] \in requests'
    \/ \E i \in DOMAIN tabs' : \E p \in DOMAIN tabs'[i].root :
         tabs'[i].root[p].session = r.session

\* A session asked for from the toolbar, a shortcut, the palette or the sidebar
\* comes up in a pane, or its end is asked for; nothing is said of a pane's own
\* buttons.
THEOREM CreatedSurfaces == WorkspaceSpec => CreatedHasSurface
<1>1. WsIInv /\ [WorkspaceNext]_workspaceVars => \A r \in requests : Surfaced(r)
  <2> SUFFICES ASSUME WsIInv, [WorkspaceNext]_workspaceVars, NEW r \in requests
               PROVE  Surfaced(r)
    OBVIOUS
  <2>1. CASE requests \subseteq requests'
    BY <2>1 DEF Surfaced
  <2>2. CASE UserActs
    <3>1. Saved
      BY <2>2, UserSteady, HydratedReady DEF UserActs, NewBlankTab, CloseTab, ActivateTab,
         FocusPane, DuplicateTab, SwapWithNext, MovePaneToTab, ClosePane, ToggleMaximize,
         ApplyPreset, MoveTab, OpenSession, Choose, ReplaceLayout
    <3>2. requests' = requests
      BY <3>1 DEF Saved, accountVars
    <3> QED
      BY <2>1, <3>2
  <2>3. CASE SessionArrives
    <3>1. PICK q \in requests :
            \/ HasRoom(q) /\ Surface(q) /\ requests' = requests \ {q}
            \/ ~HasRoom(q) /\ NoRoom(q)
      BY <2>3 DEF SessionArrives
    <3>2. CASE q # r
      BY <3>1, <3>2 DEF NoRoom, Surfaced
    <3>3. CASE q = r /\ HasRoom(q) /\ Surface(q)
      <4>1. LayoutOK(tabs') /\ Shows(tabs', r.session)
        BY <3>3, SurfaceDone
      <4>2. DOMAIN tabs' = 1 .. Len(tabs')
        BY <4>1, LayoutFacts
      <4> QED
        BY <4>1, <4>2 DEF Surfaced, Shows, LeavesIn, LeafSet
    <3>4. CASE q = r /\ NoRoom(q)
      BY <3>4 DEF NoRoom, Surfaced
    <3> QED
      BY <3>1, <3>2, <3>3, <3>4
  <2>4. CASE Undone
    BY <2>4 DEF Undone, Surfaced
  <2>5. CASE Reload
    <3>1. page' # page
      BY <2>5 DEF Reload, WsIInv, PlainTypes
    <3> QED
      BY <3>1 DEF Surfaced
  <2>6. Request \/ SignIn \/ SignOut \/ AutoBind \/ UNCHANGED workspaceVars
          => requests \subseteq requests'
    BY DEF Request, SignIn, SignOut, AutoBind, workspaceVars
  <2> QED
    BY <2>1, <2>2, <2>3, <2>4, <2>5, <2>6 DEF WorkspaceNext, UserActs
<1>2. (\A r \in requests : Surfaced(r)) =>
        \A r \in requests :
          r.stage = "made" /\ r.how \in {"tab", "split"} /\ page' = page =>
            \/ r \in requests'
            \/ [r EXCEPT !.stage = "undo"] \in requests'
            \/ \E i \in DOMAIN tabs' : \E p \in DOMAIN tabs'[i].root :
                 tabs'[i].root[p].session = r.session
  BY DEF Surfaced
<1> QED
  BY <1>1, <1>2, WorkspaceInvariant, PTL DEF WorkspaceSpec, CreatedHasSurface

\* A reload gives tabs, panes and focus back.
THEOREM ReloadsRestore == WorkspaceSpec => ReloadRestores
<1>1. WsIInv /\ [WorkspaceNext]_workspaceVars =>
        (page' # page /\ ~TooDeep => tabs' = tabs /\ activeTabId' = activeTabId)
  <2> SUFFICES ASSUME WsIInv, [WorkspaceNext]_workspaceVars, page' # page, ~TooDeep
               PROVE  tabs' = tabs /\ activeTabId' = activeTabId
    OBVIOUS
  <2>1. CASE Reload
    <3>1. SignedIn /\ hydrate(stored, <<>>)
      BY <2>1 DEF Reload
    <3>2. stored = snapshot /\ LayoutOK(tabs) /\ activeTabId \in TabIdsIn(tabs)
      BY <3>1 DEF WsIInv, LayoutHolds
    <3>3. sanitizeLayout(snapshot) = snapshot /\ snapshot # NoLayout
      BY <3>2, SnapshotRestored
    <3>4. tabs' = snapshot.tabs /\ activeTabId' = snapshot.activeTabId
      BY <3>1, <3>2, <3>3 DEF hydrate
    <3> QED
      BY <3>2, <3>4, SnapshotShaped
  <2>2. CASE UserActs
    <3>1. Saved
      BY <2>2, UserSteady, HydratedReady DEF UserActs, NewBlankTab, CloseTab, ActivateTab,
         FocusPane, DuplicateTab, SwapWithNext, MovePaneToTab, ClosePane, ToggleMaximize,
         ApplyPreset, MoveTab, OpenSession, Choose, ReplaceLayout
    <3> QED
      BY <3>1 DEF Saved, accountVars
  <2>3. Request \/ SessionArrives \/ Undone \/ SignIn \/ SignOut \/ AutoBind
          \/ UNCHANGED workspaceVars => page' = page
    BY DEF Request, SessionArrives, Undone, SignIn, SignOut, AutoBind, workspaceVars, pageVars
  <2> QED
    BY <2>1, <2>2, <2>3 DEF WorkspaceNext, UserActs
<1> QED
  BY <1>1, WorkspaceInvariant, PTL DEF WorkspaceSpec, ReloadRestores

-----------------------------------------------------------------------------
(***************************************************************************)
(* The command blocks of a terminal.                                       *)
(***************************************************************************)
LEMMA MinOfTwo ==
  ASSUME NEW a \in Int, NEW b \in Int
  PROVE  Min({a, b}) = IF a <= b THEN a ELSE b
<1>1. \E x \in {a, b} : \A y \in {a, b} : x <= y
  OBVIOUS
<1>2. Min({a, b}) \in {a, b} /\ \A y \in {a, b} : Min({a, b}) <= y
  BY <1>1 DEF Min
<1> QED
  BY <1>2

LEMMA MaxOfTwo ==
  ASSUME NEW a \in Int, NEW b \in Int
  PROVE  Max({a, b}) = IF a >= b THEN a ELSE b
<1>1. \E x \in {a, b} : \A y \in {a, b} : x >= y
  OBVIOUS
<1>2. Max({a, b}) \in {a, b} /\ \A y \in {a, b} : Max({a, b}) >= y
  BY <1>1 DEF Max
<1> QED
  BY <1>2

\* markers is a table the pane may keep.
MarkerTable(markers) ==
  /\ DOMAIN markers \subseteq Blocks /\ IsFiniteSet(DOMAIN markers)
  /\ \A b \in DOMAIN markers : markers[b] \in Lines \cup {Disposed}

Pending == pendingMarker \in Lines \cup {Disposed, NoMarker}
Cursor == baseY \in 0 .. Scrollback - ScreenRows /\ cursorY \in 0 .. ScreenRows - 1
RunsOK == runs \in BOOLEAN /\ lastBlock \in Blocks \cup {0}
View == viewportY \in 0 .. baseY
AlternateShown ==
  alternateY \in 0 .. ScreenRows - 1 \cup {Hidden} /\ (alternate => runs)

BlocksIInv ==
  /\ MarkerTable(markerByBlock) /\ Cardinality(DOMAIN markerByBlock) <= MaxMarkers
  /\ Pending /\ Cursor /\ RunsOK /\ View /\ AlternateShown

\* The cursor is on a line of the buffer.
LEMMA CursorOnLine ==
  ASSUME Cursor
  PROVE  cursorLine \in Lines
  BY CommandBlocksConstants DEF Cursor, cursorLine, Lines

\* Output moves markers up with their lines, and disposes of them with theirs.
LEMMA NewLineKeeps ==
  ASSUME NEW markers, NEW pending, Cursor, View,
         MarkerTable(markers), Cardinality(DOMAIN markers) <= MaxMarkers,
         pending \in Lines \cup {Disposed, NoMarker},
         NewLine(markers, pending)
  PROVE  /\ MarkerTable(markerByBlock)' /\ Cardinality(DOMAIN markerByBlock') <= MaxMarkers
         /\ Pending' /\ Cursor' /\ View'
<1> DEFINE scrolls == cursorY = ScreenRows - 1
           drop == IF scrolls /\ baseY + ScreenRows = Scrollback THEN 1 ELSE 0
           Shifted(line) ==
             IF line < 0 THEN line ELSE IF line < drop THEN Disposed ELSE line - drop
<1>1. /\ cursorY' = IF scrolls THEN cursorY ELSE cursorY + 1
      /\ baseY' = IF scrolls /\ drop = 0 THEN baseY + 1 ELSE baseY
      /\ markerByBlock' = [b \in DOMAIN markers |-> Shifted(markers[b])]
      /\ pendingMarker' = Shifted(pending)
      /\ viewportY' \in {baseY', IF viewportY < drop THEN 0 ELSE viewportY - drop}
  BY DEF NewLine
<1>2. ScreenRows \in Nat \ {0} /\ Scrollback \in Nat /\ Scrollback >= ScreenRows
  BY CommandBlocksConstants
<1>3. Cursor' /\ View'
  BY <1>1, <1>2 DEF Cursor, View
<1>4. \A line \in Lines \cup {Disposed} : Shifted(line) \in Lines \cup {Disposed}
  BY <1>2 DEF Lines, Disposed
<1>5. Pending'
  BY <1>1, <1>4 DEF Pending, NoMarker
<1> HIDE DEF Shifted
<1>6. MarkerTable(markerByBlock)'
  BY <1>1, <1>4 DEF MarkerTable
<1> QED
  BY <1>1, <1>3, <1>5, <1>6

\* At most MaxMarkers markers are kept when one more is added.
LEMMA KeptBounded ==
  ASSUME NEW markers, MarkerTable(markers), NEW b \in Blocks, NEW line \in Lines \cup {Disposed},
         Cardinality(DOMAIN markers) <= MaxMarkers,
         NEW more, more = [c \in DOMAIN markers \cup {b} |->
                             IF c = b THEN line ELSE markers[c]]
  PROVE  MarkerTable(Kept(more)) /\ Cardinality(DOMAIN Kept(more)) <= MaxMarkers
<1>1. DOMAIN more = DOMAIN markers \cup {b}
  OBVIOUS
<1>2. IsFiniteSet(DOMAIN more) /\ Cardinality(DOMAIN more) <= Cardinality(DOMAIN markers) + 1
  <2>1. IsFiniteSet(DOMAIN markers)
    BY DEF MarkerTable
  <2>2. Cardinality(DOMAIN markers) \in Nat
    BY <2>1, FS_CardinalityType
  <2>3. /\ IsFiniteSet(DOMAIN markers \cup {b})
        /\ Cardinality(DOMAIN markers \cup {b}) \in
             {Cardinality(DOMAIN markers), Cardinality(DOMAIN markers) + 1}
    BY <2>1, FS_AddElement
  <2> QED
    BY <1>1, <2>2, <2>3
<1>3. MarkerTable(more)
  BY <1>1, <1>2 DEF MarkerTable
<1>4. CASE Cardinality(DOMAIN more) <= MaxMarkers
  BY <1>3, <1>4 DEF Kept
<1>5. CASE ~(Cardinality(DOMAIN more) <= MaxMarkers)
  <2> DEFINE D == DOMAIN more \ {Min(DOMAIN more)}
  <2>1. D \subseteq DOMAIN more /\ Kept(more) = [c \in D |-> more[c]]
    BY <1>5 DEF Kept
  <2>2. Min(DOMAIN more) \in DOMAIN more
    BY <1>1, <1>3, MinOfNumbers, CommandBlocksConstants DEF MarkerTable
  <2>3. IsFiniteSet(D) /\ Cardinality(D) = Cardinality(DOMAIN more) - 1
    BY <1>2, <2>2, FS_RemoveElement
  <2>4. /\ Cardinality(DOMAIN more) \in Nat /\ Cardinality(DOMAIN markers) \in Nat
        /\ MaxMarkers \in Nat
    BY <1>2, FS_CardinalityType, CommandBlocksConstants DEF MarkerTable
  <2> HIDE DEF D
  <2>5. Cardinality(D) <= MaxMarkers
    BY <1>2, <2>3, <2>4
  <2> QED
    BY <1>3, <2>1, <2>3, <2>5 DEF MarkerTable
<1> QED
  BY <1>4, <1>5

LEMMA CommandEndsKeeps ==
  ASSUME BlocksIInv, CommandEnds
  PROVE  BlocksIInv'
<1> DEFINE more == [b \in DOMAIN markerByBlock \cup {lastBlock'} |->
                      IF b = lastBlock' THEN pendingMarker ELSE markerByBlock[b]]
           markers == IF pendingMarker = NoMarker THEN markerByBlock ELSE Kept(more)
<1>1. /\ runs' = FALSE /\ lastBlock' \in Blocks
      /\ NewLine(markers, NoMarker)
  BY DEF CommandEnds
<1>2. MarkerTable(markers) /\ Cardinality(DOMAIN markers) <= MaxMarkers
  BY <1>1, KeptBounded DEF BlocksIInv, Pending
<1> HIDE DEF markers
<1> QED
  BY <1>1, <1>2, NewLineKeeps DEF BlocksIInv, RunsOK, AlternateShown, alternate, CommandEnds

LEMMA ScrollKeeps ==
  ASSUME BlocksIInv, NEW line \in Int, scrollToLine(line)
  PROVE  BlocksIInv'
<1>1. baseY \in Nat
  BY CommandBlocksConstants DEF BlocksIInv, Cursor
<1>2. viewportY' \in 0 .. baseY
  <2>1. viewportY \in 0 .. baseY
    BY DEF BlocksIInv, View
  <2>2. Max({0, Min({line, baseY})}) \in 0 .. baseY
    BY <1>1, MinOfTwo, MaxOfTwo
  <2> QED
    BY <2>1, <2>2 DEF scrollToLine
<1>3. baseY' = baseY /\ runs' = runs /\ alternateY' = alternateY
  BY DEF scrollToLine
<1> QED
  <2>1. View' /\ AlternateShown'
    BY <1>2, <1>3 DEF BlocksIInv, View, AlternateShown, alternate, scrollToLine
  <2> QED
    BY <2>1 DEF BlocksIInv, MarkerTable, Pending, Cursor, RunsOK, scrollToLine

\* A block that is placed starts on a line of the buffer.
LEMMA PlacedOnLine ==
  ASSUME BlocksIInv, NEW b \in Placed
  PROVE  markerByBlock[b] \in Lines
  BY DEF Placed, hasMarker, BlocksIInv, MarkerTable, Disposed

LEMMA JumpKeeps ==
  ASSUME BlocksIInv, \/ \E b \in Blocks : jumpToBlock(b)
                     \/ \E dir \in {-1, 1} : jumpPrompt(dir)
  PROVE  BlocksIInv'
<1>1. CASE \E b \in Blocks : jumpToBlock(b)
  BY <1>1, PlacedOnLine, ScrollKeeps, CommandBlocksConstants DEF jumpToBlock, Lines
<1>2. ASSUME NEW dir \in {-1, 1}, jumpPrompt(dir)
      PROVE  BlocksIInv'
  <2> DEFINE prompts == {markerByBlock[b] : b \in Placed}
  <2>1. prompts \subseteq 0 .. Scrollback - 1
    BY PlacedOnLine DEF Lines
  <2>2. Ahead(dir) \subseteq prompts /\ Ahead(dir) # {}
    BY <1>2 DEF jumpPrompt, Ahead
  <2>3. Ahead(dir) \in SUBSET (0 .. Scrollback - 1)
    BY <2>1, <2>2
  <2>4. Min(Ahead(dir)) \in Int
    BY <2>2, <2>3, MinOfNumbers
  <2>5. Max(Ahead(dir)) \in Int
    <3> DEFINE S == {Scrollback - 1 - line : line \in Ahead(dir)}
    <3>1. Scrollback \in Nat
      BY CommandBlocksConstants
    <3>2. S \in SUBSET Nat /\ S # {}
      BY <2>2, <2>3, <3>1
    <3>3. PICK i \in S : \A j \in S : i <= j
      BY <3>2, LeastNumber
    <3>4. \E x \in Ahead(dir) : \A y \in Ahead(dir) : x >= y
      BY <2>3, <3>1, <3>3
    <3>5. Max(Ahead(dir)) \in Ahead(dir)
      BY <3>4 DEF Max
    <3> QED
      BY <2>3, <3>5
  <2>6. PICK line \in Int : scrollToLine(line)
    BY <1>2, <2>4, <2>5 DEF jumpPrompt
  <2> QED
    BY <2>6, ScrollKeeps
<1> QED
  BY <1>1, <1>2

LEMMA BlocksStep ==
  ASSUME BlocksIInv, [BlocksNext]_rangeVars
  PROVE  BlocksIInv'
<1>1. CASE Output
  BY <1>1, NewLineKeeps DEF Output, BlocksIInv, Pending, RunsOK, AlternateShown, alternate
<1>2. CASE MovesUp
  BY <1>2, CommandBlocksConstants DEF MovesUp, BlocksIInv, MarkerTable, Pending, Cursor,
     RunsOK, View, AlternateShown, Hidden, alternate
<1>9. CASE Alternates
  BY <1>9, CommandBlocksConstants DEF Alternates, BlocksIInv, MarkerTable, Pending, Cursor,
     RunsOK, View, AlternateShown, Hidden, alternate
<1>3. CASE CommandStarts
  BY <1>3, CursorOnLine DEF CommandStarts, bufferVars, BlocksIInv, MarkerTable, Pending,
     Cursor, RunsOK, View, AlternateShown, Hidden, alternate
<1>4. CASE CommandEnds
  BY <1>4, CommandEndsKeeps
<1>5. CASE Scrolls
  BY <1>5 DEF Scrolls, BlocksIInv, MarkerTable, Pending, Cursor, RunsOK, View, AlternateShown, Hidden, alternate
<1>6. CASE clearTerminal
  BY <1>6, CommandBlocksConstants DEF clearTerminal, BlocksIInv, MarkerTable, Pending,
     Cursor, RunsOK, View, AlternateShown, Hidden, alternate
<1>7. CASE \/ \E b \in Blocks : jumpToBlock(b)
           \/ \E dir \in {-1, 1} : jumpPrompt(dir)
  BY <1>7, JumpKeeps
<1>8. CASE UNCHANGED rangeVars
  BY <1>8 DEF rangeVars, bufferVars, BlocksIInv, MarkerTable, Pending, Cursor, RunsOK, View, AlternateShown, Hidden, alternate
<1> QED
  BY <1>1, <1>2, <1>3, <1>4, <1>5, <1>6, <1>7, <1>8, <1>9 DEF BlocksNext

LEMMA BlocksInitInv == BlocksInit => BlocksIInv
  BY CommandBlocksConstants, FS_EmptySet
  DEF BlocksInit, BlocksIInv, MarkerTable, Pending, Cursor, RunsOK, View, AlternateShown, Hidden, alternate

LEMMA BlocksInvariant == BlocksSpec => []BlocksIInv
  BY BlocksInitInv, BlocksStep, PTL DEF BlocksSpec

\* Type correctness of the command blocks: the markers kept stay within their
\* number and on the lines of the buffer, for any size of screen and buffer.
THEOREM BlocksTypes == BlocksSpec => []BlocksTypeOK
<1>1. BlocksIInv => BlocksTypeOK
  BY DEF BlocksIInv, BlocksTypeOK, MarkerTable, Pending, Cursor, RunsOK, View, AlternateShown, Hidden, alternate, MarkerLines
<1> QED
  BY <1>1, BlocksInvariant, PTL

=============================================================================
