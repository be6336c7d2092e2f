------------------------ MODULE WorkflowGraph_proofs ------------------------
(***************************************************************************)
(* Proofs about WorkflowGraph, for every finite configuration: what the    *)
(* depth-first search of detectCycles computes.  FoldSet and the search    *)
(* are choices of a function that satisfies its own equation; each is      *)
(* shown to exist and to be the only one, by induction on the size of what *)
(* is left, and what the search does is shown by the same induction.       *)
(***************************************************************************)
EXTENDS WorkflowGraph, FiniteSetTheorems, WellFoundedInduction, TLAPS

LEMMA SubsetInduction ==
  ASSUME NEW T, IsFiniteSet(T), NEW Good,
         \A s \in SUBSET T : (\A x \in s : s \ {x} \in Good) => s \in Good
  PROVE  \A s \in SUBSET T : s \in Good
<1> SUFFICES ASSUME NEW bad \in SUBSET T, bad \notin Good
             PROVE  FALSE
  OBVIOUS
<1> DEFINE R == StrictSubsetOrdering(T)
           S == FiniteSubsetsOf(T)
           Bad == {s \in SUBSET T : s \notin Good}
<1>1. IsWellFoundedOn(R, S)
  BY FS_StrictSubsetOrderingWellFounded
<1>2. Bad \subseteq S /\ Bad # {}
  BY FS_Subset DEF FiniteSubsetsOf
<1>3. \E m \in Bad : \A n \in Bad : <<n, m>> \notin R
  <2> HIDE DEF R, S, Bad
  <2>1. QED
    BY <1>1, <1>2, WFMin
<1>4. PICK m \in Bad : \A n \in Bad : <<n, m>> \notin R
  BY <1>3
<1>5. m \in SUBSET T /\ m \notin Good
  BY <1>4
<1>6. PICK x \in m : m \ {x} \notin Good
  BY <1>5
<1>7. m \ {x} \in Bad
  BY <1>5, <1>6
<1>8. <<m \ {x}, m>> \in R
  BY <1>4, <1>6 DEF StrictSubsetOrdering
<1>9. QED
  BY <1>4, <1>7, <1>8

LEMMA NatSetInduction ==
  ASSUME NEW Good, 0 \in Good, \A k \in Nat : k \in Good => k + 1 \in Good
  PROVE  \A k \in Nat : k \in Good
<1> SUFFICES ASSUME NEW bad \in Nat, bad \notin Good
             PROVE  FALSE
  OBVIOUS
<1> DEFINE R == OpToRel(<, Nat)
           Bad == {k \in Nat : k \notin Good}
<1>1. IsWellFoundedOn(R, Nat)
  BY NatLessThanWellFounded, Zenon
<1>2. \A j, k \in Nat : j < k => <<j, k>> \in R
  BY Zenon DEF OpToRel
<1> HIDE DEF R
<1>3. Bad \subseteq Nat /\ Bad # {}
  OBVIOUS
<1>4. \E m \in Bad : \A n \in Bad : <<n, m>> \notin R
  <2> HIDE DEF Bad
  <2>1. QED
    BY <1>1, <1>3, WFMin
<1>5. PICK m \in Bad : \A n \in Bad : <<n, m>> \notin R
  BY <1>4
<1>6. m \in Nat /\ m # 0 /\ m - 1 \in Nat /\ m - 1 < m /\ (m - 1) + 1 = m
  BY <1>5
<1>7. m - 1 \in Bad
  BY <1>5, <1>6
<1>8. QED
  BY <1>2, <1>5, <1>6, <1>7

Pick(s) == CHOOSE x \in s : TRUE

LEMMA PickIn ==
  ASSUME NEW s, s # {}
  PROVE  Pick(s) \in s
BY Zenon DEF Pick

Folds(dfs, base, T, f) ==
  f = [s \in SUBSET T |-> IF s = {} THEN base ELSE Reach(dfs, Pick(s), f[s \ {Pick(s)}])]
Folded(dfs, base, T) == ReachAll(dfs, T, base)
Fold(dfs, base, T)   == CHOOSE f : Folds(dfs, base, T, f)

LEMMA FoldedIs ==
  ASSUME NEW dfs, NEW base, NEW T, IsFiniteSet(T), NEW f, Folds(dfs, base, T, f)
  PROVE  Folded(dfs, base, T) = f[T]
<1> DEFINE g == Fold(dfs, base, T)
<1>1. Folds(dfs, base, T, g)
  BY Zenon DEF Fold
<1>2. Folded(dfs, base, T) = g[T]
  BY Zenon DEF Folded, ReachAll, FoldSet, MapThenFoldSet, Folds, Fold, Pick
<1> HIDE DEF g
<1>3. /\ f[{}] = base /\ g[{}] = base
      /\ \A s \in SUBSET T : s # {} =>
           /\ f[s] = Reach(dfs, Pick(s), f[s \ {Pick(s)}])
           /\ g[s] = Reach(dfs, Pick(s), g[s \ {Pick(s)}])
  <2>1. ASSUME NEW h, Folds(dfs, base, T, h)
        PROVE  /\ h[{}] = base
               /\ \A s \in SUBSET T : s # {} =>
                    h[s] = Reach(dfs, Pick(s), h[s \ {Pick(s)}])
    <3>1. \A s \in SUBSET T : h[s] = IF s = {} THEN base
                                     ELSE Reach(dfs, Pick(s), h[s \ {Pick(s)}])
      BY <2>1, Zenon DEF Folds
    <3>2. QED
      BY <3>1, Zenon
  <2>2. QED
    BY <1>1, <2>1
<1> DEFINE Good == {s \in SUBSET T : f[s] = g[s]}
<1>4. {} \in Good
  BY <1>3, Zenon
<1>5. ASSUME NEW s \in SUBSET T, \E x \in s : TRUE, \A x \in s : s \ {x} \in Good
      PROVE  s \in Good
  <2>1. s # {} /\ Pick(s) \in s
    BY <1>5, PickIn
  <2>2. f[s \ {Pick(s)}] = g[s \ {Pick(s)}]
    BY <1>5, <2>1
  <2>3. f[s] = g[s]
    BY <1>3, <2>1, <2>2
  <2>4. QED
    BY <2>3
<1>6. \A s \in SUBSET T : (\A x \in s : s \ {x} \in Good) => s \in Good
  <2> SUFFICES ASSUME NEW s \in SUBSET T, \A x \in s : s \ {x} \in Good
               PROVE  s \in Good
    OBVIOUS
  <2>1. CASE s = {}
    BY <1>4, <2>1
  <2>2. CASE s # {}
    BY <1>5, <2>2
  <2>3. QED
    BY <2>1, <2>2
<1>7. T \in Good
  <2> HIDE DEF Good
  <2>1. QED
    BY <1>6, SubsetInduction
<1>8. QED
  BY <1>2, <1>7

\* What a search may be replaced by: it visits no less than before.
Grows(dfs) ==
  /\ dfs \in [Node \X Search -> Search]
  /\ \A n \in Node, s \in Search : s.visited \subseteq dfs[<<n, s>>].visited

LEMMA ReachGrows ==
  ASSUME NEW dfs, Grows(dfs), NEW m \in Node, NEW s \in Search
  PROVE  Reach(dfs, m, s) \in Search /\ s.visited \subseteq Reach(dfs, m, s).visited
<1>1. /\ dfs[<<m, s>>] \in Search /\ s.visited \subseteq dfs[<<m, s>>].visited
  BY DEF Grows
<1> DEFINE t == [s EXCEPT !.cyclic = Meets(s, m)]
<1>2. Meets(s, m) \in BOOLEAN
  BY DEF Meets
<1>3. t \in Search /\ t.visited = s.visited
  BY <1>2 DEF Search
<1>4. Reach(dfs, m, s) \in {s, dfs[<<m, s>>], t}
  BY DEF Reach
<1> HIDE DEF t
<1>5. QED
  BY <1>1, <1>3, <1>4

\* The fold over the neighbors exists.
FoldsBelow(dfs, base, T, k, f) ==
  /\ f \in [SUBSET T -> Search]
  /\ \A s \in SUBSET T : base.visited \subseteq f[s].visited
  /\ \A s \in SUBSET T : Cardinality(s) < k =>
       f[s] = IF s = {} THEN base ELSE Reach(dfs, Pick(s), f[s \ {Pick(s)}])

FoldGrows(dfs, base, T, f) ==
  /\ Folds(dfs, base, T, f) /\ f \in [SUBSET T -> Search]
  /\ \A s \in SUBSET T : base.visited \subseteq f[s].visited

LEMMA FoldExists ==
  ASSUME NEW dfs, Grows(dfs), NEW base \in Search, NEW T \in SUBSET Node, IsFiniteSet(T)
  PROVE  \E f : FoldGrows(dfs, base, T, f)
<1> DEFINE Good == {k \in Nat : \E f : FoldsBelow(dfs, base, T, k, f)}
<1>1. \A s \in SUBSET T : IsFiniteSet(s) /\ Cardinality(s) \in Nat
                          /\ Cardinality(s) <= Cardinality(T)
  BY FS_Subset, FS_CardinalityType
<1>2. 0 \in Good
  <2> DEFINE f == [s \in SUBSET T |-> base]
  <2>1. FoldsBelow(dfs, base, T, 0, f)
    BY <1>1 DEF FoldsBelow
  <2> HIDE DEF f
  <2>2. QED
    BY <2>1
<1>3. ASSUME NEW k \in Nat, k \in Good
      PROVE  k + 1 \in Good
  <2>1. PICK f : FoldsBelow(dfs, base, T, k, f)
    BY <1>3
  <2> DEFINE next(s) == IF s = {} THEN base ELSE Reach(dfs, Pick(s), f[s \ {Pick(s)}])
             g == [s \in SUBSET T |-> next(s)]
  <2>2. ASSUME NEW s \in SUBSET T
        PROVE  next(s) \in Search /\ base.visited \subseteq next(s).visited
    <3>1. CASE s = {}
      BY <3>1
    <3>2. CASE s # {}
      <4>1. Pick(s) \in s
        BY <3>2, PickIn
      <4>2. f[s \ {Pick(s)}] \in Search /\ base.visited \subseteq f[s \ {Pick(s)}].visited
        BY <2>1 DEF FoldsBelow
      <4> DEFINE t == f[s \ {Pick(s)}]
      <4> HIDE DEF t
      <4>3. /\ Reach(dfs, Pick(s), t) \in Search
            /\ t.visited \subseteq Reach(dfs, Pick(s), t).visited
        BY <4>1, <4>2, ReachGrows DEF t
      <4>4. next(s) = Reach(dfs, Pick(s), t)
        BY <3>2 DEF t
      <4> HIDE DEF next
      <4>5. QED
        BY <4>2, <4>3, <4>4 DEF t
    <3>3. QED
      BY <3>1, <3>2
  <2>3. ASSUME NEW s \in SUBSET T, Cardinality(s) < k + 1, s # {}
        PROVE  g[s \ {Pick(s)}] = f[s \ {Pick(s)}]
    <3>1. Pick(s) \in s
      BY <2>3, PickIn
    <3> DEFINE r == s \ {Pick(s)}
    <3>2. r \in SUBSET T /\ Cardinality(r) = Cardinality(s) - 1
      BY <1>1, <3>1, FS_RemoveElement
    <3> HIDE DEF r
    <3>3. Cardinality(r) < k
      BY <1>1, <2>3, <3>2
    <3>4. f[r] = next(r)
      BY <2>1, <3>2, <3>3 DEF FoldsBelow
    <3>5. g[r] = next(r)
      BY <3>2
    <3>6. QED
      BY <3>4, <3>5 DEF r
  <2>4. \A s \in SUBSET T : Cardinality(s) < k + 1 =>
          g[s] = IF s = {} THEN base ELSE Reach(dfs, Pick(s), g[s \ {Pick(s)}])
    <3> SUFFICES ASSUME NEW s \in SUBSET T, Cardinality(s) < k + 1
                 PROVE  g[s] = IF s = {} THEN base ELSE Reach(dfs, Pick(s), g[s \ {Pick(s)}])
      OBVIOUS
    <3>1. g[s] = next(s)
      OBVIOUS
    <3> HIDE DEF g
    <3>2. QED
      BY <2>3, <3>1
  <2>5. g \in [SUBSET T -> Search] /\ \A s \in SUBSET T : g[s] = next(s)
    <3> HIDE DEF next
    <3>1. QED
      BY <2>2
  <2> HIDE DEF g, next
  <2>6. FoldsBelow(dfs, base, T, k + 1, g)
    BY <2>2, <2>4, <2>5 DEF FoldsBelow
  <2>7. QED
    BY <2>6
<1>4. Cardinality(T) + 1 \in Nat
  BY <1>1
<1>5. Cardinality(T) + 1 \in Good
  <2> HIDE DEF Good
  <2>1. QED
    BY <1>2, <1>3, <1>4, NatSetInduction
<1>6. PICK f : FoldsBelow(dfs, base, T, Cardinality(T) + 1, f)
  BY <1>5
<1>7. \A s \in SUBSET T :
        f[s] = IF s = {} THEN base ELSE Reach(dfs, Pick(s), f[s \ {Pick(s)}])
  <2>1. \A s \in SUBSET T : Cardinality(s) < Cardinality(T) + 1
    BY <1>1
  <2>2. QED
    BY <1>6, <2>1 DEF FoldsBelow
<1>8. f \in [SUBSET T -> Search] /\ \A s \in SUBSET T : base.visited \subseteq f[s].visited
  BY <1>6 DEF FoldsBelow
<1>9. Folds(dfs, base, T, f)
  BY <1>7, <1>8 DEF Folds
<1>10. FoldGrows(dfs, base, T, f)
  BY <1>8, <1>9 DEF FoldGrows
<1>11. QED
  BY <1>10

\* How much a visit may have before it: fewer nodes when it is the visit of a neighbor.
Ahead(n, s) == 2 * Cardinality(Node \ s.visited) + (IF n \in s.visited THEN 1 ELSE 0)

LEMMA AheadType ==
  ASSUME IsFiniteSet(Node), NEW n \in Node, NEW s \in Search
  PROVE  /\ Cardinality(Node \ s.visited) \in Nat /\ Ahead(n, s) \in Nat
         /\ Ahead(n, s) < 2 * Cardinality(Node) + 2
<1> DEFINE rest == Node \ s.visited
<1>1. /\ IsFiniteSet(rest) /\ Cardinality(rest) \in Nat
      /\ Cardinality(rest) <= Cardinality(Node) /\ Cardinality(Node) \in Nat
  BY FS_Subset, FS_CardinalityType
<1> HIDE DEF rest
<1>2. QED
  BY <1>1 DEF Ahead, rest

LEMMA AheadLess ==
  ASSUME IsFiniteSet(Node), NEW n \in Node, NEW s \in Search, NEW t \in Search,
         NEW m \in Node \ t.visited, s.visited \union {n} \subseteq t.visited
  PROVE  Ahead(m, t) < Ahead(n, s)
<1> DEFINE old == Node \ s.visited
           new == Node \ t.visited
<1>1. /\ IsFiniteSet(old) /\ Cardinality(old) \in Nat
      /\ new \in SUBSET old /\ IsFiniteSet(new) /\ Cardinality(new) \in Nat
      /\ Cardinality(new) <= Cardinality(old)
      /\ Cardinality(old) = Cardinality(new) => old = new
  <2>1. IsFiniteSet(old) /\ new \in SUBSET old
    BY FS_Subset
  <2> HIDE DEF old, new
  <2>2. QED
    BY <2>1, FS_Subset, FS_CardinalityType
<1>2. n \notin s.visited => n \in old /\ n \notin new
  OBVIOUS
<1>3. m \notin t.visited
  OBVIOUS
<1> HIDE DEF old, new
<1>4. /\ Ahead(m, t) = 2 * Cardinality(new)
      /\ Ahead(n, s) = 2 * Cardinality(old) + (IF n \in s.visited THEN 1 ELSE 0)
  BY <1>1, <1>3 DEF Ahead, old, new
<1>5. CASE n \in s.visited
  BY <1>1, <1>4, <1>5
<1>6. CASE n \notin s.visited
  <2>1. Cardinality(new) < Cardinality(old)
    BY <1>1, <1>2, <1>6
  <2>2. QED
    BY <1>1, <1>4, <1>6, <2>1
<1>7. QED
  BY <1>5, <1>6

Inside(n, s) == [s EXCEPT !.visited = @ \union {n}, !.path = @ \union {n}]
Leaving(n, t) == IF t.cyclic THEN t ELSE [t EXCEPT !.path = @ \ {n}]

LEMMA VisitIs ==
  ASSUME NEW dfs, NEW config, NEW n, NEW s
  PROVE  VisitNode(dfs, config, n, s) = Leaving(n, Folded(dfs, Inside(n, s), Targets(config, n)))
BY Zenon DEF VisitNode, Leaving, Folded, Inside

LEMMA InsideIs ==
  ASSUME NEW n \in Node, NEW s \in Search
  PROVE  /\ Inside(n, s) \in Search /\ Inside(n, s).visited = s.visited \union {n}
         /\ Inside(n, s).path = s.path \union {n} /\ Inside(n, s).cyclic = s.cyclic
BY DEF Inside, Search

LEMMA LeavingIs ==
  ASSUME NEW n \in Node, NEW t \in Search
  PROVE  /\ Leaving(n, t) \in Search /\ Leaving(n, t).visited = t.visited
         /\ Leaving(n, t).cyclic = t.cyclic
         /\ ~ t.cyclic => Leaving(n, t).path = t.path \ {n}
<1> DEFINE r == [t EXCEPT !.path = @ \ {n}]
<1>1. r \in Search /\ r.visited = t.visited /\ r.cyclic = t.cyclic /\ r.path = t.path \ {n}
  BY DEF Search
<1>2. Leaving(n, t) = IF t.cyclic THEN t ELSE r
  BY DEF Leaving
<1> HIDE DEF r
<1>3. QED
  BY <1>1, <1>2

LEMMA TargetsType ==
  ASSUME IsFiniteSet(Node), NEW config \in WorkflowConfig, NEW n \in Node
  PROVE  Targets(config, n) \in SUBSET Node /\ IsFiniteSet(Targets(config, n))
<1>1. config.edges \subseteq Edge
  BY DEF WorkflowConfig
<1>2. Targets(config, n) \subseteq Node
  BY <1>1 DEF Targets, Edge
<1>3. QED
  BY <1>2, FS_Subset

\* Whatever agrees with a search that grows on what is ahead is as good for the visit.
LEMMA VisitAgrees ==
  ASSUME IsFiniteSet(Node), NEW config \in WorkflowConfig, NEW g, Grows(g), NEW dfs,
         NEW n \in Node, NEW s \in Search,
         \A m \in Node, t \in Search : Ahead(m, t) < Ahead(n, s) => dfs[<<m, t>>] = g[<<m, t>>]
  PROVE  VisitNode(dfs, config, n, s) = VisitNode(g, config, n, s)
<1> DEFINE T == Targets(config, n)
           base == Inside(n, s)
<1>1. T \in SUBSET Node /\ IsFiniteSet(T) /\ base \in Search
      /\ base.visited = s.visited \union {n}
  BY TargetsType, InsideIs
<1> HIDE DEF T, base
<1>2. PICK f : FoldGrows(g, base, T, f)
  BY <1>1, FoldExists
<1>2a. /\ Folds(g, base, T, f) /\ f \in [SUBSET T -> Search]
       /\ \A r \in SUBSET T : base.visited \subseteq f[r].visited
  BY <1>2 DEF FoldGrows
<1>3. ASSUME NEW m \in Node, NEW t \in Search, base.visited \subseteq t.visited
      PROVE  Reach(dfs, m, t) = Reach(g, m, t)
  <2>1. m \notin t.visited => dfs[<<m, t>>] = g[<<m, t>>]
    BY <1>1, <1>3, AheadLess
  <2>2. QED
    BY <2>1 DEF Reach
<1>4. \A r \in SUBSET T :
        f[r] = IF r = {} THEN base ELSE Reach(g, Pick(r), f[r \ {Pick(r)}])
  BY <1>2a, Zenon DEF Folds
<1>5. \A r \in SUBSET T : r # {} =>
        Reach(dfs, Pick(r), f[r \ {Pick(r)}]) = Reach(g, Pick(r), f[r \ {Pick(r)}])
  <2> SUFFICES ASSUME NEW r \in SUBSET T, r # {}
               PROVE  Reach(dfs, Pick(r), f[r \ {Pick(r)}])
                        = Reach(g, Pick(r), f[r \ {Pick(r)}])
    OBVIOUS
  <2>1. Pick(r) \in Node
    BY <1>1, PickIn
  <2>2. r \ {Pick(r)} \in SUBSET T
    OBVIOUS
  <2>3. QED
    BY <1>2a, <1>3, <2>1, <2>2
<1>6. Folds(dfs, base, T, f)
  <2>1. \A r \in SUBSET T :
          f[r] = IF r = {} THEN base ELSE Reach(dfs, Pick(r), f[r \ {Pick(r)}])
    BY <1>4, <1>5
  <2>2. QED
    BY <1>2a, <2>1 DEF Folds
<1>7. Folded(dfs, base, T) = Folded(g, base, T)
  BY <1>1, <1>2a, <1>6, FoldedIs
<1>8. QED
  BY <1>7, VisitIs DEF T, base

LEMMA VisitGrows ==
  ASSUME IsFiniteSet(Node), NEW config \in WorkflowConfig, NEW g, Grows(g),
         NEW n \in Node, NEW s \in Search
  PROVE  VisitNode(g, config, n, s) \in Search
         /\ s.visited \union {n} \subseteq VisitNode(g, config, n, s).visited
<1> DEFINE T == Targets(config, n)
           base == Inside(n, s)
<1>1. T \in SUBSET Node /\ IsFiniteSet(T) /\ base \in Search
      /\ base.visited = s.visited \union {n}
  BY TargetsType, InsideIs
<1> HIDE DEF T, base
<1>2. PICK f : FoldGrows(g, base, T, f)
  BY <1>1, FoldExists
<1>2a. /\ Folds(g, base, T, f) /\ f \in [SUBSET T -> Search]
       /\ \A r \in SUBSET T : base.visited \subseteq f[r].visited
  BY <1>2 DEF FoldGrows
<1>3. Folded(g, base, T) = f[T] /\ f[T] \in Search /\ base.visited \subseteq f[T].visited
  BY <1>1, <1>2a, FoldedIs
<1>4. VisitNode(g, config, n, s) = Leaving(n, f[T])
  BY <1>3, VisitIs DEF T, base
<1>5. QED
  BY <1>1, <1>3, <1>4, LeavingIs

\* A search exists: it is right for more and more of what is ahead.
RightBelow(config, k, g) ==
  /\ Grows(g)
  /\ \A n \in Node, s \in Search :
       Ahead(n, s) < k => g[<<n, s>>] = VisitNode(g, config, n, s)

LEMMA SearchExists ==
  ASSUME IsFiniteSet(Node), NEW config \in WorkflowConfig
  PROVE  \E g : /\ Grows(g)
                /\ \A n \in Node, s \in Search : g[<<n, s>>] = VisitNode(g, config, n, s)
<1> DEFINE Good == {k \in Nat : \E g : RightBelow(config, k, g)}
<1>1. 0 \in Good
  <2> DEFINE g == [call \in Node \X Search |-> call[2]]
  <2>1. \A n \in Node, s \in Search : g[<<n, s>>] = s
    OBVIOUS
  <2>2. Grows(g)
    BY <2>1 DEF Grows
  <2> HIDE DEF g
  <2>3. RightBelow(config, 0, g)
    <3>1. \A n \in Node, s \in Search : ~ (Ahead(n, s) < 0)
      <4> SUFFICES ASSUME NEW n \in Node, NEW s \in Search
                   PROVE  ~ (Ahead(n, s) < 0)
        OBVIOUS
      <4>1. Ahead(n, s) \in Nat
        BY AheadType
      <4>2. QED
        BY <4>1
    <3>2. QED
      BY <2>2, <3>1 DEF RightBelow
  <2>4. QED
    BY <2>3
<1>2. ASSUME NEW k \in Nat, k \in Good
      PROVE  k + 1 \in Good
  <2>1. PICK g : RightBelow(config, k, g)
    BY <1>2
  <2>2. Grows(g)
    BY <2>1 DEF RightBelow
  <2> DEFINE h == [call \in Node \X Search |-> VisitNode(g, config, call[1], call[2])]
  <2>3. ASSUME NEW n \in Node, NEW s \in Search
        PROVE  /\ h[<<n, s>>] = VisitNode(g, config, n, s)
               /\ VisitNode(g, config, n, s) \in Search
               /\ s.visited \subseteq VisitNode(g, config, n, s).visited
    <3>1. h[<<n, s>>] = VisitNode(g, config, n, s)
      OBVIOUS
    <3> HIDE DEF h
    <3>2. QED
      BY <2>2, <3>1, VisitGrows
  <2>4. Grows(h)
    <3>1. \A call \in Node \X Search : VisitNode(g, config, call[1], call[2]) \in Search
      BY <2>3
    <3>2. h \in [Node \X Search -> Search]
      BY <3>1
    <3> HIDE DEF h
    <3>3. QED
      BY <2>3, <3>2 DEF Grows
  <2> HIDE DEF h
  <2>5. ASSUME NEW n \in Node, NEW s \in Search, Ahead(n, s) < k + 1
        PROVE  h[<<n, s>>] = VisitNode(h, config, n, s)
    <3>1. ASSUME NEW m \in Node, NEW t \in Search, Ahead(m, t) < Ahead(n, s)
          PROVE  h[<<m, t>>] = g[<<m, t>>]
      <4>1. Ahead(m, t) < k
        <5>1. Ahead(m, t) \in Nat /\ Ahead(n, s) \in Nat
          BY AheadType
        <5>2. QED
          BY <2>5, <3>1, <5>1
      <4>2. QED
        BY <2>1, <2>3, <4>1 DEF RightBelow
    <3>2. VisitNode(h, config, n, s) = VisitNode(g, config, n, s)
      BY <2>2, <3>1, VisitAgrees
    <3>3. QED
      BY <2>3, <3>2
  <2>6. RightBelow(config, k + 1, h)
    BY <2>4, <2>5 DEF RightBelow
  <2>7. QED
    BY <2>6
<1> DEFINE all == 2 * Cardinality(Node) + 2
<1>3. all \in Nat
  BY FS_CardinalityType
<1> HIDE DEF all
<1>4. all \in Good
  <2> HIDE DEF Good
  <2>1. QED
    BY <1>1, <1>2, <1>3, NatSetInduction
<1>5. PICK g : RightBelow(config, all, g)
  BY <1>4
<1>6. \A n \in Node, s \in Search : Ahead(n, s) < all
  BY AheadType DEF all
<1>7. QED
  BY <1>5, <1>6 DEF RightBelow

\* The search of detectCycles is that one.
IsSearch(config, dfs) ==
  dfs = [call \in Node \X Search |-> VisitNode(dfs, config, call[1], call[2])]
TheSearch(config) == CHOOSE dfs : IsSearch(config, dfs)

LEMMA SearchUnique ==
  ASSUME IsFiniteSet(Node), NEW config \in WorkflowConfig, NEW dfs, IsSearch(config, dfs),
         NEW g, Grows(g), \A n \in Node, s \in Search : g[<<n, s>>] = VisitNode(g, config, n, s)
  PROVE  dfs = g
<1>0. \A n \in Node, s \in Search : dfs[<<n, s>>] = VisitNode(dfs, config, n, s)
  <2> SUFFICES ASSUME NEW n \in Node, NEW s \in Search
               PROVE  dfs[<<n, s>>] = VisitNode(dfs, config, n, s)
    OBVIOUS
  <2>1. \A call \in Node \X Search : dfs[call] = VisitNode(dfs, config, call[1], call[2])
    BY Zenon DEF IsSearch
  <2>2. QED
    BY <2>1
<1> DEFINE Same(k) == \A n \in Node, s \in Search : Ahead(n, s) < k =>
                       dfs[<<n, s>>] = g[<<n, s>>]
           Good == {k \in Nat : Same(k)}
<1>1. 0 \in Good
  <2> SUFFICES ASSUME NEW n \in Node, NEW s \in Search
               PROVE  ~ (Ahead(n, s) < 0)
    OBVIOUS
  <2>1. Ahead(n, s) \in Nat
    BY AheadType
  <2>2. QED
    BY <2>1
<1>2. ASSUME NEW k \in Nat, k \in Good
      PROVE  k + 1 \in Good
  <2>0. SUFFICES Same(k + 1)
    <3> HIDE DEF Same
    <3>1. QED
      BY <2>0
  <2> SUFFICES ASSUME NEW n \in Node, NEW s \in Search, Ahead(n, s) < k + 1
               PROVE  dfs[<<n, s>>] = g[<<n, s>>]
    OBVIOUS
  <2>1. ASSUME NEW m \in Node, NEW t \in Search, Ahead(m, t) < Ahead(n, s)
        PROVE  dfs[<<m, t>>] = g[<<m, t>>]
    <3>1. Ahead(m, t) \in Nat /\ Ahead(n, s) \in Nat
      BY AheadType
    <3>2. Ahead(m, t) < k
      BY <2>1, <3>1
    <3>3. QED
      BY <1>2, <3>2
  <2>2. VisitNode(dfs, config, n, s) = VisitNode(g, config, n, s)
    BY <2>1, VisitAgrees
  <2>3. QED
    BY <1>0, <2>2
<1> DEFINE all == 2 * Cardinality(Node) + 2
<1>3. all \in Nat
  BY FS_CardinalityType
<1>4. \A n \in Node, s \in Search : Ahead(n, s) < all
  BY AheadType
<1> HIDE DEF all
<1>5. all \in Good
  <2> HIDE DEF Good
  <2>1. QED
    BY <1>1, <1>2, <1>3, NatSetInduction
<1>6. \A n \in Node, s \in Search : dfs[<<n, s>>] = g[<<n, s>>]
  BY <1>4, <1>5
<1>7. DOMAIN dfs = Node \X Search
  BY Zenon DEF IsSearch
<1>8. g \in [Node \X Search -> Search]
  BY DEF Grows
<1>9. \A call \in Node \X Search : dfs[call] = g[call]
  BY <1>6
<1>10. dfs = [call \in Node \X Search |-> dfs[call]]
  BY Zenon DEF IsSearch
<1>11. QED
  BY <1>8, <1>9, <1>10

Nothing == [visited |-> {}, path |-> {}, cyclic |-> FALSE]

LEMMA DetectIs ==
  ASSUME NEW config
  PROVE  detectCycles(config) = ReachAll(TheSearch(config), Node, Nothing).cyclic
BY Zenon DEF detectCycles, TheSearch, IsSearch, Nothing

LEMMA TheSearchIs ==
  ASSUME IsFiniteSet(Node), NEW config \in WorkflowConfig
  PROVE  /\ Grows(TheSearch(config))
         /\ \A n \in Node, s \in Search :
              TheSearch(config)[<<n, s>>] = VisitNode(TheSearch(config), config, n, s)
<1>1. PICK g : /\ Grows(g)
               /\ \A n \in Node, s \in Search : g[<<n, s>>] = VisitNode(g, config, n, s)
  BY SearchExists
<1>2. IsSearch(config, g)
  <2> DEFINE h == [call \in Node \X Search |-> VisitNode(g, config, call[1], call[2])]
  <2>1. \A call \in Node \X Search : h[call] = g[call]
    BY <1>1
  <2>2. DOMAIN h = Node \X Search /\ DOMAIN g = Node \X Search
    BY <1>1 DEF Grows
  <2>3. h = [call \in Node \X Search |-> h[call]] /\ g = [call \in Node \X Search |-> g[call]]
    BY <1>1, <2>2 DEF Grows
  <2>4. h = g
    <3> HIDE DEF h
    <3>1. QED
      BY <2>1, <2>3, Zenon
  <2>5. QED
    BY <2>4, Zenon DEF IsSearch
<1>3. IsSearch(config, TheSearch(config))
  BY <1>2, Zenon DEF TheSearch
<1>4. TheSearch(config) = g
  BY <1>1, <1>3, SearchUnique
<1>5. QED
  BY <1>1, <1>4

-----------------------------------------------------------------------------
(* What the search has left behind. *)

Finished(t) == t.visited \ t.path

\* The edges of the finished nodes can be ordered.
Ordered(config, done, R) ==
  /\ R \in SUBSET (done \X done)
  /\ \A a, b, c \in done : <<a, b>> \in R /\ <<b, c>> \in R => <<a, c>> \in R
  /\ \A a \in done : <<a, a>> \notin R
  /\ \A a \in done : \A b \in Targets(config, a) : <<a, b>> \in R
Sound(config, done) == \E R : Ordered(config, done, R)

\* From t the search came to r, with no cycle: the nodes are finished, the path is the same.
Came(config, t, nodes, r) ==
  ~ r.cyclic => /\ ~ t.cyclic /\ r.path = t.path /\ t.visited \subseteq r.visited
                /\ nodes \subseteq Finished(r) /\ Sound(config, Finished(r))

Fit(config, t) == t \in Search /\ t.path \subseteq t.visited /\ Sound(config, Finished(t))

LEMMA SoundMore ==
  ASSUME NEW config, NEW done, Sound(config, done), NEW n, n \notin done,
         Targets(config, n) \subseteq done
  PROVE  Sound(config, done \union {n})
<1>1. PICK R : Ordered(config, done, R)
  BY DEF Sound
<1> DEFINE more == done \union {n}
           Q == R \union ({n} \X done)
<1>2. Q \in SUBSET (more \X more)
  BY <1>1 DEF Ordered
<1>3. \A a, b : <<a, b>> \in Q <=> <<a, b>> \in R \/ (a = n /\ b \in done)
  OBVIOUS
<1>4. \A a, b : <<a, b>> \in R => a \in done /\ b \in done
  BY <1>1 DEF Ordered
<1>5. ASSUME NEW a \in more, NEW b \in more, NEW c \in more, <<a, b>> \in Q, <<b, c>> \in Q
      PROVE  <<a, c>> \in Q
  <2> HIDE DEF Q
  <2>1. b \in done /\ <<b, c>> \in R /\ c \in done
    BY <1>3, <1>4, <1>5
  <2>2. QED
    BY <1>1, <1>3, <1>4, <1>5, <2>1 DEF Ordered
<1>6. \A a \in more : <<a, a>> \notin Q
  <2> HIDE DEF Q
  <2>1. QED
    BY <1>1, <1>3, <1>4 DEF Ordered
<1>7. \A a \in more : \A b \in Targets(config, a) : <<a, b>> \in Q
  <2> HIDE DEF Q
  <2>1. QED
    BY <1>1, <1>3 DEF Ordered
<1>8. Ordered(config, more, Q)
  <2> HIDE DEF Q, more
  <2>1. QED
    BY <1>2, <1>5, <1>6, <1>7 DEF Ordered
<1>9. QED
  BY <1>8 DEF Sound

\* One more node of a loop over nodes.
LEMMA CameReach ==
  ASSUME NEW config, NEW dfs, Grows(dfs), NEW base, Fit(config, base), NEW m \in Node,
         NEW nodes, NEW t \in Search, base.visited \subseteq t.visited, Came(config, base, nodes, t),
         m \notin t.visited /\ Fit(config, t) => Came(config, t, {m}, dfs[<<m, t>>])
  PROVE  Came(config, base, nodes \union {m}, Reach(dfs, m, t))
<1>1. CASE t.cyclic
  <2>1. Reach(dfs, m, t) = t
    BY <1>1 DEF Reach
  <2>2. QED
    BY <1>1, <2>1 DEF Came
<1>2. CASE ~ t.cyclic
  <2>1. /\ ~ base.cyclic /\ t.path = base.path /\ base.visited \subseteq t.visited
        /\ nodes \subseteq Finished(t) /\ Sound(config, Finished(t)) /\ Fit(config, t)
    BY <1>2 DEF Came, Fit
  <2>2. CASE m \notin t.visited
    <3> DEFINE r == dfs[<<m, t>>]
    <3>1. Reach(dfs, m, t) = r
      BY <1>2, <2>2 DEF Reach
    <3>2. Came(config, t, {m}, r)
      BY <2>1, <2>2
    <3> HIDE DEF r
    <3>3. SUFFICES ASSUME ~ r.cyclic
                   PROVE  Came(config, base, nodes \union {m}, r)
      BY <3>1 DEF Came
    <3>4. /\ r.path = t.path /\ t.visited \subseteq r.visited /\ m \in Finished(r)
          /\ Sound(config, Finished(r))
      BY <3>2, <3>3 DEF Came
    <3>5. Finished(t) \subseteq Finished(r)
      BY <3>4 DEF Finished
    <3>6. QED
      BY <2>1, <3>4, <3>5 DEF Came
  <2>3. CASE m \in t.visited
    <3> DEFINE r == [t EXCEPT !.cyclic = Meets(t, m)]
    <3>1. Reach(dfs, m, t) = r
      BY <1>2, <2>3 DEF Reach
    <3>2. r.visited = t.visited /\ r.path = t.path /\ r.cyclic = (m \in t.path)
      BY DEF Meets, Search
    <3> HIDE DEF r
    <3>3. Finished(r) = Finished(t)
      BY <3>2 DEF Finished
    <3>4. ~ r.cyclic => m \in Finished(t)
      BY <2>3, <3>2 DEF Finished
    <3>5. QED
      BY <2>1, <3>1, <3>2, <3>3, <3>4 DEF Came
  <2>4. QED
    BY <2>2, <2>3
<1>3. QED
  BY <1>1, <1>2

\* A loop over nodes, when the search is right for every node that it comes to.
LEMMA CameAll ==
  ASSUME NEW config, NEW dfs, Grows(dfs), NEW base, Fit(config, base),
         NEW T \in SUBSET Node, IsFiniteSet(T),
         \A m \in T, t \in Search :
           base.visited \subseteq t.visited /\ m \notin t.visited /\ Fit(config, t) =>
             Came(config, t, {m}, dfs[<<m, t>>])
  PROVE  /\ ReachAll(dfs, T, base) \in Search
         /\ base.visited \subseteq ReachAll(dfs, T, base).visited
         /\ Came(config, base, T, ReachAll(dfs, T, base))
<1>0. base \in Search /\ Sound(config, Finished(base))
  BY DEF Fit
<1>1. PICK f : FoldGrows(dfs, base, T, f)
  BY <1>0, FoldExists
<1>2. /\ Folds(dfs, base, T, f) /\ f \in [SUBSET T -> Search]
      /\ \A r \in SUBSET T : base.visited \subseteq f[r].visited
  BY <1>1 DEF FoldGrows
<1>3. \A r \in SUBSET T : f[r] = IF r = {} THEN base ELSE Reach(dfs, Pick(r), f[r \ {Pick(r)}])
  BY <1>2, Zenon DEF Folds
<1> DEFINE Good == {r \in SUBSET T : Came(config, base, r, f[r])}
<1>4. ASSUME NEW s \in SUBSET T, \A x \in s : s \ {x} \in Good
      PROVE  s \in Good
  <2>1. CASE s = {}
    <3>1. f[s] = base
      BY <1>3, <2>1
    <3>2. Came(config, base, s, base)
      BY <1>0, <2>1 DEF Came
    <3>3. QED
      BY <3>1, <3>2
  <2>2. CASE s # {}
    <3> DEFINE m == Pick(s)
               r == s \ {m}
    <3>1. m \in s /\ r \in SUBSET T /\ s = r \union {m} /\ f[s] = Reach(dfs, m, f[r])
      BY <1>3, <2>2, PickIn
    <3>2. r \in Good
      BY <1>4, <3>1
    <3> HIDE DEF m, r
    <3>3. Came(config, base, r, f[r])
      BY <3>2
    <3>4. f[r] \in Search /\ base.visited \subseteq f[r].visited /\ m \in Node /\ m \in T
      BY <1>2, <3>1
    <3> DEFINE t == f[r]
    <3>5. t \in Search /\ base.visited \subseteq t.visited /\ Came(config, base, r, t)
          /\ f[s] = Reach(dfs, m, t)
      BY <3>1, <3>3, <3>4
    <3> HIDE DEF t, Good
    <3>6. m \notin t.visited /\ Fit(config, t) => Came(config, t, {m}, dfs[<<m, t>>])
      BY <3>4, <3>5
    <3>7. Came(config, base, r \union {m}, Reach(dfs, m, t))
      BY <3>4, <3>5, <3>6, CameReach
    <3>8. QED
      BY <3>1, <3>5, <3>7 DEF Good
  <2>3. QED
    BY <2>1, <2>2
<1>5. T \in Good
  <2> HIDE DEF Good
  <2>1. QED
    BY <1>4, SubsetInduction
<1>6. ReachAll(dfs, T, base) = f[T]
  BY <1>2, FoldedIs DEF Folded
<1>7. QED
  BY <1>2, <1>5, <1>6

\* The visit of a node, when the search is right for what is ahead of it.
LEMMA VisitCame ==
  ASSUME IsFiniteSet(Node), NEW config \in WorkflowConfig, NEW dfs, Grows(dfs),
         NEW n \in Node, NEW s, Fit(config, s), n \notin s.visited,
         \A m \in Node, t \in Search :
           Ahead(m, t) < Ahead(n, s) /\ m \notin t.visited /\ Fit(config, t) =>
             Came(config, t, {m}, dfs[<<m, t>>])
  PROVE  Came(config, s, {n}, VisitNode(dfs, config, n, s))
<1> DEFINE T == Targets(config, n)
           base == Inside(n, s)
           t == ReachAll(dfs, T, base)
<1>1. s \in Search /\ s.path \subseteq s.visited /\ Sound(config, Finished(s))
  BY DEF Fit
<1>2. /\ base \in Search /\ base.visited = s.visited \union {n}
      /\ base.path = s.path \union {n} /\ base.cyclic = s.cyclic
  BY <1>1, InsideIs
<1>3. T \in SUBSET Node /\ IsFiniteSet(T)
  BY TargetsType
<1>4. VisitNode(dfs, config, n, s) = Leaving(n, t)
  BY VisitIs DEF Folded
<1> HIDE DEF base
<1>5. Finished(base) = Finished(s)
  BY <1>2 DEF Finished
<1>6. Fit(config, base)
  BY <1>1, <1>2, <1>5 DEF Fit
<1> HIDE DEF T
<1>7. ASSUME NEW m \in T, NEW u \in Search, base.visited \subseteq u.visited,
             m \notin u.visited, Fit(config, u)
      PROVE  Came(config, u, {m}, dfs[<<m, u>>])
  <2>1. m \in Node \ u.visited
    BY <1>3, <1>7
  <2>2. s.visited \union {n} \subseteq u.visited
    BY <1>2, <1>7
  <2>3. Ahead(m, u) < Ahead(n, s)
    BY <1>1, <2>1, <2>2, AheadLess
  <2>4. QED
    BY <1>7, <2>1, <2>3
<1>8. t \in Search /\ base.visited \subseteq t.visited /\ Came(config, base, T, t)
  BY <1>3, <1>6, <1>7, CameAll
<1> HIDE DEF t
<1> DEFINE r == Leaving(n, t)
<1>9. /\ r.visited = t.visited /\ r.cyclic = t.cyclic
      /\ ~ t.cyclic => r.path = t.path \ {n}
  BY <1>8, LeavingIs
<1> HIDE DEF r
<1>10. ASSUME ~ r.cyclic
       PROVE  /\ ~ s.cyclic /\ r.path = s.path /\ s.visited \subseteq r.visited
              /\ {n} \subseteq Finished(r) /\ Sound(config, Finished(r))
  <2>1. /\ ~ base.cyclic /\ t.path = base.path /\ T \subseteq Finished(t)
        /\ Sound(config, Finished(t))
    BY <1>8, <1>9, <1>10 DEF Came
  <2>2. ~ s.cyclic /\ r.path = s.path /\ s.visited \subseteq r.visited
    BY <1>1, <1>2, <1>8, <1>9, <1>10, <2>1
  <2>3. n \notin Finished(t) /\ Finished(r) = Finished(t) \union {n}
    BY <1>1, <1>2, <1>8, <1>9, <2>1, <2>2 DEF Finished
  <2>4. Sound(config, Finished(r))
    BY <2>1, <2>3, SoundMore DEF T
  <2>5. QED
    BY <2>2, <2>3, <2>4
<1>11. QED
  BY <1>4, <1>10 DEF Came, r

LEMMA SearchCame ==
  ASSUME IsFiniteSet(Node), NEW config \in WorkflowConfig, NEW dfs, Grows(dfs),
         \A n \in Node, s \in Search : dfs[<<n, s>>] = VisitNode(dfs, config, n, s)
  PROVE  \A n \in Node, s \in Search : n \notin s.visited /\ Fit(config, s) =>
           Came(config, s, {n}, dfs[<<n, s>>])
<1> DEFINE Right(k) == \A n \in Node, s \in Search :
                         Ahead(n, s) < k /\ n \notin s.visited /\ Fit(config, s) =>
                           Came(config, s, {n}, dfs[<<n, s>>])
           Good == {k \in Nat : Right(k)}
<1>1. 0 \in Good
  <2> SUFFICES ASSUME NEW n \in Node, NEW s \in Search
               PROVE  ~ (Ahead(n, s) < 0)
    OBVIOUS
  <2>1. Ahead(n, s) \in Nat
    BY AheadType
  <2>2. QED
    BY <2>1
<1>2. ASSUME NEW k \in Nat, k \in Good
      PROVE  k + 1 \in Good
  <2>0. SUFFICES Right(k + 1)
    <3> HIDE DEF Right
    <3>1. QED
      BY <2>0
  <2> SUFFICES ASSUME NEW n \in Node, NEW s \in Search, Ahead(n, s) < k + 1,
                      n \notin s.visited, Fit(config, s)
               PROVE  Came(config, s, {n}, dfs[<<n, s>>])
    OBVIOUS
  <2>1. ASSUME NEW m \in Node, NEW t \in Search, Ahead(m, t) < Ahead(n, s),
               m \notin t.visited, Fit(config, t)
        PROVE  Came(config, t, {m}, dfs[<<m, t>>])
    <3>1. Ahead(m, t) \in Nat /\ Ahead(n, s) \in Nat
      BY AheadType
    <3>2. Ahead(m, t) < k
      BY <2>1, <3>1
    <3>3. QED
      BY <1>2, <2>1, <3>2
  <2>2. Came(config, s, {n}, VisitNode(dfs, config, n, s))
    BY <2>1, VisitCame
  <2>3. QED
    BY <2>2
<1> DEFINE all == 2 * Cardinality(Node) + 2
<1>3. all \in Nat
  BY FS_CardinalityType
<1>4. \A n \in Node, s \in Search : Ahead(n, s) < all
  BY AheadType
<1> HIDE DEF all
<1>5. all \in Good
  <2> HIDE DEF Good
  <2>1. QED
    BY <1>1, <1>2, <1>3, NatSetInduction
<1>6. QED
  BY <1>4, <1>5

\* What the check means: without a reported cycle the edges are in an order.
THEOREM NoCycleOrders ==
  ASSUME IsFiniteSet(Node), NEW config \in WorkflowConfig, ~ detectCycles(config)
  PROVE  \E R : Ordered(config, Node, R)
<1> DEFINE dfs == TheSearch(config)
           end == ReachAll(dfs, Node, Nothing)
<1>1. /\ Grows(dfs)
      /\ \A n \in Node, s \in Search : dfs[<<n, s>>] = VisitNode(dfs, config, n, s)
  BY TheSearchIs
<1>2. ~ end.cyclic
  BY DetectIs
<1> HIDE DEF dfs
<1>3. Nothing \in Search /\ Nothing.path = {} /\ Nothing.visited = {} /\ Finished(Nothing) = {}
  BY DEF Nothing, Search, Finished
<1>4. Fit(config, Nothing)
  <2>1. Ordered(config, {}, {})
    BY DEF Ordered
  <2>2. QED
    BY <1>3, <2>1 DEF Fit, Sound
<1>5. \A n \in Node, s \in Search : n \notin s.visited /\ Fit(config, s) =>
        Came(config, s, {n}, dfs[<<n, s>>])
  BY <1>1, SearchCame
<1>6. end \in Search /\ Came(config, Nothing, Node, end)
  BY <1>1, <1>4, <1>5, CameAll
<1> HIDE DEF end
<1>7. Node \subseteq Finished(end) /\ Sound(config, Finished(end))
  BY <1>2, <1>6 DEF Came
<1>8. Finished(end) = Node
  BY <1>6, <1>7 DEF Finished, Search
<1>9. QED
  BY <1>7, <1>8 DEF Sound

-----------------------------------------------------------------------------
(* And it reports no cycle where there is none. *)

\* All nodes of the path are before n.
Straight(R, s, n) == ~ s.cyclic /\ \A p \in s.path : <<p, n>> \in R
Kept(s, r)        == ~ r.cyclic /\ r.path = s.path

LEMMA StraightAll ==
  ASSUME NEW config, NEW R, Ordered(config, Node, R), NEW dfs, Grows(dfs), NEW base \in Search,
         ~ base.cyclic, NEW T \in SUBSET Node, IsFiniteSet(T),
         \A m \in T : Straight(R, base, m),
         \A m \in T, t \in Search :
           base.visited \subseteq t.visited /\ m \notin t.visited /\ Straight(R, t, m) =>
             Kept(t, dfs[<<m, t>>])
  PROVE  Kept(base, ReachAll(dfs, T, base)) /\ ReachAll(dfs, T, base) \in Search
<1>1. PICK f : FoldGrows(dfs, base, T, f)
  BY FoldExists
<1>2. /\ Folds(dfs, base, T, f) /\ f \in [SUBSET T -> Search]
      /\ \A r \in SUBSET T : base.visited \subseteq f[r].visited
  BY <1>1 DEF FoldGrows
<1>3. \A r \in SUBSET T : f[r] = IF r = {} THEN base ELSE Reach(dfs, Pick(r), f[r \ {Pick(r)}])
  BY <1>2, Zenon DEF Folds
<1> DEFINE Good == {r \in SUBSET T : Kept(base, f[r])}
<1>4. ASSUME NEW s \in SUBSET T, \A x \in s : s \ {x} \in Good
      PROVE  s \in Good
  <2>1. CASE s = {}
    <3>1. f[s] = base
      BY <1>3, <2>1
    <3>2. QED
      BY <3>1 DEF Kept
  <2>2. CASE s # {}
    <3> DEFINE m == Pick(s)
               r == s \ {m}
    <3>1. m \in s /\ r \in SUBSET T /\ f[s] = Reach(dfs, m, f[r])
      BY <1>3, <2>2, PickIn
    <3>2. r \in Good
      BY <1>4, <3>1
    <3> HIDE DEF m, r
    <3>3. Kept(base, f[r])
      BY <3>2
    <3>4. f[r] \in Search /\ base.visited \subseteq f[r].visited /\ m \in Node /\ m \in T
      BY <1>2, <3>1
    <3> DEFINE t == f[r]
    <3>5. t \in Search /\ base.visited \subseteq t.visited /\ Kept(base, t)
          /\ f[s] = Reach(dfs, m, t)
      BY <3>1, <3>3, <3>4
    <3> HIDE DEF t, Good
    <3>6. Straight(R, t, m)
      BY <3>4, <3>5 DEF Straight, Kept
    <3>7. m \notin t.path
      BY <3>4, <3>6 DEF Straight, Ordered
    <3>8. CASE m \notin t.visited
      <4>1. Kept(t, dfs[<<m, t>>])
        BY <3>4, <3>5, <3>6, <3>8
      <4>2. f[s] = dfs[<<m, t>>]
        BY <3>5, <3>6, <3>8 DEF Reach, Straight
      <4>3. Kept(base, f[s])
        BY <3>5, <4>1, <4>2 DEF Kept
      <4>4. QED
        BY <4>3 DEF Good
    <3>9. CASE m \in t.visited
      <4> DEFINE u == [t EXCEPT !.cyclic = Meets(t, m)]
      <4>1. u.path = t.path /\ u.cyclic = (m \in t.path)
        BY <3>5 DEF Meets, Search
      <4>2. f[s] = u
        BY <3>5, <3>6, <3>9 DEF Reach, Straight
      <4> HIDE DEF u
      <4>3. Kept(base, f[s])
        BY <3>5, <3>7, <4>1, <4>2 DEF Kept
      <4>4. QED
        BY <4>3 DEF Good
    <3>10. QED
      BY <3>8, <3>9
  <2>3. QED
    BY <2>1, <2>2
<1>5. T \in Good
  <2> HIDE DEF Good
  <2>1. QED
    BY <1>4, SubsetInduction
<1>6. ReachAll(dfs, T, base) = f[T]
  BY <1>2, FoldedIs DEF Folded
<1>7. QED
  BY <1>2, <1>5, <1>6

LEMMA SearchStraight ==
  ASSUME IsFiniteSet(Node), NEW config \in WorkflowConfig, NEW R, Ordered(config, Node, R),
         NEW dfs, Grows(dfs),
         \A n \in Node, s \in Search : dfs[<<n, s>>] = VisitNode(dfs, config, n, s)
  PROVE  \A n \in Node, s \in Search : Straight(R, s, n) => Kept(s, dfs[<<n, s>>])
<1> DEFINE Right(k) == \A n \in Node, s \in Search :
                         Ahead(n, s) < k /\ Straight(R, s, n) => Kept(s, dfs[<<n, s>>])
           Good == {k \in Nat : Right(k)}
<1>1. 0 \in Good
  <2> SUFFICES ASSUME NEW n \in Node, NEW s \in Search
               PROVE  ~ (Ahead(n, s) < 0)
    OBVIOUS
  <2>1. Ahead(n, s) \in Nat
    BY AheadType
  <2>2. QED
    BY <2>1
<1>2. ASSUME NEW k \in Nat, k \in Good
      PROVE  k + 1 \in Good
  <2>0. SUFFICES Right(k + 1)
    <3> HIDE DEF Right
    <3>1. QED
      BY <2>0
  <2> SUFFICES ASSUME NEW n \in Node, NEW s \in Search, Ahead(n, s) < k + 1,
                      Straight(R, s, n)
               PROVE  Kept(s, dfs[<<n, s>>])
    OBVIOUS
  <2> DEFINE T == Targets(config, n)
             base == Inside(n, s)
             t == ReachAll(dfs, T, base)
  <2>1. /\ base \in Search /\ base.visited = s.visited \union {n}
        /\ base.path = s.path \union {n} /\ base.cyclic = s.cyclic
    BY InsideIs
  <2>2. T \in SUBSET Node /\ IsFiniteSet(T)
    BY TargetsType
  <2>3. dfs[<<n, s>>] = Leaving(n, t)
    BY VisitIs DEF Folded
  <2>4. \A m \in T : <<n, m>> \in R
    BY DEF Ordered
  <2> HIDE DEF T, base
  <2>5. ASSUME NEW m \in T
        PROVE  Straight(R, base, m)
    <3>1. /\ \A a, b, c \in Node : <<a, b>> \in R /\ <<b, c>> \in R => <<a, c>> \in R
          /\ s.path \subseteq Node
      BY DEF Ordered, Search
    <3>2. QED
      BY <2>1, <2>2, <2>4, <3>1 DEF Straight
  <2>6. ASSUME NEW m \in T, NEW u \in Search, base.visited \subseteq u.visited,
               m \notin u.visited, Straight(R, u, m)
        PROVE  Kept(u, dfs[<<m, u>>])
    <3>1. m \in Node \ u.visited /\ s.visited \union {n} \subseteq u.visited
      BY <2>1, <2>2, <2>6
    <3>2. Ahead(m, u) < Ahead(n, s)
      BY <3>1, AheadLess
    <3>3. Ahead(m, u) \in Nat /\ Ahead(n, s) \in Nat
      BY <3>1, AheadType
    <3>4. Ahead(m, u) < k
      BY <3>2, <3>3
    <3>5. QED
      BY <1>2, <2>6, <3>1, <3>4
  <2>7. ~ base.cyclic
    BY <2>1 DEF Straight
  <2>8. Kept(base, t) /\ t \in Search
    BY <2>1, <2>2, <2>5, <2>6, <2>7, StraightAll
  <2> HIDE DEF t
  <2>9. n \notin s.path
    BY DEF Straight, Ordered
  <2>10. Leaving(n, t).cyclic = t.cyclic /\ (~ t.cyclic => Leaving(n, t).path = t.path \ {n})
    BY <2>8, LeavingIs
  <2>11. QED
    BY <2>1, <2>3, <2>8, <2>9, <2>10 DEF Kept
<1> DEFINE all == 2 * Cardinality(Node) + 2
<1>3. all \in Nat
  BY FS_CardinalityType
<1>4. \A n \in Node, s \in Search : Ahead(n, s) < all
  BY AheadType
<1> HIDE DEF all
<1>5. all \in Good
  <2> HIDE DEF Good
  <2>1. QED
    BY <1>1, <1>2, <1>3, NatSetInduction
<1>6. QED
  BY <1>4, <1>5

\* detectCycles, for every finite configuration: it reports a cycle exactly when no
\* strict order holds the edges.
THEOREM DetectCyclesIsRight ==
  ASSUME IsFiniteSet(Node), NEW config \in WorkflowConfig
  PROVE  detectCycles(config) <=> ~ \E R : Ordered(config, Node, R)
<1>1. ASSUME NEW R, Ordered(config, Node, R)
      PROVE  ~ detectCycles(config)
  <2> DEFINE dfs == TheSearch(config)
  <2>1. /\ Grows(dfs)
        /\ \A n \in Node, s \in Search : dfs[<<n, s>>] = VisitNode(dfs, config, n, s)
    BY TheSearchIs
  <2>2. detectCycles(config) = ReachAll(dfs, Node, Nothing).cyclic
    BY DetectIs
  <2> HIDE DEF dfs
  <2>3. \A n \in Node, s \in Search : Straight(R, s, n) => Kept(s, dfs[<<n, s>>])
    BY <1>1, <2>1, SearchStraight
  <2>4. Nothing \in Search /\ ~ Nothing.cyclic /\ \A m \in Node : Straight(R, Nothing, m)
    BY DEF Nothing, Search, Straight
  <2>5. Kept(Nothing, ReachAll(dfs, Node, Nothing))
    BY <1>1, <2>1, <2>3, <2>4, StraightAll
  <2>6. QED
    BY <2>2, <2>5 DEF Kept
<1>2. detectCycles(config) \in BOOLEAN
  <2>1. Nothing \in Search
    BY DEF Nothing, Search
  <2>2. Grows(TheSearch(config)) /\ IsFiniteSet(Node) /\ Node \in SUBSET Node
    BY TheSearchIs
  <2>3. PICK f : FoldGrows(TheSearch(config), Nothing, Node, f)
    BY <2>1, <2>2, FoldExists
  <2>4. Folds(TheSearch(config), Nothing, Node, f) /\ f[Node] \in Search
    BY <2>3 DEF FoldGrows
  <2>5. ReachAll(TheSearch(config), Node, Nothing) = f[Node]
    BY <2>4, FoldedIs DEF Folded
  <2>6. QED
    BY <2>4, <2>5, DetectIs DEF Search
<1>3. QED
  BY <1>1, <1>2, NoCycleOrders
=============================================================================
