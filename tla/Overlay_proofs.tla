--------------------------- MODULE Overlay_proofs ---------------------------
(***************************************************************************)
(* The resolver's and the overlay's type invariants and safety properties, *)
(* for any users, networks, gateways, services, tables and edits.          *)
(*                                                                         *)
(* They rest on what a walk of the relay graph finds: BranchesFacts, by    *)
(* induction on the length of the walk.                                    *)
(***************************************************************************)
EXTENDS Overlay, FiniteSetTheorems, WellFoundedInduction, TLAPS

(***************************************************************************)
(* Walks.  The definitions inside Branches, named.                         *)
(***************************************************************************)
Ends(tree) == {Last(tree[j]) : j \in DOMAIN tree}

Ahead(edges, E, tree, j) ==
    {i \in DOMAIN edges : /\ edges[i] \in E /\ edges[i][1] = Last(tree[j])
                          /\ edges[i][2] \notin Ends(tree)}

Queue(edges, E, tree) == {j \in DOMAIN tree : Ahead(edges, E, tree, j) # {}}

Grown(edges, E) ==
    [tree \in Seq(Seq(Gateways)) |->
        IF Queue(edges, E, tree) = {} THEN tree
        ELSE Append(tree, Append(tree[Min(Queue(edges, E, tree))],
                edges[Min(Ahead(edges, E, tree, Min(Queue(edges, E, tree))))][2]))]

\* f starts from x and takes step m - 1 times.
IsWalk(x, step, f, m) == f = [k \in 1 .. m |-> IF k = 1 THEN x ELSE step[f[k - 1]]]

\* b leads from start along those of the edges that are in E.
IsPath(start, edges, E, b) ==
    /\ b \in Seq(Gateways) /\ b # <<>> /\ b[1] = start
    /\ \A i \in 1 .. Len(b) - 1 : <<b[i], b[i + 1]>> \in ToSet(edges) \cap E

\* Some recursive function satisfies the walk's definition.
LEMMA WalkChosen ==
  ASSUME NEW start, NEW edges, NEW E, NEW f, IsWalk(<<<<start>>>>, Grown(edges, E), f, NGateways)
  PROVE  \E w : /\ IsWalk(<<<<start>>>>, Grown(edges, E), w, NGateways)
                /\ Branches(start, edges, E) = ToSet(w[NGateways])
<1> DEFINE w == CHOOSE h : IsWalk(<<<<start>>>>, Grown(edges, E), h, NGateways)
<1>1. IsWalk(<<<<start>>>>, Grown(edges, E), w, NGateways)
  BY Zenon
<1>2. Branches(start, edges, E) = ToSet(w[NGateways])
  BY Zenon DEF Branches, IsWalk, Grown, Queue, Ahead, Ends, Gateways
<1> QED BY <1>1, <1>2, Zenon

(* What Min chooses.                                                        *)
LEMMA MinLeast ==
  ASSUME NEW S \in SUBSET Nat, S # {}
  PROVE  Min(S) \in S /\ \A y \in S : Min(S) <= y
<1>1. IsWellFoundedOn(OpToRel(<, Nat), Nat)
  BY NatLessThanWellFounded, Zenon
<1>2. PICK x \in S : \A y \in S : ~(<<y, x>> \in OpToRel(<, Nat))
  BY <1>1, WFMin, Zenon
<1>3. \A y \in S : ~(y < x)
  BY <1>2 DEF OpToRel
<1>4. \A y \in S : x <= y
  BY <1>3
<1> QED BY <1>4 DEF Min

\* A tree: paths from start, that of start first, no two with the same end.
IsTree(start, edges, E, t) ==
    /\ t \in Seq(Seq(Gateways)) /\ Len(t) >= 1 /\ t[1] = <<start>>
    /\ \A j \in DOMAIN t : IsPath(start, edges, E, t[j])
    /\ \A i, j \in DOMAIN t : Last(t[i]) = Last(t[j]) => i = j

\* Growing a tree of paths gives a tree of paths, with one path more unless
\* none can be added.
LEMMA GrownTree ==
  ASSUME NEW start \in Gateways, NEW edges \in Seq(Edges), NEW E, NEW t,
         IsTree(start, edges, E, t)
  PROVE  LET s == Grown(edges, E)[t]
         IN  /\ IsTree(start, edges, E, s)
             /\ Queue(edges, E, t) = {} => s = t
             /\ Queue(edges, E, t) # {} => Len(s) = Len(t) + 1
<1> DEFINE q == Min(Queue(edges, E, t))
           i == Min(Ahead(edges, E, t, q))
           b == Append(t[q], edges[i][2])
<1>1. t \in Seq(Seq(Gateways)) /\ Len(t) >= 1 /\ t[1] = <<start>>
  BY DEF IsTree
<1>2. CASE Queue(edges, E, t) = {}
  <2>1. Grown(edges, E)[t] = t
    BY <1>1, <1>2 DEF Grown
  <2> QED BY <1>2, <2>1
<1>3. CASE Queue(edges, E, t) # {}
  <2>1. Grown(edges, E)[t] = Append(t, b)
    BY <1>1, <1>3 DEF Grown
  <2>2. q \in DOMAIN t /\ Ahead(edges, E, t, q) # {}
    <3>1. Queue(edges, E, t) \in SUBSET Nat
      BY <1>1 DEF Queue
    <3>2. q \in Queue(edges, E, t)
      BY <1>3, <3>1, MinLeast
    <3> QED BY <3>2 DEF Queue
  <2>3. i \in DOMAIN edges /\ edges[i] \in E /\ edges[i][1] = Last(t[q])
        /\ edges[i][2] \notin Ends(t)
    <3>1. Ahead(edges, E, t, q) \in SUBSET Nat
      BY DEF Ahead
    <3>2. i \in Ahead(edges, E, t, q)
      BY <2>2, <3>1, MinLeast
    <3> QED BY <3>2 DEF Ahead
  <2> HIDE DEF q, i
  <2>4. edges[i] \in Gateways \X Gateways
    BY <2>3 DEF Edges
  <2>5. IsPath(start, edges, E, t[q])
    BY <2>2 DEF IsTree
  <2>6. IsPath(start, edges, E, b)
    <3>1. t[q] \in Seq(Gateways) /\ Len(t[q]) >= 1 /\ t[q][1] = start
      BY <2>5 DEF IsPath
    <3>2. b \in Seq(Gateways) /\ Len(b) = Len(t[q]) + 1 /\ b[Len(b)] = edges[i][2]
          /\ \A k \in 1 .. Len(t[q]) : b[k] = t[q][k]
      BY <2>4, <3>1
    <3>3. <<Last(t[q]), edges[i][2]>> = edges[i] /\ edges[i] \in ToSet(edges) \cap E
      BY <2>3, <2>4 DEF ToSet
    <3> HIDE DEF b
    <3>4. <<b[Len(t[q])], b[Len(t[q]) + 1]>> \in ToSet(edges) \cap E
      <4>1. b[Len(t[q]) + 1] = edges[i][2]
        BY <3>2
      <4>2. b[Len(t[q])] = Last(t[q])
        BY <3>1, <3>2 DEF Last
      <4> QED BY <3>3, <4>1, <4>2
    <3>5. ASSUME NEW k \in 1 .. Len(b) - 1
          PROVE  <<b[k], b[k + 1]>> \in ToSet(edges) \cap E
      <4>1. CASE k = Len(t[q])
        BY <3>4, <4>1
      <4>2. CASE k # Len(t[q])
        <5>1. k \in 1 .. Len(t[q]) - 1 /\ k \in 1 .. Len(t[q]) /\ k + 1 \in 1 .. Len(t[q])
          BY <3>1, <3>2, <4>2
        <5>2. <<t[q][k], t[q][k + 1]>> \in ToSet(edges) \cap E
          BY <2>5, <5>1 DEF IsPath
        <5> QED BY <3>2, <5>1, <5>2
      <4> QED BY <4>1, <4>2
    <3>6. b # <<>> /\ b[1] = start
      <4>1. 1 \in 1 .. Len(t[q]) /\ Len(b) # 0
        BY <3>1, <3>2
      <4>2. b[1] = start
        BY <3>1, <3>2, <4>1, Zenon
      <4> QED BY <4>1, <4>2
    <3> QED BY <3>2, <3>5, <3>6 DEF IsPath
  <2>7. Last(b) = edges[i][2] /\ b \in Seq(Gateways)
    <3>1. t[q] \in Seq(Gateways)
      BY <2>5 DEF IsPath
    <3> QED BY <2>4, <3>1 DEF Last
  <2> HIDE DEF b
  <2> DEFINE s == Append(t, b)
  <2>8. /\ s \in Seq(Seq(Gateways)) /\ Len(s) = Len(t) + 1 /\ DOMAIN s = 1 .. Len(t) + 1
        /\ s[Len(t) + 1] = b /\ \A j \in DOMAIN t : s[j] = t[j]
        /\ DOMAIN t = 1 .. Len(t) /\ Len(t) \in Nat
    BY <1>1, <2>7
  <2> HIDE DEF s
  <2>9. \A j \in DOMAIN s : j \in DOMAIN t \/ j = Len(t) + 1
    BY <2>8
  <2>10. ASSUME NEW j \in DOMAIN s
         PROVE  IsPath(start, edges, E, s[j])
    <3>1. CASE j \in DOMAIN t
      <4>1. IsPath(start, edges, E, t[j]) /\ s[j] = t[j]
        BY <2>8, <3>1 DEF IsTree
      <4> QED BY <4>1, Zenon
    <3>2. CASE j = Len(t) + 1
      BY <2>6, <2>8, <3>2, Zenon
    <3> QED BY <2>9, <3>1, <3>2, Zenon
  <2>11. \A j \in DOMAIN t : Last(t[j]) # Last(b)
    BY <2>3, <2>7 DEF Ends
  <2>12. ASSUME NEW j \in DOMAIN s, NEW k \in DOMAIN s, Last(s[j]) = Last(s[k])
         PROVE  j = k
    <3>1. CASE j \in DOMAIN t /\ k \in DOMAIN t
      <4>1. s[j] = t[j] /\ s[k] = t[k]
        BY <2>8, <3>1, Zenon
      <4>2. Last(t[j]) = Last(t[k])
        BY <2>12, <4>1, Zenon
      <4> QED BY <3>1, <4>2, Zenon DEF IsTree
    <3>2. CASE j = Len(t) + 1 /\ k \in DOMAIN t
      BY <2>8, <2>11, <2>12, <3>2, Zenon
    <3>3. CASE j \in DOMAIN t /\ k = Len(t) + 1
      BY <2>8, <2>11, <2>12, <3>3, Zenon
    <3> QED BY <2>9, <3>1, <3>2, <3>3, Zenon
  <2>13. Len(s) >= 1 /\ s[1] = <<start>>
    <3>1. 1 \in DOMAIN t /\ Len(s) >= 1
      BY <1>1, <2>8
    <3>2. s[1] = t[1]
      BY <2>8, <3>1, Zenon
    <3> QED BY <1>1, <3>1, <3>2
  <2>14. IsTree(start, edges, E, s)
    BY <2>8, <2>10, <2>12, <2>13, Zenon DEF IsTree
  <2> QED BY <1>3, <2>1, <2>8, <2>14, Zenon DEF s
<1> QED BY <1>2, <1>3

\* There are n numbers from 1 to n.
LEMMA IntervalSize ==
  ASSUME NEW n \in Nat
  PROVE  IsFiniteSet(1 .. n) /\ Cardinality(1 .. n) = n
<1>1. IsFiniteSet(1 .. n) /\ Cardinality(1 .. n) = IF 1 > n THEN 0 ELSE n - 1 + 1
  BY FS_Interval
<1> QED BY <1>1

\* A tree with as many paths as there are gateways can be grown no further:
\* its paths end at different gateways.
LEMMA FullTree ==
  ASSUME NEW start \in Gateways, NEW edges \in Seq(Edges), NEW E, NEW t,
         IsTree(start, edges, E, t), Len(t) >= NGateways
  PROVE  Queue(edges, E, t) = {}
<1>1. t \in Seq(Seq(Gateways)) /\ DOMAIN t = 1 .. Len(t) /\ Len(t) \in Nat
  BY DEF IsTree
<1>2. ASSUME NEW j \in DOMAIN t
      PROVE  Last(t[j]) \in Gateways
  <2>1. t[j] \in Seq(Gateways) /\ t[j] # <<>>
    BY <1>2, Zenon DEF IsTree, IsPath
  <2> QED BY <2>1 DEF Last
<1>3. ASSUME NEW g \in Gateways, g \notin Ends(t)
      PROVE  FALSE
  <2> DEFINE f == [j \in 1 .. Len(t) |-> Last(t[j])]
  <2>1. f \in [1 .. Len(t) -> Gateways \ {g}]
    BY <1>1, <1>2, <1>3 DEF Ends
  <2>2. NGateways \in Nat
    BY ResolverAssumption
  <2>3. IsFiniteSet(Gateways) /\ Cardinality(Gateways) = NGateways
    BY <2>2, IntervalSize DEF Gateways
  <2>4. IsFiniteSet(Gateways \ {g}) /\ Cardinality(Gateways \ {g}) = NGateways - 1
    BY <1>3, <2>3, FS_RemoveElement
  <2>5. IsFiniteSet(1 .. Len(t)) /\ Cardinality(1 .. Len(t)) = Len(t)
    BY <1>1, IntervalSize
  <2>6. Cardinality(Gateways \ {g}) < Cardinality(1 .. Len(t))
    BY <1>1, <2>2, <2>4, <2>5
  <2> HIDE DEF f
  <2>7. \E i, j \in 1 .. Len(t) : i # j /\ f[i] = f[j]
    BY <2>1, <2>4, <2>5, <2>6, FS_PigeonHole
  <2>8. PICK i \in DOMAIN t, j \in DOMAIN t : i # j /\ Last(t[i]) = Last(t[j])
    BY <1>1, <2>7 DEF f
  <2> QED BY <2>8, Zenon DEF IsTree
<1>4. \A i \in DOMAIN edges : edges[i][2] \in Gateways
  BY DEF Edges
<1> QED BY <1>3, <1>4 DEF Queue, Ahead

\* A step can be taken any number of times.
LEMMA WalkExists ==
  ASSUME NEW x, NEW step
  PROVE  \A m \in Nat : \E f : IsWalk(x, step, f, m)
<1> DEFINE Bad == {m \in Nat : ~ \E f : IsWalk(x, step, f, m)}
<1>0. SUFFICES ASSUME Bad # {} PROVE FALSE
  BY Zenon
<1>1. Min(Bad) \in Bad /\ \A y \in Bad : Min(Bad) <= y
  BY <1>0, MinLeast
<1> DEFINE m == Min(Bad)
<1>2. m \in Nat /\ \A y \in Nat : y < m => \E f : IsWalk(x, step, f, y)
  BY <1>1
<1>3. ~ \E f : IsWalk(x, step, f, m)
  BY <1>1
<1> HIDE DEF Bad, m
<1>4. CASE m = 0
  <2>1. IsWalk(x, step, <<>>, 0)
    BY DEF IsWalk
  <2> QED BY <1>3, <1>4, <2>1, Zenon
<1>5. CASE m # 0
  <2>1. m - 1 \in Nat /\ m - 1 < m
    BY <1>2, <1>5
  <2>2. PICK f : IsWalk(x, step, f, m - 1)
    BY <1>2, <2>1, Zenon
  <2> DEFINE next(h, k) == IF k = 1 THEN x ELSE step[h[k - 1]]
             h == [k \in 1 .. m |-> next(f, k)]
  <2>3. f = [k \in 1 .. m - 1 |-> next(f, k)]
    BY <2>2, Zenon DEF IsWalk
  <2> HIDE DEF next
  <2>4. \A k \in 1 .. m - 1 : h[k] = f[k]
    BY <1>2, <2>3
  <2>5. \A k \in 1 .. m : k # 1 => k - 1 \in 1 .. m - 1
    BY <1>2
  <2> HIDE DEF h
  <2>6. \A k \in 1 .. m : next(f, k) = next(h, k)
    BY <2>4, <2>5, Zenon DEF next
  <2>7. h = [k \in 1 .. m |-> next(f, k)]
    BY Zenon DEF h
  <2>8. h = [k \in 1 .. m |-> next(h, k)]
    BY <2>6, <2>7
  <2>9. IsWalk(x, step, h, m)
    BY <2>8, Zenon DEF IsWalk, next
  <2> QED BY <1>3, <2>9, Zenon
<1> QED BY <1>4, <1>5

\* After k steps the walk is a tree of k paths, or one that cannot be grown.
LEMMA WalkGrows ==
  ASSUME NEW start \in Gateways, NEW edges \in Seq(Edges), NEW E, NEW w,
         IsWalk(<<<<start>>>>, Grown(edges, E), w, NGateways)
  PROVE  \A k \in Gateways : /\ IsTree(start, edges, E, w[k])
                             /\ Len(w[k]) >= k \/ Queue(edges, E, w[k]) = {}
<1> DEFINE Good(k) == /\ IsTree(start, edges, E, w[k])
                      /\ Len(w[k]) >= k \/ Queue(edges, E, w[k]) = {}
           Bad == {k \in Gateways : ~Good(k)}
<1>0. SUFFICES ASSUME Bad # {} PROVE FALSE
  BY Zenon
<1>1. Bad \in SUBSET Nat /\ Bad \subseteq Gateways
  BY DEF Gateways
<1>2. PICK k \in Bad : \A y \in Bad : k <= y
  BY <1>0, <1>1, MinLeast
<1>3. k \in Gateways /\ ~Good(k) /\ k \in Nat
  BY <1>1, <1>2
<1>4. k = 1 \/ (k - 1 \in Gateways /\ Good(k - 1))
  <2>1. k = 1 \/ (k - 1 \in Gateways /\ ~(k <= k - 1))
    BY <1>3, ResolverAssumption DEF Gateways
  <2> HIDE DEF Good
  <2> QED BY <1>2, <2>1
<1>5. w[k] = IF k = 1 THEN <<<<start>>>> ELSE Grown(edges, E)[w[k - 1]]
  <2>1. k \in 1 .. NGateways
    BY <1>3 DEF Gateways
  <2> QED BY <2>1, Zenon DEF IsWalk
<1> HIDE DEF Bad
<1>6. CASE k = 1
  <2> DEFINE t == <<<<start>>>>
  <2>1. w[k] = t
    BY <1>5, <1>6, Zenon
  <2>2. t \in Seq(Seq(Gateways)) /\ Len(t) = 1 /\ DOMAIN t = {1} /\ t[1] = <<start>>
    OBVIOUS
  <2>3. IsPath(start, edges, E, <<start>>)
    BY DEF IsPath
  <2> HIDE DEF t
  <2>4. \A j \in DOMAIN t : IsPath(start, edges, E, t[j])
    BY <2>2, <2>3
  <2>5. \A i, j \in DOMAIN t : Last(t[i]) = Last(t[j]) => i = j
    BY <2>2
  <2>6. Len(t) >= 1
    BY <2>2
  <2>7. IsTree(start, edges, E, t)
    BY <2>2, <2>4, <2>5, <2>6, Zenon DEF IsTree
  <2>8. Good(k)
    BY <1>6, <2>1, <2>6, <2>7, Zenon
  <2> QED BY <1>3, <2>8, Zenon
<1>7. CASE k # 1
  <2> DEFINE t == w[k - 1]
             s == Grown(edges, E)[t]
  <2>1. Good(k - 1) /\ w[k] = s
    BY <1>4, <1>5, <1>7, Zenon
  <2>2. IsTree(start, edges, E, t) /\ (Len(t) >= k - 1 \/ Queue(edges, E, t) = {})
    BY <2>1, Zenon
  <2> HIDE DEF t
  <2>3. /\ IsTree(start, edges, E, s)
        /\ Queue(edges, E, t) = {} => s = t
        /\ Queue(edges, E, t) # {} => Len(s) = Len(t) + 1
    BY <2>2, GrownTree, Zenon
  <2>4. Len(t) \in Nat
    BY <2>2 DEF IsTree
  <2> HIDE DEF s
  <2>5. CASE Queue(edges, E, t) = {}
    BY <1>3, <2>1, <2>3, <2>5, Zenon
  <2>6. CASE Queue(edges, E, t) # {}
    <3>1. Len(s) >= k
      BY <1>3, <2>2, <2>3, <2>4, <2>6
    <3> QED BY <1>3, <2>1, <2>3, <3>1, Zenon
  <2> QED BY <2>5, <2>6, Zenon
<1> QED BY <1>6, <1>7, Zenon

\* What a walk finds: paths from its start along its edges, among them the one
\* that stays there, to every gateway they can be continued to.
LEMMA BranchesFacts ==
  ASSUME NEW start \in Gateways, NEW edges \in Seq(Edges), NEW E
  PROVE  /\ \A b \in Branches(start, edges, E) : IsPath(start, edges, E, b)
         /\ <<start>> \in Branches(start, edges, E)
         /\ Bfs(start, edges, E) \subseteq Gateways
         /\ start \in Bfs(start, edges, E)
         /\ \A e \in ToSet(edges) \cap E :
               e[1] \in Bfs(start, edges, E) => e[2] \in Bfs(start, edges, E)
<1>1. NGateways \in Nat /\ NGateways \in Gateways
  BY ResolverAssumption DEF Gateways
<1>2. PICK f : IsWalk(<<<<start>>>>, Grown(edges, E), f, NGateways)
  BY <1>1, WalkExists, Zenon
<1>3. PICK w : /\ IsWalk(<<<<start>>>>, Grown(edges, E), w, NGateways)
               /\ Branches(start, edges, E) = ToSet(w[NGateways])
  BY <1>2, WalkChosen, Zenon
<1> DEFINE t == w[NGateways]
<1>4. /\ IsTree(start, edges, E, t)
      /\ Len(t) >= NGateways \/ Queue(edges, E, t) = {}
  BY <1>1, <1>3, WalkGrows, Zenon
<1>5. Queue(edges, E, t) = {}
  BY <1>4, FullTree, Zenon
<1>6. Branches(start, edges, E) = {t[j] : j \in DOMAIN t}
  BY <1>3, Zenon DEF ToSet
<1> HIDE DEF t
<1>7. Bfs(start, edges, E) = Ends(t)
  BY <1>6 DEF Bfs, Ends
<1>8. \A b \in Branches(start, edges, E) : IsPath(start, edges, E, b)
  BY <1>4, <1>6, Zenon DEF IsTree
<1>9. <<start>> \in Branches(start, edges, E)
  <2>1. 1 \in DOMAIN t /\ t[1] = <<start>>
    BY <1>4 DEF IsTree
  <2> QED BY <1>6, <2>1, Zenon
<1>10. Bfs(start, edges, E) \subseteq Gateways
  <2>1. ASSUME NEW b \in Branches(start, edges, E)
        PROVE  Last(b) \in Gateways
    <3>1. b \in Seq(Gateways) /\ b # <<>>
      BY <1>8, <2>1, Zenon DEF IsPath
    <3> QED BY <3>1 DEF Last
  <2> QED BY <2>1 DEF Bfs
<1>11. start \in Bfs(start, edges, E)
  <2>1. Last(<<start>>) = start
    BY DEF Last
  <2> QED BY <1>9, <2>1, Zenon DEF Bfs
<1>12. ASSUME NEW e \in ToSet(edges) \cap E, e[1] \in Bfs(start, edges, E),
              e[2] \notin Bfs(start, edges, E)
       PROVE  FALSE
  <2>1. PICK i \in DOMAIN edges : edges[i] = e
    BY DEF ToSet
  <2>2. PICK j \in DOMAIN t : Last(t[j]) = e[1]
    BY <1>7, <1>12 DEF Ends
  <2>3. i \in Ahead(edges, E, t, j)
    BY <1>7, <1>12, <2>1, <2>2 DEF Ahead
  <2> QED BY <1>5, <2>2, <2>3 DEF Queue
<1> QED BY <1>8, <1>9, <1>10, <1>11, <1>12, Zenon

(***************************************************************************)
(* Paths.  A set closed under the edges holds the rest of a path it meets, *)
(* so a walk finds everything a path from its start leads to.              *)
(***************************************************************************)
LEMMA PathReaches ==
  ASSUME NEW b \in Seq(Gateways), NEW edges \in Seq(Edges), NEW E,
         NEW i \in DOMAIN b, NEW j \in DOMAIN b, i <= j,
         \A k \in i .. j - 1 : <<b[k], b[k + 1]>> \in ToSet(edges) \cap E
  PROVE  b[j] \in Bfs(b[i], edges, E)
<1> DEFINE S == Bfs(b[i], edges, E)
           Bad == {k \in i .. j : b[k] \notin S}
<1>1. i \in Nat /\ j \in Nat /\ b[i] \in Gateways /\ i .. j \subseteq Nat
  OBVIOUS
<1>2. b[i] \in S /\ \A e \in ToSet(edges) \cap E : e[1] \in S => e[2] \in S
  BY <1>1, BranchesFacts, Zenon
<1> HIDE DEF S
<1>3. CASE Bad # {}
  <2>1. PICK k \in Bad : \A y \in Bad : k <= y
    BY <1>1, <1>3, MinLeast
  <2>2. k \in Nat /\ k # i /\ k \in i .. j
    BY <1>1, <1>2, <2>1
  <2>3. k - 1 \in i .. j - 1 /\ k - 1 \in i .. j /\ ~(k <= k - 1) /\ (k - 1) + 1 = k
    BY <1>1, <2>2
  <2>4. b[k - 1] \in S
    BY <2>1, <2>3, Zenon
  <2>5. <<b[k - 1], b[k]>> \in ToSet(edges) \cap E
    BY <2>3
  <2>6. b[k] \in S
    BY <1>2, <2>4, <2>5
  <2> QED BY <2>1, <2>6
<1>4. CASE Bad = {}
  BY <1>1, <1>4 DEF S
<1> QED BY <1>3, <1>4

\* ... and backwards.
LEMMA PathReturns ==
  ASSUME NEW b \in Seq(Gateways), NEW edges \in Seq(Edges), NEW E,
         NEW i \in DOMAIN b, NEW j \in DOMAIN b, i <= j,
         \A k \in i .. j - 1 : <<b[k + 1], b[k]>> \in ToSet(edges) \cap E
  PROVE  b[i] \in Bfs(b[j], edges, E)
<1> DEFINE S == Bfs(b[j], edges, E)
           Bad == {k \in 0 .. j - i : b[j - k] \notin S}
<1>1. i \in Nat /\ j \in Nat /\ b[j] \in Gateways /\ 0 .. j - i \subseteq Nat
  OBVIOUS
<1>2. b[j] \in S /\ \A e \in ToSet(edges) \cap E : e[1] \in S => e[2] \in S
  BY <1>1, BranchesFacts, Zenon
<1> HIDE DEF S
<1>3. CASE Bad # {}
  <2>1. PICK k \in Bad : \A y \in Bad : k <= y
    BY <1>1, <1>3, MinLeast
  <2>2. k \in Nat /\ k \in 0 .. j - i /\ k # 0
    BY <1>1, <1>2, <2>1
  <2>3. /\ k - 1 \in 0 .. j - i /\ ~(k <= k - 1)
        /\ j - k \in i .. j - 1 /\ (j - k) + 1 = j - (k - 1)
    BY <1>1, <2>2
  <2>4. b[j - (k - 1)] \in S
    BY <2>1, <2>3, Zenon
  <2>5. <<b[j - (k - 1)], b[j - k]>> \in ToSet(edges) \cap E
    BY <2>3
  <2>6. b[j - k] \in S
    BY <1>2, <2>4, <2>5
  <2> QED BY <2>1, <2>6
<1>4. CASE Bad = {}
  <2>1. j - i \in 0 .. j - i /\ j - (j - i) = i
    BY <1>1
  <2>2. b[j - (j - i)] \in S
    BY <1>4, <2>1, Zenon
  <2> QED BY <2>1, <2>2 DEF S
<1> QED BY <1>3, <1>4

\* A walk finds what one from the same start along fewer edges does.
LEMMA WalkMonotone ==
  ASSUME NEW start \in Gateways, NEW edges \in Seq(Edges), NEW E, NEW F,
         \A b \in Branches(start, edges, E) : \A k \in 1 .. Len(b) - 1 :
            <<b[k], b[k + 1]>> \in F
  PROVE  Bfs(start, edges, E) \subseteq Bfs(start, edges, F)
<1>1. ASSUME NEW b \in Branches(start, edges, E)
      PROVE  Last(b) \in Bfs(start, edges, F)
  <2>1. IsPath(start, edges, E, b)
    BY <1>1, BranchesFacts, Zenon
  <2>2. b \in Seq(Gateways) /\ b # <<>> /\ b[1] = start
    BY <2>1, Zenon DEF IsPath
  <2>3. Len(b) \in Nat /\ 1 <= Len(b) /\ 1 \in DOMAIN b /\ Len(b) \in DOMAIN b
    BY <2>2
  <2>4. \A k \in 1 .. Len(b) - 1 : <<b[k], b[k + 1]>> \in ToSet(edges) \cap F
    BY <1>1, <2>1 DEF IsPath
  <2>5. b[Len(b)] \in Bfs(b[1], edges, F)
    BY <2>2, <2>3, <2>4, PathReaches, Zenon
  <2> QED BY <2>2, <2>5, Zenon DEF Last
<1> QED BY <1>1 DEF Bfs

(***************************************************************************)
(* The resolver's tables are well formed.                                  *)
(***************************************************************************)
\* A table with one element more or less is one of the same.
LEMMA ToggleSubset ==
  ASSUME NEW T, NEW S \in SUBSET T, NEW x \in T
  PROVE  Toggle(S, x) \in SUBSET T
BY DEF Toggle

\* A link that is not there yet can be appended.
LEMMA LinkAdded ==
  ASSUME NEW l \in Links, NEW e \in Edges, ~Contains(l, e)
  PROVE  Append(l, e) \in Links
<1>1. l \in Seq(Edges) /\ \A i, j \in DOMAIN l : l[i] = l[j] => i = j
  BY DEF Links, IsInjective
<1>2. \A i \in DOMAIN l : l[i] # e
  BY <1>1 DEF Contains
<1> DEFINE m == Append(l, e)
<1>3. /\ m \in Seq(Edges) /\ DOMAIN m = 1 .. Len(l) + 1 /\ DOMAIN l = 1 .. Len(l)
      /\ \A i \in DOMAIN l : m[i] = l[i]
      /\ m[Len(l) + 1] = e /\ Len(l) \in Nat
  BY <1>1
<1> HIDE DEF m
<1>4. \A i, j \in DOMAIN m : m[i] = m[j] => i = j
  <2>1. \A i \in DOMAIN m : i \in DOMAIN l \/ i = Len(l) + 1
    BY <1>3
  <2> QED BY <1>1, <1>2, <1>3, <2>1, Zenon
<1>5. m \in Links
  BY <1>3, <1>4 DEF Links, IsInjective
<1> QED BY <1>5 DEF m

\* A link deleted leaves the others in their order.
LEMMA LinkDeleted ==
  ASSUME NEW l \in Links, NEW i \in DOMAIN l
  PROVE  RemoveAt(l, i) \in Links
<1>1. l \in Seq(Edges) /\ (\A j, k \in DOMAIN l : l[j] = l[k] => j = k)
  BY DEF Links, IsInjective
<1>2. Len(l) \in Nat /\ i \in 1 .. Len(l)
  BY <1>1
<1> DEFINE m == RemoveAt(l, i)
           at(k) == IF k < i THEN k ELSE k + 1
<1>3. m \in Seq(Edges) /\ DOMAIN m = 1 .. Len(l) - 1
      /\ \A k \in 1 .. Len(l) - 1 : m[k] = l[at(k)]
  <2> DEFINE p == SubSeq(l, 1, i - 1)
             s == SubSeq(l, i + 1, Len(l))
  <2>1. p \in Seq(Edges) /\ Len(p) = i - 1 /\ \A k \in 1 .. i - 1 : p[k] = l[k]
    BY <1>1, <1>2
  <2>2. s \in Seq(Edges) /\ Len(s) = Len(l) - i
        /\ \A k \in 1 .. Len(l) - i : s[k] = l[k + i]
    BY <1>1, <1>2
  <2> HIDE DEF p, s
  <2>3. p \o s \in Seq(Edges) /\ Len(p \o s) = Len(l) - 1
    BY <1>2, <2>1, <2>2
  <2>4. ASSUME NEW k \in 1 .. Len(l) - 1
        PROVE  (p \o s)[k] = l[at(k)]
    <3>1. CASE k < i
      BY <1>2, <2>1, <2>2, <3>1
    <3>2. CASE ~(k < i)
      <4>1. (p \o s)[k] = s[k - (i - 1)]
        BY <1>2, <2>1, <2>2, <3>2
      <4>2. k - (i - 1) \in 1 .. Len(l) - i /\ (k - (i - 1)) + i = k + 1
        BY <1>2, <3>2
      <4> QED BY <2>2, <3>2, <4>1, <4>2
    <3> QED BY <3>1, <3>2
  <2>5. m = p \o s
    BY DEF RemoveAt, p, s
  <2> HIDE DEF m, at
  <2> QED BY <1>2, <2>3, <2>4, <2>5
<1>4. \A j, k \in 1 .. Len(l) - 1 : at(j) \in DOMAIN l /\ (at(j) = at(k) => j = k)
  BY <1>1, <1>2
<1> HIDE DEF m, at
<1>5. \A j, k \in DOMAIN m : m[j] = m[k] => j = k
  BY <1>1, <1>3, <1>4, Zenon
<1>6. m \in Links
  BY <1>3, <1>5 DEF Links, IsInjective
<1> QED BY <1>6 DEF m

\* An edit keeps the tables well formed.
LEMMA EditTyped ==
  ASSUME ResolverTypeOK, Edit
  PROVE  ResolverTypeOK'
<1>1. edits' \in 0 .. MaxEdits
  BY ResolverAssumption DEF Edit, ResolverTypeOK, Edited, AddLink, DeleteLink, EditLeg, EditGateway,
     EditService, EditServiceGrant, EditNetworkGrant, EditDevice
<1>2. ASSUME NEW e \in Edges, AddLink(e)
      PROVE  ResolverTypeOK'
  <2>1. links' \in Links
    BY <1>2, LinkAdded DEF AddLink, ResolverTypeOK
  <2> QED BY <1>1, <1>2, <2>1 DEF AddLink, ResolverTypeOK
<1>3. ASSUME NEW e \in Edges, DeleteLink(e)
      PROVE  ResolverTypeOK'
  <2>1. links' \in Links
    BY <1>3, LinkDeleted DEF DeleteLink, ResolverTypeOK
  <2> QED BY <1>1, <1>3, <2>1 DEF DeleteLink, ResolverTypeOK
<1>4. ASSUME NEW g \in Gateways, NEW n \in Nets, EditLeg(g, n)
      PROVE  ResolverTypeOK'
  <2>1. legs[g] \in SUBSET Nets
    BY DEF ResolverTypeOK
  <2>2. Toggle(legs[g], n) \in SUBSET Nets
    BY <2>1, ToggleSubset
  <2>3. legs' \in [Gateways -> SUBSET Nets]
    BY <1>4, <2>2 DEF EditLeg, ResolverTypeOK
  <2> QED BY <1>1, <1>4, <2>3 DEF EditLeg, ResolverTypeOK
<1>5. ASSUME NEW g \in Gateways, EditGateway(g)
      PROVE  ResolverTypeOK'
  <2>1. active' \subseteq Gateways
    BY <1>5, ToggleSubset DEF EditGateway, ResolverTypeOK
  <2> QED BY <1>1, <1>5, <2>1 DEF EditGateway, ResolverTypeOK
<1>6. ASSUME NEW s \in Services, EditService(s)
      PROVE  ResolverTypeOK'
  <2>1. accepts' \subseteq Services /\ defaults' \subseteq Services
    BY <1>6, ToggleSubset DEF EditService, ResolverTypeOK
  <2> QED BY <1>1, <1>6, <2>1 DEF EditService, ResolverTypeOK
<1>7. ASSUME NEW u \in Users, NEW s \in Services, EditServiceGrant(u, s)
      PROVE  ResolverTypeOK'
  <2>1. svcs[u] \in SUBSET Services
    BY DEF ResolverTypeOK
  <2>2. Toggle(svcs[u], s) \in SUBSET Services
    BY <2>1, ToggleSubset
  <2>3. svcs' \in [Users -> SUBSET Services]
    BY <1>7, <2>2 DEF EditServiceGrant, ResolverTypeOK
  <2> QED BY <1>1, <1>7, <2>3 DEF EditServiceGrant, ResolverTypeOK
<1>8. ASSUME NEW u \in Users, NEW n \in Nets, EditNetworkGrant(u, n)
      PROVE  ResolverTypeOK'
  <2>1. nets[u] \in SUBSET Nets
    BY DEF ResolverTypeOK
  <2>2. Toggle(nets[u], n) \in SUBSET Nets
    BY <2>1, ToggleSubset
  <2>3. nets' \in [Users -> SUBSET Nets]
    BY <1>8, <2>2 DEF EditNetworkGrant, ResolverTypeOK
  <2> QED BY <1>1, <1>8, <2>3 DEF EditNetworkGrant, ResolverTypeOK
<1>9. ASSUME NEW d \in Addresses, EditDevice(d)
      PROVE  ResolverTypeOK'
  <2>1. devices' \subseteq Addresses
    BY <1>9, ToggleSubset DEF EditDevice, ResolverTypeOK
  <2> QED BY <1>1, <1>9, <2>1 DEF EditDevice, ResolverTypeOK
<1> QED BY <1>2, <1>3, <1>4, <1>5, <1>6, <1>7, <1>8, <1>9, Zenon DEF Edit

\* The tables the administrators start from are well formed.
LEMMA InitTyped ==
  ASSUME ResolverInit
  PROVE  ResolverTypeOK
<1>1. PICK t \in InitialTables :
          /\ links = t.links /\ legs = t.legs /\ service = t.service
          /\ accepts = t.accepts /\ defaults = t.defaults
          /\ svcs = t.svcs /\ nets = t.nets /\ devices = t.devices
  BY DEF ResolverInit
<1>2. active = Gateways /\ edits \in 0 .. MaxEdits
  BY ResolverAssumption DEF ResolverInit
<1> QED BY <1>1, <1>2, ResolverAssumption DEF ResolverTypeOK

\* The tables stay well formed through any of the administrators' edits
\* (unique_relay_link keeps links distinct).
THEOREM TablesTyped == ResolverSpec => []ResolverTypeOK
<1>1. ResolverTypeOK /\ UNCHANGED resolverVars => ResolverTypeOK'
  BY DEF ResolverTypeOK, resolverVars, tables
<1>2. ResolverInit => ResolverTypeOK
  BY InitTyped
<1>3. ResolverTypeOK /\ [Edit]_resolverVars => ResolverTypeOK'
  BY <1>1, EditTyped
<1> QED BY <1>2, <1>3, PTL DEF ResolverSpec

(***************************************************************************)
(* The plan.                                                               *)
(***************************************************************************)
\* Of the services that reach a network, the first in plan order claims it,
\* and only that one.
LEMMA Partition ==
  ASSUME ResolverTypeOK
  PROVE  PlanPartitions
<1> SUFFICES ASSUME NEW u \in Users, NEW n \in Nets
             PROVE  LET claiming == {s \in Tunnels(u) \ defaults : n \in Claims(u, s)}
                    IN  /\ Cardinality(claiming) <= 1
                        /\ claiming = {} =>
                              \A s \in EntryServices(u) \ defaults : n \notin Cidrs(u, s)
  BY Zenon DEF PlanPartitions
<1> DEFINE claiming == {s \in Tunnels(u) \ defaults : n \in Claims(u, s)}
           reaching == {s \in EntryServices(u) \ defaults : n \in Cidrs(u, s)}
<1>1. EntryServices(u) \in SUBSET Nat
  BY DEF EntryServices, ResolverTypeOK, Services
<1>2. \A s \in claiming : /\ s \in reaching
                          /\ \A t \in reaching : ~(t < s)
  BY DEF Tunnels, Claims
<1>3. \A s, t \in claiming : s = t
  BY <1>1, <1>2
<1>4. Cardinality(claiming) <= 1
  <2> HIDE DEF claiming
  <2>1. CASE claiming = {}
    BY <2>1, FS_EmptySet
  <2>2. CASE claiming # {}
    <3>1. PICK s : s \in claiming
      BY <2>2
    <3>2. claiming = {s}
      BY <1>3, <3>1
    <3>3. Cardinality(claiming) = 1
      BY <3>2, FS_Singleton
    <3> QED BY <3>3
  <2> QED BY <2>1, <2>2
<1>5. ASSUME reaching # {}
      PROVE  claiming # {}
  <2>1. PICK s \in reaching : \A t \in reaching : s <= t
    BY <1>1, <1>5, MinLeast
  <2>2. s \in EntryServices(u) \ defaults /\ n \in Cidrs(u, s) /\ \A t \in reaching : ~(t < s)
    BY <1>1, <2>1
  <2>3. n \in Claims(u, s)
    BY <2>2 DEF Claims
  <2>4. Instances(s) # {}
    BY <2>2 DEF Cidrs
  <2>5. s \in Tunnels(u)
    BY <2>2, <2>3, <2>4 DEF Tunnels
  <2> QED BY <2>2, <2>3, <2>5
<1> HIDE DEF claiming
<1>6. claiming = {} => \A s \in EntryServices(u) \ defaults : n \notin Cidrs(u, s)
  BY <1>5
<1> QED BY <1>4, <1>6 DEF claiming

\* Whatever the tables, each network a user reaches by an entry service that
\* is not a default route is in exactly one tunnel of the plan (plan_for_user).
THEOREM PlanIsAPartition == ResolverSpec => []PlanPartitions
<1>1. ResolverTypeOK => PlanPartitions
  BY Partition
<1> QED BY <1>1, TablesTyped, PTL

(***************************************************************************)
(* Plan and forward rules.                                                 *)
(***************************************************************************)
\* What is in a gateway's forward rules.
LEMMA RuleMeans ==
  ASSUME NEW g, NEW r
  PROVE  r \in ForwardRules(g) <=>
            \E d \in Entitled : \E b \in Branches(d[2], links, RuleEdges(svcs[d[1]])) :
                \E n \in nets[d[1]] \cap legs[Last(b)] : Contains(b, g) /\ r = <<d, n>>
<1> DEFINE along(d) == {b \in Branches(d[2], links, RuleEdges(svcs[d[1]])) : Contains(b, g)}
           behind(d) == UNION {legs[Last(b)] : b \in along(d)}
<1>1. ForwardRules(g) = UNION {{<<d, n>> : n \in nets[d[1]] \cap behind(d)} : d \in Entitled}
  BY Zenon DEF ForwardRules
<1>2. \A d, n : n \in behind(d) <=>
         \E b \in Branches(d[2], links, RuleEdges(svcs[d[1]])) :
            Contains(b, g) /\ n \in legs[Last(b)]
  BY Zenon
<1> HIDE DEF behind
<1>3. r \in ForwardRules(g) <=>
         \E d \in Entitled : \E n \in nets[d[1]] \cap behind(d) : r = <<d, n>>
  BY <1>1
<1> QED BY <1>2, <1>3, Zenon

\* An entitled device's address and service.
LEMMA EntitledFacts ==
  ASSUME ResolverTypeOK, NEW d \in Entitled
  PROVE  /\ d \in devices /\ d = <<d[1], d[2]>> /\ d[1] \in Users
         /\ d[2] \in active /\ d[2] \in Gateways
         /\ service[d[2]] \in svcs[d[1]] \cap accepts
BY DEF Entitled, ResolverTypeOK, Addresses

\* The links are between different gateways, and a gateway's rules follow
\* the active ones into granted services.
LEMMA LinkFacts ==
  ASSUME ResolverTypeOK
  PROVE  /\ links \in Seq(Edges)
         /\ Flip(links) \in Seq(Edges)
         /\ \A e \in ToSet(links) : e \in Edges /\ <<e[2], e[1]>> \in ToSet(Flip(links))
<1>1. links \in Seq(Edges)
  BY DEF ResolverTypeOK, Links
<1>2. ASSUME NEW i \in DOMAIN links
      PROVE  <<links[i][2], links[i][1]>> \in Edges
  BY <1>1, <1>2 DEF Edges
<1>3. Flip(links) \in Seq(Edges)
  BY <1>1, <1>2 DEF Flip
<1>4. \A e \in ToSet(links) : e \in Edges /\ <<e[2], e[1]>> \in ToSet(Flip(links))
  BY <1>1 DEF Flip, ToSet
<1> QED BY <1>1, <1>3, <1>4

\* b is a way from entry along which every hop is active, and every hop but the
\* first of a granted service.
IsRuleWay(b, entry, granted) ==
    /\ b \in Seq(Gateways) /\ b # <<>> /\ b[1] = entry
    /\ Len(b) \in Nat /\ 1 <= Len(b) /\ DOMAIN b = 1 .. Len(b)
    /\ \A i \in 1 .. Len(b) - 1 :
          /\ <<b[i], b[i + 1]>> \in ToSet(links)
          /\ <<b[i], b[i + 1]>> \in ActiveLinks
          /\ <<b[i], b[i + 1]>> \in RuleEdges(granted)
          /\ b[i] \in active /\ b[i + 1] \in active
          /\ service[b[i + 1]] \in granted

\* The rules follow such ways.
LEMMA RuleBranch ==
  ASSUME ResolverTypeOK, NEW entry \in Gateways, NEW granted,
         NEW b \in Branches(entry, links, RuleEdges(granted))
  PROVE  IsRuleWay(b, entry, granted)
<1>1. IsPath(entry, links, RuleEdges(granted), b)
  BY LinkFacts, BranchesFacts, Zenon
<1>2. b \in Seq(Gateways) /\ b # <<>> /\ b[1] = entry
      /\ \A i \in 1 .. Len(b) - 1 : <<b[i], b[i + 1]>> \in ToSet(links) \cap RuleEdges(granted)
  BY <1>1, Zenon DEF IsPath
<1>3. Len(b) \in Nat /\ 1 <= Len(b) /\ DOMAIN b = 1 .. Len(b)
  BY <1>2
<1>4. ASSUME NEW i \in 1 .. Len(b) - 1
      PROVE  /\ <<b[i], b[i + 1]>> \in ActiveLinks
             /\ b[i] \in active /\ b[i + 1] \in active
             /\ service[b[i + 1]] \in granted
  <2>1. <<b[i], b[i + 1]>> \in RuleEdges(granted)
    BY <1>2, <1>4
  <2> QED BY <2>1 DEF RuleEdges, ActiveLinks
<1> QED BY <1>2, <1>3, <1>4 DEF IsRuleWay

\* From an active gateway the rules' walk finds exactly what the plan's does.
LEMMA SameWalks ==
  ASSUME ResolverTypeOK, NEW entry \in active, NEW granted
  PROVE  Bfs(entry, links, RuleEdges(granted)) = Reachable(entry, granted)
<1> DEFINE E == {e \in Edges : e[2] \in active /\ service[e[2]] \in granted}
<1>1. entry \in Gateways /\ links \in Seq(Edges)
  BY LinkFacts DEF ResolverTypeOK
<1>2. Bfs(entry, links, RuleEdges(granted)) \subseteq Bfs(entry, links, E)
  <2>1. ASSUME NEW b \in Branches(entry, links, RuleEdges(granted)), NEW k \in 1 .. Len(b) - 1
        PROVE  <<b[k], b[k + 1]>> \in E
    <3>1. /\ <<b[k], b[k + 1]>> \in ToSet(links)
          /\ b[k + 1] \in active /\ service[b[k + 1]] \in granted
      BY <1>1, <2>1, RuleBranch, Zenon DEF IsRuleWay
    <3>2. <<b[k], b[k + 1]>> \in Edges
      BY <3>1, LinkFacts, Zenon
    <3> QED BY <3>1, <3>2
  <2> HIDE DEF E
  <2> QED BY <1>1, <2>1, WalkMonotone, Zenon
<1>3. Bfs(entry, links, E) \subseteq Bfs(entry, links, RuleEdges(granted))
  <2>1. ASSUME NEW b \in Branches(entry, links, E), NEW k \in 1 .. Len(b) - 1
        PROVE  <<b[k], b[k + 1]>> \in RuleEdges(granted)
    <3>1. IsPath(entry, links, E, b)
      BY <1>1, <2>1, BranchesFacts, Zenon
    <3>2. b \in Seq(Gateways) /\ b # <<>> /\ b[1] = entry
          /\ \A i \in 1 .. Len(b) - 1 : <<b[i], b[i + 1]>> \in ToSet(links) \cap E
      BY <3>1, Zenon DEF IsPath
    <3>3. b[k + 1] \in active /\ service[b[k + 1]] \in granted
          /\ <<b[k], b[k + 1]>> \in ToSet(links)
      BY <2>1, <3>2
    <3>4. b[k] \in active
      <4>1. CASE k = 1
        BY <3>2, <4>1
      <4>2. CASE k # 1
        <5>1. k - 1 \in 1 .. Len(b) - 1 /\ (k - 1) + 1 = k
          BY <2>1, <3>2, <4>2
        <5>2. <<b[k - 1], b[k]>> \in E
          BY <3>2, <5>1
        <5> QED BY <5>2
      <4> QED BY <4>1, <4>2
    <3> QED BY <3>3, <3>4 DEF RuleEdges, ActiveLinks
  <2> HIDE DEF E
  <2> QED BY <1>1, <2>1, WalkMonotone, Zenon
<1> QED BY <1>2, <1>3 DEF Reachable

\* An entry gateway lets through what the plan routes into it.
LEMMA Enforced ==
  ASSUME ResolverTypeOK
  PROVE  PlanEnforcedAtEntry
<1> SUFFICES ASSUME NEW u \in Users, NEW g \in Configured(u)
             PROVE  LET granted == {r[2] : r \in {r \in ForwardRules(g) : r[1] = <<u, g>>}}
                    IN  granted = ReachableNets(u, g) /\ LegacyNets(u, g) \subseteq granted
  BY Zenon DEF PlanEnforcedAtEntry
<1> DEFINE d == <<u, g>>
           granted == {r[2] : r \in {r \in ForwardRules(g) : r[1] = d}}
<1>1. /\ g \in active /\ g \in Gateways
      /\ d \in Entitled /\ d[1] = u /\ d[2] = g
  BY DEF Configured, EntryGateways, EntryServices, Entitled, ResolverTypeOK
<1> HIDE DEF d
<1>2. \A b \in Branches(g, links, RuleEdges(svcs[u])) : Contains(b, g)
  <2>1. ASSUME NEW b \in Branches(g, links, RuleEdges(svcs[u]))
        PROVE  Contains(b, g)
    <3>1. IsRuleWay(b, g, svcs[u])
      BY <1>1, <2>1, RuleBranch, Zenon
    <3>2. b[1] = g /\ Len(b) \in Nat /\ 1 <= Len(b)
      BY <3>1, Zenon DEF IsRuleWay
    <3> QED BY <3>2 DEF Contains
  <2> QED BY <2>1
<1>3. Bfs(g, links, RuleEdges(svcs[u])) = Reachable(g, svcs[u])
  BY <1>1, SameWalks, Zenon
<1>4. \A n : n \in granted <=> n \in ReachableNets(u, g)
  <2>1. \A n : n \in granted <=> \E r \in ForwardRules(g) : r[1] = d /\ n = r[2]
    BY DEF granted
  <2> HIDE DEF granted
  <2>2. \A n : n \in ReachableNets(u, g) <=>
           n \in nets[u] /\ \E b \in Branches(g, links, RuleEdges(svcs[u])) : n \in legs[Last(b)]
    <3>1. \A n : n \in ReachableNets(u, g) <=>
             n \in nets[u] /\ \E h \in Bfs(g, links, RuleEdges(svcs[u])) : n \in legs[h]
      BY <1>3 DEF ReachableNets
    <3> QED BY <3>1, Zenon DEF Bfs
  <2>3. ASSUME NEW n, n \in granted
        PROVE  n \in ReachableNets(u, g)
    <3>1. PICK r \in ForwardRules(g) : r[1] = d /\ n = r[2]
      BY <2>1, <2>3, Zenon
    <3>2. PICK c \in Entitled : \E b \in Branches(c[2], links, RuleEdges(svcs[c[1]])) :
             \E m \in nets[c[1]] \cap legs[Last(b)] : Contains(b, g) /\ r = <<c, m>>
      BY <3>1, RuleMeans
    <3>3. PICK b \in Branches(c[2], links, RuleEdges(svcs[c[1]])) :
             \E m \in nets[c[1]] \cap legs[Last(b)] : Contains(b, g) /\ r = <<c, m>>
      BY <3>2, Zenon
    <3>4. PICK m \in nets[c[1]] \cap legs[Last(b)] : r = <<c, m>>
      BY <3>3, Zenon
    <3>5. c = d /\ m = n
      BY <3>1, <3>4
    <3> QED BY <1>1, <2>2, <3>4, <3>5
  <2>4. ASSUME NEW n, n \in ReachableNets(u, g)
        PROVE  n \in granted
    <3>1. PICK b \in Branches(g, links, RuleEdges(svcs[u])) : n \in nets[u] \cap legs[Last(b)]
      BY <2>2, <2>4
    <3>2. <<d, n>> \in ForwardRules(g)
      BY <1>1, <1>2, <3>1, RuleMeans, Zenon
    <3>3. <<d, n>>[1] = d /\ <<d, n>>[2] = n
      OBVIOUS
    <3> QED BY <2>1, <3>2, <3>3, Zenon
  <2> QED BY <2>3, <2>4, Zenon
<1>5. LegacyNets(u, g) \subseteq ReachableNets(u, g)
  <2>1. g \in Reachable(g, svcs[u])
    BY <1>1, <1>3, LinkFacts, BranchesFacts, Zenon
  <2> QED BY <2>1 DEF LegacyNets, ReachableNets
<1>6. granted = ReachableNets(u, g) /\ LegacyNets(u, g) \subseteq granted
  <2> HIDE DEF granted
  <2>1. granted = ReachableNets(u, g)
    BY <1>4
  <2> QED BY <1>5, <2>1
<1> QED BY <1>6, Zenon DEF d

\* Whatever the tables, the two walks agree: a device's entry gateway forwards
\* the networks the plan routes into its tunnel, no others, and all those of a
\* single-tunnel configuration (plan_for_user, forward_rules_for_gateway,
\* networks_via_gateway).
THEOREM PlanIsEnforced == ResolverSpec => []PlanEnforcedAtEntry
<1>1. ResolverTypeOK => PlanEnforcedAtEntry
  BY Enforced
<1> QED BY <1>1, TablesTyped, PTL

\* Two hops of a way the rules follow: the later one's networks are behind the
\* earlier one, and the earlier one's subnet behind the later one.
LEMMA BranchWired ==
  ASSUME ResolverTypeOK, NEW entry \in Gateways, NEW granted,
         NEW b \in Branches(entry, links, RuleEdges(granted)),
         NEW i \in DOMAIN b, NEW j \in DOMAIN b, i <= j
  PROVE  /\ b[j] \in Bfs(b[i], links, ActiveLinks)
         /\ b[i] \in SubnetsBehind(b[j])
<1>1. /\ b \in Seq(Gateways) /\ Len(b) \in Nat /\ DOMAIN b = 1 .. Len(b)
      /\ \A k \in 1 .. Len(b) - 1 : /\ <<b[k], b[k + 1]>> \in ToSet(links)
                                    /\ <<b[k], b[k + 1]>> \in ActiveLinks
                                    /\ b[k] \in active /\ b[k + 1] \in active
  BY RuleBranch, Zenon DEF IsRuleWay
<1>2. links \in Seq(Edges) /\ Flip(links) \in Seq(Edges)
  BY LinkFacts
<1>3. \A k \in i .. j - 1 : k \in 1 .. Len(b) - 1
  BY <1>1
<1>4. \A k \in i .. j - 1 : <<b[k], b[k + 1]>> \in ToSet(links) \cap ActiveLinks
  BY <1>1, <1>3
<1>5. b[j] \in Bfs(b[i], links, ActiveLinks)
  BY <1>1, <1>2, <1>4, PathReaches, Zenon
<1>6. ASSUME NEW k \in i .. j - 1
      PROVE  <<b[k + 1], b[k]>> \in ToSet(Flip(links)) \cap (active \X active)
  <2> DEFINE e == <<b[k], b[k + 1]>>
  <2>1. e \in ToSet(links) /\ e[1] = b[k] /\ e[2] = b[k + 1]
    BY <1>1, <1>3, <1>6
  <2> HIDE DEF e
  <2>2. <<e[2], e[1]>> \in ToSet(Flip(links))
    BY <2>1, LinkFacts, Zenon
  <2>3. b[k] \in active /\ b[k + 1] \in active
    BY <1>1, <1>3, <1>6
  <2> QED BY <2>1, <2>2, <2>3
<1>7. b[i] \in Bfs(b[j], Flip(links), active \X active)
  BY <1>1, <1>2, <1>6, PathReturns, Zenon
<1> QED BY <1>5, <1>7 DEF SubnetsBehind

\* Every hop of a way the rules follow is active and of a granted service.
LEMMA HopsGranted ==
  ASSUME ResolverTypeOK, NEW d \in Entitled,
         NEW b \in Branches(d[2], links, RuleEdges(svcs[d[1]])), NEW i \in DOMAIN b
  PROVE  b[i] \in active /\ service[b[i]] \in svcs[d[1]]
<1> DEFINE entry == d[2]
           granted == svcs[d[1]]
<1>1. /\ entry \in Gateways /\ entry \in active /\ service[entry] \in granted
  BY EntitledFacts
<1> HIDE DEF entry, granted
<1>2. b \in Branches(entry, links, RuleEdges(granted))
  BY Zenon DEF entry, granted
<1>3. /\ b[1] = entry /\ Len(b) \in Nat /\ DOMAIN b = 1 .. Len(b)
      /\ \A k \in 1 .. Len(b) - 1 : b[k + 1] \in active /\ service[b[k + 1]] \in granted
  BY <1>1, <1>2, RuleBranch, Zenon DEF IsRuleWay
<1>4. CASE i = 1
  BY <1>1, <1>3, <1>4 DEF granted
<1>5. CASE i # 1
  <2>1. i - 1 \in 1 .. Len(b) - 1 /\ (i - 1) + 1 = i
    BY <1>3, <1>5
  <2>2. b[(i - 1) + 1] \in active /\ service[b[(i - 1) + 1]] \in granted
    BY <1>3, <2>1, Zenon
  <2> QED BY <2>1, <2>2 DEF granted
<1> QED BY <1>4, <1>5

\* A rule's way is wired, masqueraded and ruled at every hop.
LEMMA Wired ==
  ASSUME ResolverTypeOK
  PROVE  PathIsWired
<1> SUFFICES ASSUME NEW g \in active, NEW r \in ForwardRules(g)
             PROVE  \E b \in Branches(r[1][2], links, RuleEdges(svcs[r[1][1]])) :
               /\ Contains(b, g)
               /\ r[2] \in legs[Last(b)] /\ r[1][2] \in MasqSubnets(Last(b))
               /\ \A i \in DOMAIN b : r \in ForwardRules(b[i]) /\ service[b[i]] \in svcs[r[1][1]]
               /\ \A i \in 1 .. Len(b) - 1 :
                     /\ r[2] \in AllowedIPs(b[i], b[i + 1]).nets
                     /\ r[1][2] \in AllowedIPs(b[i + 1], b[i]).subnets
  BY Zenon DEF PathIsWired
<1>1. PICK d \in Entitled : \E b \in Branches(d[2], links, RuleEdges(svcs[d[1]])) :
         \E n \in nets[d[1]] \cap legs[Last(b)] : Contains(b, g) /\ r = <<d, n>>
  BY RuleMeans
<1>2. PICK b \in Branches(d[2], links, RuleEdges(svcs[d[1]])) :
         \E n \in nets[d[1]] \cap legs[Last(b)] : Contains(b, g) /\ r = <<d, n>>
  BY <1>1, Zenon
<1>3. PICK n \in nets[d[1]] \cap legs[Last(b)] : Contains(b, g) /\ r = <<d, n>>
  BY <1>2, Zenon
<1>4. r[1] = d /\ r[2] = n
  BY <1>3
<1>5. d[2] \in Gateways
  BY EntitledFacts
<1>6. /\ b \in Seq(Gateways) /\ b # <<>> /\ b[1] = d[2]
      /\ Len(b) \in Nat /\ 1 <= Len(b) /\ DOMAIN b = 1 .. Len(b)
      /\ \A i \in 1 .. Len(b) - 1 : <<b[i], b[i + 1]>> \in ActiveLinks
  <2>1. IsRuleWay(b, d[2], svcs[d[1]])
    BY <1>5, RuleBranch, Zenon
  <2> QED BY <2>1, Zenon DEF IsRuleWay
<1>7. 1 \in DOMAIN b /\ Len(b) \in DOMAIN b /\ 1 <= Len(b)
  BY <1>6
<1>8. n \in legs[b[Len(b)]]
  BY <1>3, Zenon DEF Last
<1>9. d[2] \in MasqSubnets(Last(b))
  <2>1. b[1] \in SubnetsBehind(b[Len(b)])
    BY <1>5, <1>7, BranchWired, Zenon
  <2> QED BY <1>6, <2>1, Zenon DEF MasqSubnets, Last
<1>10. ASSUME NEW i \in DOMAIN b
       PROVE  r \in ForwardRules(b[i]) /\ service[b[i]] \in svcs[d[1]]
  <2>1. Contains(b, b[i])
    BY <1>6 DEF Contains
  <2>2. r \in ForwardRules(b[i])
    BY <1>3, <2>1, RuleMeans
  <2>3. service[b[i]] \in svcs[d[1]]
    BY HopsGranted, Zenon
  <2> QED BY <2>2, <2>3
<1>11. ASSUME NEW i \in 1 .. Len(b) - 1
       PROVE  /\ n \in AllowedIPs(b[i], b[i + 1]).nets
              /\ d[2] \in AllowedIPs(b[i + 1], b[i]).subnets
  <2>1. /\ i \in DOMAIN b /\ i + 1 \in DOMAIN b
        /\ 1 <= i /\ i + 1 <= Len(b)
    BY <1>6
  <2>2. <<b[i], b[i + 1]>> \in ActiveLinks
    BY <1>6
  <2>3. b[Len(b)] \in Bfs(b[i + 1], links, ActiveLinks)
    BY <1>5, <1>7, <2>1, BranchWired, Zenon
  <2>4. b[1] \in SubnetsBehind(b[i])
    BY <1>5, <1>7, <2>1, BranchWired, Zenon
  <2>5. n \in NetsBehind(b[i + 1])
    BY <1>8, <2>3 DEF NetsBehind
  <2>6. d[2] \in SubnetsBehind(b[i])
    BY <1>6, <2>4, Zenon
  <2> QED BY <2>2, <2>5, <2>6 DEF AllowedIPs
<1>12. /\ b \in Branches(r[1][2], links, RuleEdges(svcs[r[1][1]]))
       /\ Contains(b, g)
       /\ r[2] \in legs[Last(b)] /\ r[1][2] \in MasqSubnets(Last(b))
  BY <1>3, <1>4, <1>9, Zenon
<1>13. \A i \in DOMAIN b : r \in ForwardRules(b[i]) /\ service[b[i]] \in svcs[r[1][1]]
  BY <1>4, <1>10, Zenon
<1>14. \A i \in 1 .. Len(b) - 1 : /\ r[2] \in AllowedIPs(b[i], b[i + 1]).nets
                                  /\ r[1][2] \in AllowedIPs(b[i + 1], b[i]).subnets
  BY <1>4, <1>11, Zenon
<1> QED BY <1>12, <1>13, <1>14, Zenon

\* Whatever the tables, a rule at a gateway is usable: its hops are wired as
\* peers both ways, all carry the rule and are of granted services, and the
\* last masquerades the device's subnet (relay_peers_for_gateway,
\* forward_rules_for_gateway, masq_subnets_for_gateway).
THEOREM RulesAreWired == ResolverSpec => []PathIsWired
<1>1. ResolverTypeOK => PathIsWired
  BY Wired
<1> QED BY <1>1, TablesTyped, PTL

(***************************************************************************)
(* The overlay.  Its kernels are well formed, with what is derived from    *)
(* well-formed tables.                                                     *)
(***************************************************************************)
LEMMA LastOfOne ==
  ASSUME NEW S \in SUBSET Gateways
  PROVE  LastOf(S) \in Gateways \cup {None}
<1>1. CASE S = {}
  BY <1>1 DEF LastOf
<1>2. CASE S # {}
  <2> DEFINE R == {NGateways - x : x \in S}
  <2>1. NGateways \in Nat
    BY ResolverAssumption
  <2>2. \A x \in S : x \in Nat /\ NGateways - x \in Nat
    BY <2>1 DEF Gateways
  <2>3. R \in SUBSET Nat /\ R # {}
    BY <1>2, <2>2
  <2> HIDE DEF R
  <2>4. Min(R) \in R /\ \A y \in R : Min(R) <= y
    BY <2>3, MinLeast
  <2>5. PICK x \in S : Min(R) = NGateways - x
    BY <2>4 DEF R
  <2>6. \A y \in S : NGateways - x <= NGateways - y
    BY <2>4, <2>5 DEF R
  <2>7. \A y \in S : y <= x
    BY <2>1, <2>2, <2>6
  <2>8. Max(S) \in S
    BY <2>7 DEF Max
  <2> QED BY <1>2, <2>8 DEF LastOf
<1> QED BY <1>1, <1>2

\* What a sync programs is a kernel state.
LEMMA ProgrammedTyped ==
  ASSUME TypeOK, NEW g \in Gateways, NEW known
  PROVE  Programmed(g, known) \in Kernel
<1> DEFINE ready == RelayPeers(g) \cap known
           clients == {d \in devices : d[2] = g}
           forward == [n \in Nets |-> LastOf({p \in ready : n \in AllowedIPs(g, p).nets})]
           return == [s \in Gateways |-> LastOf({p \in ready : s \in AllowedIPs(g, p).subnets})]
           masq == kernel[g].masq \cup MasqSubnets(g)
<1>1. ResolverTypeOK
  BY DEF TypeOK
<1>2. clients \in SUBSET Addresses
  BY <1>1 DEF ResolverTypeOK
<1>3. ready \in SUBSET Gateways
  BY DEF RelayPeers
<1>4. forward \in [Nets -> Gateways \cup {None}]
  <2> HIDE DEF ready
  <2>1. \A n \in Nets : {p \in ready : n \in AllowedIPs(g, p).nets} \in SUBSET Gateways
    BY <1>3
  <2> QED BY <2>1, LastOfOne
<1>5. return \in [Gateways -> Gateways \cup {None}]
  <2> HIDE DEF ready
  <2>1. \A s \in Gateways : {p \in ready : s \in AllowedIPs(g, p).subnets} \in SUBSET Gateways
    BY <1>3
  <2> QED BY <2>1, LastOfOne
<1>6. ForwardRules(g) \in SUBSET Flows
  <2>1. ASSUME NEW r \in ForwardRules(g)
        PROVE  r \in Flows
    <3>1. PICK d \in Entitled : \E b \in Branches(d[2], links, RuleEdges(svcs[d[1]])) :
             \E n \in nets[d[1]] \cap legs[Last(b)] : Contains(b, g) /\ r = <<d, n>>
      BY RuleMeans
    <3>2. PICK n \in nets[d[1]] : r = <<d, n>>
      BY <3>1
    <3>3. d \in Addresses /\ d[1] \in Users
      BY <1>1, EntitledFacts DEF ResolverTypeOK
    <3>4. n \in Nets
      BY <1>1, <3>2, <3>3 DEF ResolverTypeOK
    <3> QED BY <3>2, <3>3, <3>4 DEF Flows
  <2> QED BY <2>1
<1>7. masq \in SUBSET Gateways
  <2>1. Flip(links) \in Seq(Edges)
    BY <1>1, LinkFacts
  <2>2. MasqSubnets(g) \in SUBSET Gateways
    BY <2>1, BranchesFacts DEF MasqSubnets, SubnetsBehind
  <2>3. kernel[g].masq \in SUBSET Gateways
    BY DEF TypeOK, Kernel
  <2> QED BY <2>2, <2>3
<1>8. Programmed(g, known) = [clients |-> clients, forward |-> forward, return |-> return,
                              rules |-> ForwardRules(g), masq |-> masq]
  BY Zenon DEF Programmed
<1> HIDE DEF clients, forward, return, masq
<1> QED BY <1>2, <1>4, <1>5, <1>6, <1>7, <1>8 DEF Kernel

\* The tables and the gateways' kernels keep their shape through any edits and
\* syncs (gateway_sync, reconcile).
THEOREM TypeCorrect == Spec => []TypeOK
<1>1. Init => TypeOK
  <2> SUFFICES ASSUME Init PROVE TypeOK
    OBVIOUS
  <2>1. ResolverTypeOK /\ reported \subseteq Gateways
    BY InitTyped DEF Init
  <2>2. Blank \in Kernel
    BY DEF Blank, Kernel
  <2>3. kernel \in [Gateways -> Kernel]
    BY <2>2 DEF Init
  <2>4. overwritten \in [Gateways -> SUBSET (Nets \cup Gateways)]
    BY DEF Init
  <2> QED BY <2>1, <2>3, <2>4 DEF TypeOK
<1>2. TypeOK /\ [Next]_vars => TypeOK'
  <2> SUFFICES ASSUME TypeOK, [Next]_vars PROVE TypeOK'
    OBVIOUS
  <2>1. CASE AdminEdit
    <3>1. ResolverTypeOK'
      BY <2>1, EditTyped DEF AdminEdit, TypeOK
    <3> QED BY <2>1, <3>1 DEF AdminEdit, TypeOK
  <2>2. ASSUME NEW g \in Gateways, Sync(g)
        PROVE  TypeOK'
    <3>1. ResolverTypeOK'
      BY <2>2 DEF Sync, TypeOK, tables, ResolverTypeOK
    <3>2. Programmed(g, reported') \in Kernel
      BY ProgrammedTyped
    <3>3. kernel' \in [Gateways -> Kernel]
      BY <2>2, <3>2 DEF Sync, TypeOK
    <3>4. reported' \subseteq Gateways
      BY <2>2 DEF Sync, TypeOK
    <3>5. Overwrites(g) \subseteq Nets \cup Gateways
      BY DEF Overwrites, Routed
    <3>6. overwritten' \in [Gateways -> SUBSET (Nets \cup Gateways)]
      BY <2>2, <3>5 DEF Sync, TypeOK
    <3> QED BY <3>1, <3>3, <3>4, <3>6 DEF TypeOK
  <2>3. CASE UNCHANGED vars
    BY <2>3 DEF vars, tables, TypeOK, ResolverTypeOK
  <2> QED BY <2>1, <2>2, <2>3, Zenon DEF Next
<1> QED BY <1>1, <1>2, PTL DEF Spec

(***************************************************************************)
(* A packet's way.                                                         *)
(***************************************************************************)
Entered(f) == IF Passes(f[1][2], Client, f) THEN <<f[1][2]>> ELSE <<>>

Onward(f) ==
    [hops \in Seq(Gateways) |->
        IF hops = <<>> \/ kernel[Last(hops)].forward[f[2]] = None THEN hops
        ELSE IF Passes(kernel[Last(hops)].forward[f[2]], Last(hops), f)
             THEN Append(hops, kernel[Last(hops)].forward[f[2]]) ELSE <<>>]

\* Some recursive function satisfies the way's definition.
LEMMA WayChosen ==
  ASSUME NEW f, NEW v, IsWalk(Entered(f), Onward(f), v, NGateways + 1)
  PROVE  \E w : /\ IsWalk(Entered(f), Onward(f), w, NGateways + 1)
                /\ Way(f) = w[NGateways + 1]
<1> DEFINE w == CHOOSE h : IsWalk(Entered(f), Onward(f), h, NGateways + 1)
<1>1. IsWalk(Entered(f), Onward(f), w, NGateways + 1)
  BY Zenon
<1>2. Way(f) = w[NGateways + 1]
  BY Zenon DEF Way, IsWalk, Entered, Onward
<1> QED BY <1>1, <1>2, Zenon

\* Each hop of a flow's way has the rule for it.
LEMMA WayRuled ==
  ASSUME TypeOK, NEW f \in Flows
  PROVE  Way(f) \in Seq(Gateways) /\ \A g \in ToSet(Way(f)) : f \in kernel[g].rules
<1> DEFINE Ruled(hops) == /\ hops \in Seq(Gateways)
                          /\ \A i \in DOMAIN hops : f \in kernel[hops[i]].rules
<1>1. NGateways \in Nat /\ NGateways + 1 \in Nat /\ NGateways + 1 \in 1 .. NGateways + 1
  BY ResolverAssumption
<1>2. PICK v : IsWalk(Entered(f), Onward(f), v, NGateways + 1)
  BY <1>1, WalkExists, Zenon
<1>3. PICK w : /\ IsWalk(Entered(f), Onward(f), w, NGateways + 1)
               /\ Way(f) = w[NGateways + 1]
  BY <1>2, WayChosen, Zenon
<1>4. Ruled(Entered(f))
  <2>1. f[1][2] \in Gateways
    BY DEF Flows, Addresses
  <2>2. CASE Passes(f[1][2], Client, f)
    <3>1. Entered(f) = <<f[1][2]>> /\ f \in kernel[f[1][2]].rules
      BY <2>2, Zenon DEF Entered, Passes
    <3> QED BY <2>1, <3>1
  <2>3. CASE ~Passes(f[1][2], Client, f)
    <3>1. Entered(f) = <<>>
      BY <2>3, Zenon DEF Entered
    <3> QED BY <3>1
  <2> QED BY <2>2, <2>3
<1>5. ASSUME NEW hops, Ruled(hops)
      PROVE  Ruled(Onward(f)[hops])
  <2> DEFINE next == kernel[Last(hops)].forward[f[2]]
  <2>1. hops \in Seq(Gateways)
    BY <1>5
  <2>2. Onward(f)[hops] = IF hops = <<>> \/ next = None THEN hops
                          ELSE IF Passes(next, Last(hops), f) THEN Append(hops, next) ELSE <<>>
    BY <2>1, Zenon DEF Onward
  <2>3. CASE hops = <<>> \/ next = None
    BY <1>5, <2>2, <2>3, Zenon
  <2>4. CASE ~(hops = <<>> \/ next = None) /\ Passes(next, Last(hops), f)
    <3>1. Last(hops) \in Gateways
      BY <2>1, <2>4 DEF Last
    <3>2. next \in Gateways
      BY <2>4, <3>1 DEF TypeOK, Kernel, Flows
    <3>3. f \in kernel[next].rules
      BY <2>4, Zenon DEF Passes
    <3>4. Onward(f)[hops] = Append(hops, next)
      BY <2>2, <2>4, Zenon
    <3> HIDE DEF next
    <3> DEFINE m == Append(hops, next)
    <3>5. /\ m \in Seq(Gateways) /\ DOMAIN m = 1 .. Len(hops) + 1 /\ m[Len(hops) + 1] = next
          /\ \A i \in DOMAIN hops : m[i] = hops[i]
      BY <2>1, <3>2
    <3>6. \A i \in DOMAIN m : i \in DOMAIN hops \/ i = Len(hops) + 1
      BY <2>1, <3>5
    <3> HIDE DEF m
    <3>7. \A i \in DOMAIN m : f \in kernel[m[i]].rules
      <4>1. ASSUME NEW i \in DOMAIN m PROVE f \in kernel[m[i]].rules
        <5>1. CASE i \in DOMAIN hops
          <6>1. m[i] = hops[i] /\ f \in kernel[hops[i]].rules
            BY <1>5, <3>5, <5>1, Zenon
          <6> QED BY <6>1, Zenon
        <5>2. CASE i = Len(hops) + 1
          BY <3>3, <3>5, <5>2, Zenon
        <5> QED BY <3>6, <5>1, <5>2, Zenon
      <4> QED BY <4>1
    <3>8. Ruled(m)
      BY <3>5, <3>7, Zenon
    <3> QED BY <3>4, <3>8, Zenon DEF m
  <2>5. CASE ~(hops = <<>> \/ next = None) /\ ~Passes(next, Last(hops), f)
    <3>1. Onward(f)[hops] = <<>>
      BY <2>2, <2>5, Zenon
    <3> QED BY <3>1
  <2> QED BY <2>3, <2>4, <2>5, Zenon
<1> HIDE DEF Ruled
<1>6. \A k \in 1 .. NGateways + 1 : Ruled(w[k])
  <2> DEFINE Bad == {k \in 1 .. NGateways + 1 : ~Ruled(w[k])}
  <2> SUFFICES ASSUME Bad # {} PROVE FALSE
    BY Zenon
  <2>1. Bad \in SUBSET Nat
    OBVIOUS
  <2>2. PICK k \in Bad : \A y \in Bad : k <= y
    BY <2>1, MinLeast
  <2>3. k \in 1 .. NGateways + 1 /\ ~Ruled(w[k])
    BY <2>2
  <2>4. w[k] = IF k = 1 THEN Entered(f) ELSE Onward(f)[w[k - 1]]
    BY <1>3, <2>3, Zenon DEF IsWalk
  <2>5. k # 1
    BY <1>4, <2>3, <2>4, Zenon
  <2>6. k - 1 \in 1 .. NGateways + 1 /\ ~(k <= k - 1)
    BY <1>1, <2>3, <2>5
  <2>7. Ruled(w[k - 1])
    BY <2>2, <2>6, Zenon
  <2> QED BY <1>5, <2>3, <2>4, <2>5, <2>7, Zenon
<1>7. Ruled(Way(f))
  BY <1>1, <1>3, <1>6, Zenon
<1> QED BY <1>7 DEF ToSet, Ruled

\* What a forward rule means for the plan, at any gateway.
LEMMA RuleIsPlanned ==
  ASSUME ResolverTypeOK, NEW g, NEW r \in ForwardRules(g)
  PROVE  /\ r[1] \in devices /\ service[r[1][2]] \in EntryServices(r[1][1])
         /\ r[2] \in ReachableNets(r[1][1], r[1][2])
         /\ service[g] \in svcs[r[1][1]]
<1>1. PICK d \in Entitled : \E b \in Branches(d[2], links, RuleEdges(svcs[d[1]])) :
         \E n \in nets[d[1]] \cap legs[Last(b)] : Contains(b, g) /\ r = <<d, n>>
  BY RuleMeans
<1>2. PICK b \in Branches(d[2], links, RuleEdges(svcs[d[1]])) :
         \E n \in nets[d[1]] \cap legs[Last(b)] : Contains(b, g) /\ r = <<d, n>>
  BY <1>1, Zenon
<1>3. PICK n \in nets[d[1]] \cap legs[Last(b)] : Contains(b, g) /\ r = <<d, n>>
  BY <1>2, Zenon
<1>4. r[1] = d /\ r[2] = n
  BY <1>3
<1>5. /\ d \in devices /\ d[2] \in active /\ d[2] \in Gateways
      /\ service[d[2]] \in svcs[d[1]] \cap accepts
  BY EntitledFacts
<1>6. n \in ReachableNets(d[1], d[2])
  <2>1. Last(b) \in Bfs(d[2], links, RuleEdges(svcs[d[1]]))
    BY <1>2, Zenon DEF Bfs
  <2>2. Last(b) \in Reachable(d[2], svcs[d[1]])
    BY <1>5, <2>1, SameWalks, Zenon
  <2> QED BY <1>3, <2>2 DEF ReachableNets
<1>7. service[g] \in svcs[d[1]]
  <2>1. DOMAIN b = 1 .. Len(b)
    <3>1. IsRuleWay(b, d[2], svcs[d[1]])
      BY <1>2, <1>5, RuleBranch, Zenon
    <3> QED BY <3>1, Zenon DEF IsRuleWay
  <2>2. PICK i \in DOMAIN b : b[i] = g
    BY <1>3, <2>1 DEF Contains
  <2> QED BY <1>2, <2>2, HopsGranted, Zenon
<1> QED BY <1>4, <1>5, <1>6, <1>7, Zenon DEF EntryServices

\* A fresh hop's rules are the plan's, and a flow that arrives passed them.
LEMMA FreshHopEnforces ==
  ASSUME TypeOK
  PROVE  OneFreshHopEnforces
<1> SUFFICES ASSUME NEW f \in Flows, Arrives(f),
                    NEW g \in {h \in ToSet(Way(f)) : Fresh(h)}
             PROVE  /\ f[1] \in devices /\ service[f[1][2]] \in EntryServices(f[1][1])
                    /\ f[2] \in ReachableNets(f[1][1], f[1][2])
                    /\ service[g] \in svcs[f[1][1]]
  BY Zenon DEF OneFreshHopEnforces
<1>1. f \in kernel[g].rules
  BY WayRuled, Zenon
<1>2. f \in ForwardRules(g)
  BY <1>1, Zenon DEF Fresh
<1>3. ResolverTypeOK
  BY DEF TypeOK
<1> QED BY <1>2, <1>3, RuleIsPlanned, Zenon

\* Every hop enforces on its own: a flow that arrives by way of one gateway
\* with the present rules is one the present plan grants, through a gateway of
\* a granted service, however old the state of the others
\* (rebuild_egress_firewall, forward_rules_for_gateway).
THEOREM OneFreshHopIsEnough == Spec => []OneFreshHopEnforces
<1>1. TypeOK => OneFreshHopEnforces
  BY FreshHopEnforces
<1> QED BY <1>1, TypeCorrect, PTL
=============================================================================
