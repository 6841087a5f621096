-------------------------- MODULE GraphBuildProofs --------------------------
(***************************************************************************)
(* Theorems about the order of execution and about build(), for every      *)
(* finite deck and every ranking: the sort gives a topological order that  *)
(* depends on the edges and the creation order only, of all properties     *)
(* unless some wait for each other; and what it reports then is a cycle.   *)
(***************************************************************************)
EXTENDS GraphBuild, FiniteSetTheorems, TLAPS

-----------------------------------------------------------------------------
(***************************************************************************)
(* Lemmas about sequences and about what a node waits for.                 *)
(***************************************************************************)
\* Sets of nodes are finite.
LEMMA FiniteNodes ==
  ASSUME NEW S \in SUBSET Node
  PROVE  IsFiniteSet(S) /\ Cardinality(S) \in Nat /\ (Cardinality(S) = 0 <=> S = {})
<1>1. IsFiniteSet(S)
  BY NodeAssumption, FS_Subset
<1> QED
  BY <1>1, FS_CardinalityType, FS_EmptySet

\* One node less: its cardinality is one less.
LEMMA OneLess ==
  ASSUME NEW S \in SUBSET Node, NEW x \in S
  PROVE  Cardinality(S \ {x}) = Cardinality(S) - 1
BY FiniteNodes, FS_RemoveElement

\* An element of a sequence of nodes.
LEMMA ElementOf ==
  ASSUME NEW s \in Seq(Node), NEW i \in 1..Len(s)
  PROVE  s[i] \in Node
OBVIOUS

\* The last index of a sequence.
LEMMA LastIndex ==
  ASSUME NEW s \in Seq(Node), s # <<>>
  PROVE  Len(s) \in Nat /\ Len(s) \in 1..Len(s)
OBVIOUS

\* Appending a node.
LEMMA Appended ==
  ASSUME NEW s \in Seq(Node), NEW n \in Node
  PROVE  /\ Append(s, n) \in Seq(Node) /\ Append(s, n) # <<>>
         /\ Len(Append(s, n)) = Len(s) + 1
         /\ \A i \in 1..Len(s) : Append(s, n)[i] = s[i]
         /\ Append(s, n)[Len(s) + 1] = n
OBVIOUS

\* A part of a sequence.
LEMMA Part ==
  ASSUME NEW s \in Seq(Node), NEW i \in 1..(Len(s) + 1), NEW j \in 0..Len(s), i <= j + 1
  PROVE  /\ SubSeq(s, i, j) \in Seq(Node) /\ Len(SubSeq(s, i, j)) = j - i + 1
         /\ \A a \in 1..(j - i + 1) : SubSeq(s, i, j)[a] = s[a + i - 1]
OBVIOUS

\* The nodes a rotated sequence is made of.
LEMMA Rotation ==
  ASSUME NEW s \in Seq(Node), NEW k \in 1..Len(s)
  PROVE  /\ Rotated(s, k) \in Seq(Node) /\ Len(Rotated(s, k)) = Len(s)
         /\ \A a \in 1..Len(s) :
              Rotated(s, k)[a] = IF a <= Len(s) - k + 1 THEN s[a + k - 1]
                                 ELSE s[a - (Len(s) - k + 1)]
<1> DEFINE t == SubSeq(s, k, Len(s))
           h == SubSeq(s, 1, k - 1)
<1>1. t \in Seq(Node) /\ Len(t) = Len(s) - k + 1 /\ \A a \in 1..(Len(s) - k + 1) : t[a] = s[a + k - 1]
  OBVIOUS
<1>2. h \in Seq(Node) /\ Len(h) = k - 1 /\ \A a \in 1..(k - 1) : h[a] = s[a]
  OBVIOUS
<1> HIDE DEF t, h
<1>3. /\ t \o h \in Seq(Node) /\ Len(t \o h) = Len(s)
      /\ \A a \in 1..Len(s) : (t \o h)[a] = IF a <= Len(t) THEN t[a] ELSE h[a - Len(t)]
  BY <1>1, <1>2
<1> QED
  BY <1>1, <1>2, <1>3 DEF Rotated, t, h

\* A path whose last node has an edge to its first one is a cycle, wherever it begins.
LEMMA RotatedIsCycle ==
  ASSUME NEW s \in Seq(Node), NEW k \in 1..Len(s), Smallest(s, k),
         \A i \in 1..(Len(s) - 1) : <<s[i], s[i + 1]>> \in edges,
         <<s[Len(s)], s[1]>> \in edges,
         \A i, j \in 1..Len(s) : s[i] = s[j] => i = j
  PROVE  Rotated(s, k) # <<>> /\ IsCycle(Rotated(s, k))
<1> DEFINE r == Rotated(s, k)
           at(a) == IF a <= Len(s) - k + 1 THEN a + k - 1 ELSE a - (Len(s) - k + 1)
           nx(i) == IF i = Len(s) THEN 1 ELSE i + 1
<1>1. /\ Len(s) \in Nat \ {0} /\ r \in Seq(Node) /\ Len(r) = Len(s)
      /\ \A a \in 1..Len(s) : at(a) \in 1..Len(s) /\ r[a] = s[at(a)]
  <2>1. Len(s) \in Nat \ {0} /\ k \in 1..Len(s)
    OBVIOUS
  <2>2. /\ r \in Seq(Node) /\ Len(r) = Len(s)
        /\ \A a \in 1..Len(s) : r[a] = IF a <= Len(s) - k + 1 THEN s[a + k - 1] ELSE s[a - (Len(s) - k + 1)]
    BY Rotation
  <2>3. \A a \in 1..Len(s) : at(a) \in 1..Len(s)
    BY <2>1
  <2>4. \A a \in 1..Len(s) : r[a] = s[at(a)]
    BY <2>2
  <2> QED
    BY <2>1, <2>2, <2>3, <2>4
<1>2. \A i \in 1..Len(s) : <<s[i], s[nx(i)]>> \in edges
  OBVIOUS
<1>3. \A a \in 1..Len(s) : at(nx(a)) = nx(at(a)) /\ nx(a) \in 1..Len(s)
  <2> TAKE a \in 1..Len(s)
  <2> Len(s) \in Nat
    BY <1>1
  <2>1. CASE a = Len(s)
    BY <2>1
  <2>2. CASE a # Len(s) /\ a = Len(s) - k + 1
    BY <2>2
  <2>3. CASE a # Len(s) /\ a < Len(s) - k + 1
    BY <2>3
  <2>4. CASE a # Len(s) /\ a > Len(s) - k + 1
    BY <2>4
  <2> QED
    BY <2>1, <2>2, <2>3, <2>4
<1>4. \A a, b \in 1..Len(s) : at(a) = at(b) => a = b
  OBVIOUS
<1>5. \A a \in 1..Len(s) : s[k] <= s[at(a)]
  BY <1>1 DEF Smallest
<1>6. at(1) = k /\ 1 \in 1..Len(s)
  OBVIOUS
<1>a. \A i \in 1..Len(s) : nx(i) = IF i = Len(r) THEN 1 ELSE i + 1
  BY <1>1
<1>b. \A i \in 1..Len(s) : s[i] \in Nat
  BY ElementOf, NodeAssumption
<1> HIDE DEF r, at, nx
<1>7. ASSUME NEW i \in 1..Len(s)
      PROVE  <<r[i], r[nx(i)]>> \in edges
  <2>1. r[i] = s[at(i)] /\ at(i) \in 1..Len(s)
    BY <1>1
  <2>2. r[nx(i)] = s[nx(at(i))]
    BY <1>1, <1>3
  <2> QED
    BY <1>2, <2>1, <2>2
<1>8. ASSUME NEW i \in 1..Len(s), NEW j \in 1..Len(s), i < j
      PROVE  r[i] # r[j] /\ r[1] < r[j]
  <2>1. r[i] = s[at(i)] /\ r[j] = s[at(j)] /\ r[1] = s[at(1)]
    BY <1>1, <1>6
  <2>2. r[1] <= r[j]
    BY <1>1, <1>5, <1>6, <2>1
  <2>3. j # 1 /\ i # j
    BY <1>1, <1>8
  <2>a. at(i) # at(j) /\ at(1) # at(j)
    BY <1>4, <1>6, <2>3
  <2>4. r[i] # r[j] /\ r[1] # r[j]
    BY <1>1, <1>6, <2>1, <2>a
  <2>5. r[1] \in Nat /\ r[j] \in Nat
    BY <1>1, <1>6, <1>b, <2>1
  <2> QED
    BY <2>2, <2>4, <2>5
<1>9. r # <<>>
  BY <1>1
<1> QED
  BY <1>1, <1>7, <1>8, <1>9, <1>a DEF IsCycle, r

-----------------------------------------------------------------------------
(***************************************************************************)
(* The sort.                                                               *)
(***************************************************************************)
Sort == TypeOK /\ SortInv /\ OrderIsTopological /\ OrderIsLeast /\ SortDecides

LEMMA SortInit == Init => Sort
<1> SUFFICES ASSUME Init
             PROVE  Sort
  OBVIOUS
<1>0. order = <<>> /\ Len(order) = 0
  BY DEF Init
<1>1. order = <<>> /\ Placed = {} /\ Cardinality(Placed) = 0
  <2>1. 1..Len(order) = {}
    BY <1>0
  <2>2. Placed = {}
    BY <2>1 DEF Placed
  <2> QED
    BY <1>0, <2>2, FS_EmptySet
<1>2. \A n \in Node : Waits(n) = Pred(n)
  BY <1>1 DEF Waits
<1>3. TypeOK
  <2>1. \A n \in Node : Cardinality(Pred(n)) \in Nat
    BY FiniteNodes DEF Pred
  <2> QED
    BY <2>1, NodeAssumption DEF Init, TypeOK
<1>4. SortInv
  BY <1>1, <1>2 DEF Init, SortInv
<1>5. OrderIsTopological /\ OrderIsLeast /\ SortDecides
  BY <1>1 DEF Init, OrderIsTopological, OrderIsLeast, SortDecides
<1> QED
  BY <1>3, <1>4, <1>5 DEF Sort

\* Placing the first ready node.
LEMMA SortPlace ==
  ASSUME Sort, NEW n \in Node, Place(n)
  PROVE  Sort'
<1>1. /\ phase = "sort" /\ release = {} /\ n \in ready /\ \A m \in ready \ {n} : Before(n, m)
      /\ ready' = ready \ {n} /\ order' = Append(order, n) /\ release' = Succ(n)
      /\ edges' = edges /\ created' = created /\ phase' = phase /\ indegree' = indegree
      /\ UNCHANGED searchVars
  BY DEF Place, inputVars
<1>2. order \in Seq(Node) /\ edges \subseteq Node \X Node
  BY DEF Sort, TypeOK
<1>3. /\ order' \in Seq(Node) /\ order' # <<>> /\ Len(order') = Len(order) + 1
      /\ \A i \in 1..Len(order) : order'[i] = order[i]
      /\ order'[Len(order')] = n /\ Len(order) \in Nat
  BY <1>1, <1>2, Appended
<1>4. Placed' = Placed \cup {n}
  BY <1>3 DEF Placed
<1>5. n \notin Placed /\ Waits(n) = {} /\ \A m \in Node : Waits(m) = Pred(m) \ Placed
  BY <1>1 DEF Sort, SortInv, Waits
<1>6. \A m \in Node : Pred(m)' = Pred(m) /\ Succ(m)' = Succ(m) /\ (m \in Succ(n) <=> n \in Pred(m))
  BY <1>1 DEF Pred, Succ
<1>7. \A m \in Node : Waits(m)' = Waits(m)
  <2> TAKE m \in Node
  <2>1. Waits(m)' = {p \in Pred(m) : p \notin Placed \cup {n} \/ (m \in Succ(n) /\ p = n)}
    BY <1>1, <1>3, <1>4, <1>6 DEF Waits
  <2> QED
    BY <2>1, <1>5, <1>6
<1>8. TypeOK'
  BY <1>1, <1>3 DEF Sort, TypeOK, searchVars, Succ
<1>9. SortInv'
  <2>1. Cardinality(Placed)' = Len(order')
    <3>1. Placed \subseteq Node
      BY <1>2, ElementOf DEF Placed
    <3> QED
      BY <1>3, <1>4, <1>5, <3>1, FiniteNodes, FS_AddElement DEF Sort, SortInv
  <2>2. ready' = {m \in Node \ Placed' : Waits(m)' = {}}
    BY <1>1, <1>4, <1>7 DEF Sort, SortInv
  <2>3. \A m \in Placed' : Waits(m)' = {}
    <3>1. \A m \in Placed : m \in Node
      BY <1>2, ElementOf DEF Placed
    <3> QED
      BY <1>4, <1>5, <1>7, <3>1 DEF Sort, SortInv
  <2>4. \A m \in Node : indegree'[m] = Cardinality(Waits(m))'
    BY <1>1, <1>7 DEF Sort, SortInv
  <2>5. release' \subseteq Succ(order[Len(order)])'
    BY <1>1, <1>3 DEF Succ
  <2> QED
    BY <1>1, <1>3, <2>1, <2>2, <2>3, <2>4, <2>5 DEF SortInv
<1>10. OrderIsTopological'
  <2>1. \A j \in 1..Len(order') : Pred(order[j])' = Pred(order'[j])
    BY <1>1 DEF Pred
  <2>2. ASSUME NEW j \in 1..Len(order'), NEW m \in Pred(order'[j])
        PROVE  \E i \in 1..(j - 1) : order'[i] = m
    <3>1. CASE j = Len(order')
      <4>1. m \in Placed
        BY <1>3, <1>5, <2>2, <3>1
      <4> QED
        BY <1>3, <3>1, <4>1 DEF Placed
    <3>2. CASE j # Len(order')
      <4>1. j \in 1..Len(order) /\ order'[j] = order[j]
        BY <1>3, <3>2
      <4>2. PICK i \in 1..(j - 1) : order[i] = m
        BY <2>2, <4>1 DEF Sort, OrderIsTopological
      <4>3. i \in 1..Len(order)
        BY <1>3, <4>1
      <4> QED
        BY <1>3, <4>2, <4>3
    <3> QED
      BY <3>1, <3>2
  <2> QED
    BY <2>1, <2>2 DEF OrderIsTopological
<1>11. OrderIsLeast'
  <2> SUFFICES ASSUME NEW j \in 1..Len(order'),
                      NEW m \in Node \ {order'[i] : i \in 1..(j - 1)},
                      Pred(m)' \subseteq {order'[i] : i \in 1..(j - 1)}
               PROVE  m = order'[j] \/ Before(order[j], m)'
    BY DEF OrderIsLeast
  <2>a. Pred(m)' = Pred(m) /\ (Before(order[j], m)' <=> Before(order'[j], m))
    BY <1>1, <1>6 DEF Before
  <2> SUFFICES ASSUME Pred(m) \subseteq {order'[i] : i \in 1..(j - 1)}
               PROVE  m = order'[j] \/ Before(order'[j], m)
    BY <2>a
  <2>1. {order'[i] : i \in 1..(j - 1)} = {order[i] : i \in 1..(j - 1)}
    BY <1>3
  <2>2. CASE j = Len(order')
    <3>1. {order[i] : i \in 1..(j - 1)} = Placed
      BY <1>3, <2>2 DEF Placed
    <3>2. Waits(m) = {} /\ m \notin Placed
      BY <1>5, <2>1, <3>1
    <3>3. m \in ready
      BY <3>2 DEF Sort, SortInv
    <3> QED
      BY <1>1, <1>3, <2>2, <3>3
  <2>3. CASE j # Len(order')
    BY <1>3, <2>1, <2>3 DEF Sort, OrderIsLeast
  <2> QED
    BY <2>2, <2>3
<1>12. SortDecides'
  BY <1>1 DEF SortDecides
<1> QED
  BY <1>8, <1>9, <1>10, <1>11, <1>12 DEF Sort

\* One edge less to wait for.
LEMMA SortRelease ==
  ASSUME Sort, NEW n \in Node, Release(n)
  PROVE  Sort'
<1> DEFINE last == order[Len(order)]
<1>1. /\ phase = "sort" /\ n \in release /\ release' = release \ {n}
      /\ indegree' = [indegree EXCEPT ![n] = @ - 1]
      /\ ready' = IF indegree[n] = 1 THEN ready \cup {n} ELSE ready
      /\ edges' = edges /\ created' = created /\ phase' = phase /\ order' = order
      /\ UNCHANGED searchVars
  BY DEF Release, inputVars
<1>2. order \in Seq(Node) /\ edges \subseteq Node \X Node /\ indegree \in [Node -> Nat]
  BY DEF Sort, TypeOK
<1>3. \A m \in Node : Pred(m)' = Pred(m) /\ Succ(m)' = Succ(m)
  BY <1>1 DEF Pred, Succ
<1>4. Placed' = Placed
  BY <1>1 DEF Placed
<1>5. last \in Waits(n) /\ last \in Placed /\ last \in Node
  <2>1. order # <<>> /\ n \in Succ(last)
    BY <1>1 DEF Sort, SortInv
  <2>2. Len(order) \in 1..Len(order)
    BY <1>2, <2>1
  <2>3. last \in Node
    BY <1>2, <2>2, ElementOf
  <2> QED
    BY <1>1, <2>1, <2>2, <2>3 DEF Waits, Pred, Succ, Placed
<1>6. Waits(n)' = Waits(n) \ {last}
  <2>1. Waits(n)' = {m \in Pred(n) : m \notin Placed}
    BY <1>1, <1>3, <1>4 DEF Waits
  <2> QED
    BY <1>5, <2>1 DEF Waits
<1>7. \A m \in Node \ {n} : Waits(m)' = Waits(m)
  BY <1>1, <1>3, <1>4 DEF Waits
<1>8. \A m \in Node : Waits(m) \in SUBSET Node
  BY DEF Waits, Pred
<1>9. indegree'[n] = Cardinality(Waits(n))' /\ indegree'[n] \in Nat /\ (indegree[n] = 1 <=> Waits(n)' = {})
  <2>1. indegree'[n] = indegree[n] - 1 /\ indegree[n] = Cardinality(Waits(n))
    BY <1>1, <1>2 DEF Sort, SortInv
  <2>2. Cardinality(Waits(n)') = Cardinality(Waits(n)) - 1
    BY <1>5, <1>6, <1>8, OneLess
  <2>3. Waits(n)' \in SUBSET Node
    BY <1>6, <1>8
  <2>4. Cardinality(Waits(n)') \in Nat /\ (Cardinality(Waits(n)') = 0 <=> Waits(n)' = {})
    BY <2>3, FiniteNodes
  <2> QED
    BY <1>2, <2>1, <2>2, <2>4
<1>10. TypeOK'
  <2>1. indegree' \in [Node -> Nat]
    BY <1>1, <1>2, <1>9
  <2> QED
    BY <1>1, <2>1 DEF Sort, TypeOK, searchVars
<1>11. n \notin Placed
  BY <1>5 DEF Sort, SortInv
<1>12. SortInv'
  <2>1. ready' = {m \in Node \ Placed' : Waits(m)' = {}}
    <3>1. n \notin ready
      BY <1>5 DEF Sort, SortInv
    <3>2. ready' \ {n} = ready
      BY <1>1, <3>1
    <3>3. n \in ready' <=> Waits(n)' = {}
      BY <1>1, <1>9, <3>1
    <3>4. \A m \in Node \ {n} : m \in ready' <=> m \in Node \ Placed' /\ Waits(m)' = {}
      BY <1>4, <1>7, <3>2 DEF Sort, SortInv
    <3>5. ready' \subseteq Node
      BY <1>10 DEF TypeOK
    <3> QED
      BY <1>4, <1>11, <3>3, <3>4, <3>5
  <2>2. \A m \in Placed' : Waits(m)' = {}
    <3>1. \A m \in Placed : m \in Node \ {n}
      BY <1>2, <1>11, ElementOf DEF Placed
    <3> QED
      BY <1>4, <1>7, <3>1 DEF Sort, SortInv
  <2>3. \A m \in Node : indegree'[m] = Cardinality(Waits(m))'
    <3> TAKE m \in Node
    <3>1. CASE m = n
      BY <1>9, <3>1
    <3>2. CASE m # n
      BY <1>1, <1>2, <1>7, <3>2 DEF Sort, SortInv
    <3> QED
      BY <3>1, <3>2
  <2>4. order' # <<>> /\ release' \subseteq Succ(order[Len(order)])'
    <3>1. order # <<>> /\ release \subseteq Succ(order[Len(order)])
      BY <1>1 DEF Sort, SortInv
    <3> QED
      BY <1>1, <3>1 DEF Succ
  <2> QED
    BY <1>1, <1>4, <2>1, <2>2, <2>3, <2>4 DEF Sort, SortInv
<1>13. OrderIsTopological'
  BY <1>1 DEF Sort, OrderIsTopological, Pred
<1>14. OrderIsLeast'
  BY <1>1 DEF Sort, OrderIsLeast, Pred, Before
<1>15. SortDecides'
  BY <1>1 DEF SortDecides
<1> QED
  BY <1>10, <1>12, <1>13, <1>14, <1>15 DEF Sort

\* The end of the loop: if a property is missing, some wait for one another.
LEMMA SortSortEnds ==
  ASSUME Sort, SortEnds
  PROVE  Sort'
<1>1. /\ phase = "sort" /\ release = {} /\ ready = {}
      /\ phase' = IF Len(order) = Cardinality(Node) THEN "done" ELSE "search"
      /\ edges' = edges /\ created' = created /\ UNCHANGED sortVars /\ UNCHANGED searchVars
  BY DEF SortEnds, inputVars
<1>2. order \in Seq(Node) /\ Placed \subseteq Node
  BY ElementOf DEF Sort, TypeOK, Placed
<1>3. \A n \in Node : Waits(n) \in SUBSET Node
  BY DEF Waits, Pred
<1>4. Left = Node \ Placed
  <2>1. \A n \in Node : indegree[n] > 0 <=> Waits(n) # {}
    BY <1>3, FiniteNodes DEF Sort, SortInv
  <2>2. \A n \in Node : Waits(n) = {} <=> n \in Placed
    BY <1>1, <1>2 DEF Sort, SortInv
  <2> QED
    BY <2>1, <2>2 DEF Left
<1>5. Len(order) = Cardinality(Node) <=> Placed = Node
  BY <1>2, NodeAssumption, FS_Subset DEF Sort, SortInv
<1>6. \A n \in Left : Pred(n) \cap Left # {}
  <2> TAKE n \in Left
  <2>1. n \in Node /\ n \notin Placed
    BY <1>4
  <2>2. Waits(n) # {}
    BY <1>1, <2>1 DEF Sort, SortInv
  <2>3. Waits(n) = Pred(n) \ Placed /\ Pred(n) \subseteq Node
    BY <1>1 DEF Waits, Pred
  <2> QED
    BY <1>4, <2>2, <2>3
<1>7. /\ Placed' = Placed /\ Left' = Left /\ \A n \in Node : Pred(n)' = Pred(n) /\ Waits(n)' = Waits(n)
      /\ \A n : Succ(n)' = Succ(n)
  BY <1>1 DEF sortVars, Placed, Left, Pred, Waits, Succ
<1>8. SortDecides'
  <2>1. \A n \in Left' : Pred(n)' \cap Left' # {}
    BY <1>6, <1>7 DEF Left
  <2> QED
    BY <1>1, <1>2, <1>4, <1>5, <1>7, <2>1 DEF SortDecides
<1>9. TypeOK'
  BY <1>1 DEF Sort, TypeOK, sortVars, searchVars
<1>10. SortInv'
  BY <1>1, <1>2, <1>7 DEF Sort, SortInv, sortVars
<1>11. OrderIsTopological' /\ OrderIsLeast'
  BY <1>1 DEF Sort, OrderIsTopological, OrderIsLeast, Pred, Before, sortVars
<1> QED
  BY <1>8, <1>9, <1>10, <1>11 DEF Sort

-----------------------------------------------------------------------------
(***************************************************************************)
(* The search for a cycle.                                                 *)
(***************************************************************************)
LEMMA SearchInit == Init => SearchInv
<1> SUFFICES ASSUME Init
             PROVE  SearchInv
  OBVIOUS
<1>1. path = <<>> /\ Len(path) = 0 /\ cycle = <<>> /\ phase = "sort" /\ \A n \in Node : mark[n] = 0
  BY DEF Init
<1>2. PathInv
  BY <1>1 DEF PathInv
<1>3. Done = {}
  BY <1>1 DEF Done
<1>4. DoneInv
  BY <1>3 DEF DoneInv
<1> QED
  BY <1>1, <1>2, <1>4 DEF SearchInv

\* The sort does not touch the search.
LEMMA SearchSort ==
  ASSUME Sort, SearchInv, phase = "sort", phase' # "throw", UNCHANGED <<edges, created, searchVars>>
  PROVE  SearchInv'
<1>1. path = <<>> /\ cycle = <<>> /\ \A n \in Node : mark[n] = 0
  BY DEF SearchInv
<1>2. path' = <<>> /\ Len(path') = 0 /\ cycle' = <<>> /\ \A n \in Node : mark'[n] = 0
  BY <1>1 DEF searchVars
<1>3. PathInv'
  BY <1>2 DEF PathInv
<1>4. Done' = {}
  BY <1>2 DEF Done
<1>5. DoneInv'
  BY <1>4 DEF DoneInv
<1> QED
  BY <1>2, <1>3, <1>5 DEF SearchInv

\* The search does not touch the sort.
LEMMA SortSearch ==
  ASSUME Sort, phase \in {"search", "throw"}, phase' \in {"search", "throw"},
         UNCHANGED <<edges, created, sortVars>>, TypeOK'
  PROVE  /\ Sort' /\ Left' = Left
         /\ \A n : Succ(n)' = Succ(n) /\ Pred(n)' = Pred(n)
<1>1. /\ Placed' = Placed /\ Left' = Left /\ \A n : Succ(n)' = Succ(n) /\ Pred(n)' = Pred(n)
      /\ \A n \in Node : Waits(n)' = Waits(n)
  BY DEF sortVars, Placed, Left, Pred, Waits, Succ
<1>2. order' = order /\ release' = release /\ ready' = ready /\ indegree' = indegree /\ edges' = edges /\ created' = created
  BY DEF sortVars
<1>3. Placed \subseteq Node
  BY ElementOf DEF Sort, TypeOK, Placed
<1>4. SortInv'
  <2>1. release = {} /\ ready = {}
    BY DEF Sort, SortInv
  <2> QED
    BY <1>1, <1>2, <1>3, <2>1 DEF Sort, SortInv
<1>5. OrderIsTopological' /\ OrderIsLeast'
  BY <1>2 DEF Sort, OrderIsTopological, OrderIsLeast, Pred, Before
<1>6. SortDecides'
  BY <1>1 DEF Sort, SortDecides, Left
<1> QED
  BY <1>1, <1>4, <1>5, <1>6 DEF Sort

Search == Sort /\ SearchInv

\* A node goes onto the path: as the root, or from the top over one of its edges.
LEMMA SearchRoot ==
  ASSUME Search, NEW n \in Node, Root(n)
  PROVE  Search'
<1>1. /\ phase = "search" /\ cycle = <<>> /\ path = <<>> /\ n \in Left /\ mark[n] = 0
      /\ mark' = [mark EXCEPT ![n] = 1] /\ path' = Append(path, n)
      /\ rest' = [rest EXCEPT ![n] = Succ(n)]
      /\ UNCHANGED <<edges, created, sortVars>> /\ phase' = phase /\ cycle' = cycle
  BY DEF Root, Searching, Enter, inputVars
<1>2. TypeOK
  BY DEF Search, Sort
<1>3. /\ path' \in Seq(Node) /\ Len(path') = 1 /\ path'[1] = n
      /\ Len(path) = 0 /\ \A i \in 1..Len(path') : i = 1
  BY <1>1
<1>4. /\ mark' \in [Node -> 0..2] /\ rest' \in [Node -> SUBSET Node]
      /\ mark'[n] = 1 /\ rest'[n] = Succ(n) /\ \A m \in Node \ {n} : mark'[m] = mark[m]
  BY <1>1, <1>2 DEF TypeOK, Succ
<1>5. TypeOK'
  BY <1>1, <1>2, <1>3, <1>4 DEF TypeOK, sortVars
<1>6. Sort' /\ Left' = Left /\ \A m : Succ(m)' = Succ(m) /\ Pred(m)' = Pred(m)
  BY <1>1, <1>5, SortSearch DEF Search
<1>7. PathInv'
  <2>1. \A m \in Node : mark'[m] = 1 => m = n
    BY <1>1, <1>3, <1>4 DEF Search, SearchInv, PathInv
  <2> QED
    BY <1>1, <1>3, <1>4, <1>6, <2>1 DEF PathInv
<1>8. Done' = Done
  BY <1>1, <1>4 DEF Done
<1>9. DoneInv'
  BY <1>6, <1>8 DEF Search, SearchInv, DoneInv
<1> QED
  BY <1>1, <1>6, <1>7, <1>9 DEF Search, SearchInv

LEMMA SearchDescend ==
  ASSUME Search, NEW n \in Node, Descend(n)
  PROVE  Search'
<1>1. /\ phase = "search" /\ cycle = <<>> /\ path # <<>> /\ n \in rest[Top]
      /\ n \in Left /\ mark[n] = 0
      /\ mark' = [mark EXCEPT ![n] = 1] /\ path' = Append(path, n)
      /\ rest' = [rest EXCEPT ![Top] = @ \ {n}, ![n] = Succ(n)]
      /\ UNCHANGED <<edges, created, sortVars>> /\ phase' = phase /\ cycle' = cycle
  BY DEF Descend, Searching, Enter, inputVars
<1>2. TypeOK /\ PathInv
  BY DEF Search, Sort, SearchInv
<1>3. path \in Seq(Node) /\ Len(path) \in Nat /\ Len(path) \in 1..Len(path)
  BY <1>1, <1>2 DEF TypeOK
<1>4. /\ path' \in Seq(Node) /\ Len(path') = Len(path) + 1 /\ path'[Len(path) + 1] = n
      /\ \A i \in 1..Len(path) : path'[i] = path[i]
  BY <1>1, <1>3, Appended
<1>5. \A i \in 1..Len(path) : path[i] \in Node /\ path[i] # n
  BY <1>1, <1>2, <1>3, ElementOf DEF PathInv
<1>6. Top \in Node /\ Top # n
  BY <1>3, <1>5 DEF Top
<1>7. /\ mark' \in [Node -> 0..2] /\ rest' \in [Node -> SUBSET Node]
      /\ mark'[n] = 1 /\ \A m \in Node \ {n} : mark'[m] = mark[m]
      /\ rest'[n] = Succ(n) /\ rest'[Top] = rest[Top] \ {n}
      /\ \A m \in Node \ {n, Top} : rest'[m] = rest[m]
  <2>1. Succ(n) \in SUBSET Node /\ rest[Top] \ {n} \in SUBSET Node
    BY <1>2, <1>6 DEF TypeOK, Succ
  <2>2. mark' \in [Node -> 0..2] /\ mark'[n] = 1 /\ \A m \in Node \ {n} : mark'[m] = mark[m]
    BY <1>1, <1>2 DEF TypeOK
  <2>3. rest' = [[rest EXCEPT ![Top] = @ \ {n}] EXCEPT ![n] = Succ(n)]
    BY <1>1
  <2>4. rest \in [Node -> SUBSET Node]
    BY <1>2 DEF TypeOK
  <2>5. rest' \in [Node -> SUBSET Node]
    BY <1>6, <2>1, <2>3, <2>4
  <2>6. /\ rest'[n] = Succ(n) /\ rest'[Top] = rest[Top] \ {n}
        /\ \A m \in Node \ {n, Top} : rest'[m] = rest[m]
    BY <1>6, <2>1, <2>3, <2>4
  <2> QED
    BY <2>2, <2>5, <2>6
<1>8. TypeOK'
  BY <1>1, <1>2, <1>4, <1>7 DEF TypeOK, sortVars
<1>9. Sort' /\ Left' = Left /\ \A m : Succ(m)' = Succ(m) /\ Pred(m)' = Pred(m)
  BY <1>1, <1>8, SortSearch DEF Search
<1>10. PathInv'
  <2>1. \A i \in 1..Len(path') : path'[i] \in Left' /\ mark'[path'[i]] = 1
    BY <1>1, <1>2, <1>3, <1>4, <1>5, <1>7, <1>9 DEF PathInv
  <2>2. \A m \in Node : mark'[m] = 1 => \E i \in 1..Len(path') : path'[i] = m
    <3> SUFFICES ASSUME NEW m \in Node, mark'[m] = 1
                 PROVE  \E i \in 1..Len(path') : path'[i] = m
      OBVIOUS
    <3>1. CASE m = n
      BY <1>3, <1>4, <3>1
    <3>2. CASE m # n
      <4>1. PICK i \in 1..Len(path) : path[i] = m
        BY <1>2, <1>7, <3>2 DEF PathInv
      <4> QED
        BY <1>3, <1>4, <4>1
    <3> QED
      BY <3>1, <3>2
  <2>3. \A i, j \in 1..Len(path') : path'[i] = path'[j] => i = j
    BY <1>2, <1>3, <1>4, <1>5 DEF PathInv
  <2>4. \A i \in 1..(Len(path') - 1) : <<path'[i], path'[i + 1]>> \in edges'
    <3>1. <<Top, n>> \in edges
      BY <1>1, <1>2, <1>3 DEF PathInv, Top, Succ
    <3>2. \A i \in 1..(Len(path) - 1) : <<path[i], path[i + 1]>> \in edges
      BY <1>2 DEF PathInv
    <3>3. ASSUME NEW i \in 1..(Len(path') - 1)
          PROVE  <<path'[i], path'[i + 1]>> \in edges
      <4>1. CASE i = Len(path)
        BY <1>3, <1>4, <3>1, <4>1 DEF Top
      <4>2. CASE i # Len(path)
        <5>1. i \in 1..(Len(path) - 1) /\ i \in 1..Len(path) /\ i + 1 \in 1..Len(path)
          BY <1>3, <1>4, <4>2
        <5> QED
          BY <1>4, <3>2, <5>1
      <4> QED
        BY <4>1, <4>2
    <3> QED
      BY <1>1, <3>3
  <2>5. ASSUME NEW i \in 1..Len(path')
        PROVE  rest'[path'[i]] \subseteq Succ(path'[i])
    <3>1. CASE i = Len(path')
      BY <1>3, <1>4, <1>7, <3>1
    <3>2. CASE i # Len(path')
      <4>1. i \in 1..Len(path) /\ path'[i] = path[i]
        BY <1>3, <1>4, <3>2
      <4>2. rest[path[i]] \subseteq Succ(path[i]) /\ path[i] \in Node /\ path[i] # n
        BY <1>2, <1>5, <4>1 DEF PathInv
      <4>3. rest'[path[i]] \subseteq rest[path[i]]
        BY <1>7, <4>2
      <4> QED
        BY <4>1, <4>2, <4>3
    <3> QED
      BY <3>1, <3>2
  <2>6. ASSUME NEW i \in 1..Len(path'), NEW m \in Succ(path'[i]) \cap Left
        PROVE  m \in rest'[path'[i]] \/ mark'[m] = 2 \/ (i < Len(path') /\ m = path'[i + 1])
    <3>1. CASE i = Len(path')
      BY <1>3, <1>4, <1>7, <2>6, <3>1
    <3>2. CASE i = Len(path)
      <4>1. path'[i] = Top /\ Top = path[i]
        BY <1>3, <1>4, <3>2 DEF Top
      <4>2. m \in rest[Top] \/ mark[m] = 2
        BY <1>2, <1>3, <2>6, <3>2, <4>1 DEF PathInv
      <4>3. m \in Node
        BY DEF Left
      <4> QED
        BY <1>1, <1>3, <1>4, <1>7, <3>2, <4>1, <4>2, <4>3
    <3>3. CASE i < Len(path)
      <4>1. i \in 1..Len(path) /\ i + 1 \in 1..Len(path) /\ path'[i] = path[i] /\ path'[i + 1] = path[i + 1]
        BY <1>3, <1>4, <3>3
      <4>2. m \in rest[path[i]] \/ mark[m] = 2 \/ m = path[i + 1]
        BY <1>2, <2>6, <4>1 DEF PathInv
      <4>3. path[i] # Top
        BY <1>2, <1>3, <3>3, <4>1 DEF PathInv, Top
      <4>4. m \in Node
        BY DEF Left
      <4> QED
        BY <1>1, <1>3, <1>4, <1>5, <1>7, <3>3, <4>1, <4>2, <4>3, <4>4
    <3> QED
      BY <1>3, <1>4, <3>1, <3>2, <3>3
  <2> QED
    <3>1. \A i \in 1..Len(path') : Succ(path[i])' = Succ(path'[i])
      BY <1>1 DEF Succ
    <3> QED
      BY <1>9, <2>1, <2>2, <2>3, <2>4, <2>5, <2>6, <3>1 DEF PathInv
<1>11. Done' = Done
  BY <1>1, <1>7 DEF Done
<1>12. DoneInv'
  BY <1>9, <1>11 DEF Search, SearchInv, DoneInv
<1> QED
  BY <1>1, <1>9, <1>10, <1>12 DEF Search, SearchInv

\* An edge out of the top that leads to a node outside of the search or done.
LEMMA SearchSkip ==
  ASSUME Search, NEW n \in Node, Skip(n)
  PROVE  Search'
<1>1. /\ phase = "search" /\ cycle = <<>> /\ path # <<>>
      /\ n \in Left => mark[n] = 2
      /\ rest' = [rest EXCEPT ![Top] = @ \ {n}]
      /\ UNCHANGED <<edges, created, sortVars>> /\ phase' = phase
      /\ mark' = mark /\ path' = path /\ cycle' = cycle
  BY DEF Skip, Searching, inputVars
<1>2. TypeOK /\ PathInv
  BY DEF Search, Sort, SearchInv
<1>3. path \in Seq(Node) /\ Len(path) \in 1..Len(path) /\ \A i \in 1..Len(path) : path[i] \in Node
  BY <1>1, <1>2, ElementOf DEF TypeOK
<1>4. Top \in Node
  BY <1>3 DEF Top
<1>5. /\ rest' \in [Node -> SUBSET Node] /\ rest'[Top] = rest[Top] \ {n}
      /\ \A m \in Node \ {Top} : rest'[m] = rest[m]
  BY <1>1, <1>2, <1>4 DEF TypeOK
<1>6. TypeOK'
  BY <1>1, <1>2, <1>5 DEF TypeOK, sortVars
<1>7. Sort' /\ Left' = Left /\ \A m : Succ(m)' = Succ(m) /\ Pred(m)' = Pred(m)
  BY <1>1, <1>6, SortSearch DEF Search
<1>8. PathInv'
  <2>1. ASSUME NEW i \in 1..Len(path)
        PROVE  rest'[path[i]] \subseteq rest[path[i]] /\ rest[path[i]] \ {n} \subseteq rest'[path[i]]
    BY <1>3, <1>5
  <2>2. \A i \in 1..Len(path) : Succ(path[i])' = Succ(path[i])
    BY <1>1 DEF Succ
  <2>3. \A i \in 1..Len(path) : rest'[path[i]] \subseteq Succ(path[i])
    BY <1>2, <2>1 DEF PathInv
  <2>4. \A i \in 1..Len(path) : \A m \in Succ(path[i]) \cap Left :
          m \in rest'[path[i]] \/ mark[m] = 2 \/ (i < Len(path) /\ m = path[i + 1])
    BY <1>1, <1>2, <2>1 DEF PathInv
  <2> QED
    BY <1>1, <1>2, <1>7, <2>2, <2>3, <2>4 DEF PathInv
<1>9. DoneInv'
  <2>1. Done' = Done
    BY <1>1 DEF Done
  <2> QED
    BY <1>7, <2>1 DEF Search, SearchInv, DoneInv
<1> QED
  BY <1>1, <1>7, <1>8, <1>9 DEF Search, SearchInv

\* The top has no edge left: it is done, and no cycle goes through it.
LEMMA SearchBacktrack ==
  ASSUME Search, Backtrack
  PROVE  Search'
<1>1. /\ phase = "search" /\ cycle = <<>> /\ path # <<>> /\ rest[Top] = {}
      /\ mark' = [mark EXCEPT ![Top] = 2] /\ path' = SubSeq(path, 1, Len(path) - 1)
      /\ UNCHANGED <<edges, created, sortVars>> /\ phase' = phase /\ rest' = rest /\ cycle' = cycle
  BY DEF Backtrack, Searching, inputVars
<1>2. TypeOK /\ PathInv /\ DoneInv
  BY DEF Search, Sort, SearchInv
<1>3. /\ path \in Seq(Node) /\ Len(path) \in Nat /\ Len(path) \in 1..Len(path)
      /\ \A i \in 1..Len(path) : path[i] \in Node
  BY <1>1, <1>2, ElementOf DEF TypeOK
<1>4. /\ path' \in Seq(Node) /\ Len(path') = Len(path) - 1
      /\ \A i \in 1..(Len(path) - 1) : path'[i] = path[i]
  <2>1. /\ 1 \in 1..(Len(path) + 1) /\ Len(path) - 1 \in 0..Len(path) /\ 1 <= (Len(path) - 1) + 1
    BY <1>3
  <2>2. /\ path' \in Seq(Node) /\ Len(path') = (Len(path) - 1) - 1 + 1
        /\ \A a \in 1..((Len(path) - 1) - 1 + 1) : path'[a] = path[a + 1 - 1]
    BY <1>1, <1>3, <2>1, Part
  <2>3. (Len(path) - 1) - 1 + 1 = Len(path) - 1 /\ \A a \in 1..(Len(path) - 1) : a + 1 - 1 = a
    BY <1>3
  <2> QED
    BY <2>2, <2>3
<1>5. /\ Top = path[Len(path)] /\ Top \in Node /\ Top \in Left /\ mark[Top] = 1
      /\ \A i \in 1..(Len(path) - 1) : i \in 1..Len(path) /\ path[i] # Top
  BY <1>2, <1>3 DEF Top, PathInv
<1>6. /\ mark' \in [Node -> 0..2] /\ mark'[Top] = 2
      /\ \A m \in Node \ {Top} : mark'[m] = mark[m]
  BY <1>1, <1>2, <1>5 DEF TypeOK
<1>7. TypeOK'
  BY <1>1, <1>2, <1>4, <1>6 DEF TypeOK, sortVars
<1>8. Sort' /\ Left' = Left /\ \A m : Succ(m)' = Succ(m) /\ Pred(m)' = Pred(m)
  BY <1>1, <1>7, SortSearch DEF Search
<1>9. \A m \in Succ(Top) \cap Left : mark[m] = 2
  <2>1. \A m \in Succ(path[Len(path)]) \cap Left :
          m \in rest[path[Len(path)]] \/ mark[m] = 2 \/ Len(path) < Len(path)
    BY <1>2, <1>3 DEF PathInv
  <2>2. ~(Len(path) < Len(path))
    BY <1>3
  <2>3. \A m \in Succ(Top) \cap Left : m \in rest[Top] \/ mark[m] = 2
    BY <1>5, <2>1, <2>2, Zenon
  <2> QED
    BY <1>1, <2>3
<1>10. Done' = Done \cup {Top} /\ Top \notin Done
  BY <1>5, <1>6 DEF Done
<1>11. PathInv'
  <2>1. \A i \in 1..Len(path') : /\ i \in 1..Len(path) /\ i < Len(path) /\ path'[i] = path[i]
                                  /\ path[i] \in Node \ {Top} /\ mark'[path[i]] = mark[path[i]]
    <3> TAKE i \in 1..Len(path')
    <3>1. i \in 1..(Len(path) - 1) /\ i \in 1..Len(path) /\ i < Len(path)
      BY <1>3, <1>4
    <3>2. path'[i] = path[i]
      BY <1>4, <3>1
    <3>3. path[i] \in Node /\ path[i] # Top
      BY <1>3, <1>5, <3>1
    <3> QED
      BY <1>6, <3>1, <3>2, <3>3
  <2>2. \A i \in 1..Len(path') : path'[i] \in Left /\ mark'[path'[i]] = 1
    BY <1>2, <2>1 DEF PathInv
  <2>3. ASSUME NEW m \in Node, mark'[m] = 1
        PROVE  \E i \in 1..Len(path') : path'[i] = m
    <3>1. m # Top /\ mark[m] = 1
      BY <1>6, <2>3
    <3>2. PICK i \in 1..Len(path) : path[i] = m
      BY <1>2, <3>1 DEF PathInv
    <3>3. i # Len(path)
      BY <1>5, <3>1, <3>2
    <3> QED
      BY <1>3, <1>4, <3>2, <3>3
  <2>4. \A i, j \in 1..Len(path') : path'[i] = path'[j] => i = j
    BY <1>2, <2>1 DEF PathInv
  <2>5. ASSUME NEW i \in 1..(Len(path') - 1)
        PROVE  <<path'[i], path'[i + 1]>> \in edges
    <3>1. i \in 1..Len(path') /\ i + 1 \in 1..Len(path') /\ i \in 1..(Len(path) - 1)
      BY <1>3, <1>4
    <3> QED
      BY <1>2, <2>1, <3>1 DEF PathInv
  <2>6. \A i \in 1..Len(path') : rest[path'[i]] \subseteq Succ(path'[i])
    BY <1>2, <2>1 DEF PathInv
  <2>7. ASSUME NEW i \in 1..Len(path'), NEW m \in Succ(path'[i]) \cap Left
        PROVE  m \in rest[path'[i]] \/ mark'[m] = 2 \/ (i < Len(path') /\ m = path'[i + 1])
    <3>1. m \in rest[path[i]] \/ mark[m] = 2 \/ m = path[i + 1]
      BY <1>2, <2>1, <2>7 DEF PathInv
    <3>2. CASE m \in rest[path[i]] \/ mark[m] = 2
      <4>1. m \in Node
        BY DEF Left
      <4> QED
        BY <1>6, <2>1, <3>2, <4>1
    <3>3. CASE m = path[i + 1]
      <4>1. CASE i = Len(path')
        <5>1. m = Top
          BY <1>3, <1>4, <1>5, <3>3, <4>1
        <5> QED
          BY <1>6, <5>1
      <4>2. CASE i # Len(path')
        BY <1>3, <1>4, <3>3, <4>2
      <4> QED
        BY <4>1, <4>2
    <3> QED
      BY <3>1, <3>2, <3>3
  <2>8. \A i \in 1..Len(path') : Succ(path[i])' = Succ(path'[i])
    BY <1>1 DEF Succ
  <2> QED
    BY <1>1, <1>8, <2>2, <2>3, <2>4, <2>5, <2>6, <2>7, <2>8 DEF PathInv
<1>12. DoneInv'
  <2>1. \A m \in Done' : \A p \in Succ(m) \cap Left : p \in Done'
    BY <1>2, <1>9, <1>10 DEF DoneInv, Done, Left
  <2>2. ASSUME NEW S \in SUBSET Done', S # {}
        PROVE  \E m \in S : Pred(m) \cap S = {}
    <3>1. CASE Top \in S
      <4>1. \A m \in Done \cup {Top} : Top \notin Succ(m)
        BY <1>2, <1>5, <1>9, <1>10 DEF DoneInv
      <4>2. \A m \in Done \cup {Top} : m \notin Pred(Top)
        BY <1>5, <4>1 DEF Pred, Succ
      <4> QED
        BY <1>10, <3>1, <4>2
    <3>2. CASE Top \notin S
      BY <1>2, <1>10, <2>2, <3>2 DEF DoneInv
    <3> QED
      BY <3>1, <3>2
  <2> QED
    BY <1>8, <2>1, <2>2 DEF DoneInv
<1> QED
  BY <1>1, <1>8, <1>11, <1>12 DEF Search, SearchInv

\* An edge back onto the path.
LEMMA SearchClose ==
  ASSUME Search, NEW n \in Node, Close(n)
  PROVE  Search'
<1>0. path \in Seq(Node)
  BY DEF Search, Sort, TypeOK
<1>1. /\ phase = "search" /\ path # <<>> /\ n \in rest[Top]
      /\ UNCHANGED <<edges, created, sortVars>> /\ phase' = phase
      /\ mark' = mark /\ path' = path /\ rest' = rest
  BY DEF Close, Searching, inputVars
<1>2. TypeOK /\ PathInv /\ DoneInv
  BY DEF Search, Sort, SearchInv
<1>3. path \in Seq(Node) /\ Len(path) \in Nat /\ Len(path) \in 1..Len(path)
  BY <1>0, <1>1, LastIndex
<1> PICK i \in 1..Len(path) : LET loop == SubSeq(path, i, Len(path))
                              IN  /\ path[i] = n
                                  /\ \E k \in 1..Len(loop) : Smallest(loop, k) /\ cycle' = Rotated(loop, k)
  BY DEF Close
<1> DEFINE loop == SubSeq(path, i, Len(path))
<1> PICK k \in 1..Len(loop) : Smallest(loop, k) /\ cycle' = Rotated(loop, k)
  OBVIOUS
<1>4. /\ loop \in Seq(Node) /\ Len(loop) = Len(path) - i + 1
      /\ \A a \in 1..Len(loop) : loop[a] = path[a + i - 1] /\ a + i - 1 \in 1..Len(path)
  BY <1>3
<1>5. path[i] = n /\ loop[1] = n /\ loop[Len(loop)] = Top
  BY <1>3, <1>4 DEF Top
<1> HIDE DEF loop
<1>a. Len(loop) = Len(path) - i + 1 /\ Len(path) \in Nat /\ i \in 1..Len(path)
  BY <1>3, <1>4
<1>6. \A a \in 1..(Len(loop) - 1) : <<loop[a], loop[a + 1]>> \in edges
  <2> SUFFICES ASSUME NEW a \in 1..(Len(loop) - 1)
               PROVE  <<loop[a], loop[a + 1]>> \in edges
    OBVIOUS
  <2>1. /\ a \in 1..Len(loop) /\ a + 1 \in 1..Len(loop)
        /\ a + i - 1 \in 1..(Len(path) - 1) /\ (a + 1) + i - 1 = (a + i - 1) + 1
    BY <1>a
  <2>2. loop[a] = path[a + i - 1] /\ loop[a + 1] = path[(a + i - 1) + 1]
    BY <1>4, <2>1
  <2> QED
    BY <1>2, <2>1, <2>2 DEF PathInv
<1>7. <<loop[Len(loop)], loop[1]>> \in edges
  BY <1>1, <1>2, <1>3, <1>5 DEF PathInv, Top, Succ
<1>8. \A a, b \in 1..Len(loop) : loop[a] = loop[b] => a = b
  <2> SUFFICES ASSUME NEW a \in 1..Len(loop), NEW b \in 1..Len(loop), loop[a] = loop[b]
               PROVE  a = b
    OBVIOUS
  <2>1. /\ a + i - 1 \in 1..Len(path) /\ b + i - 1 \in 1..Len(path)
        /\ path[a + i - 1] = path[b + i - 1]
    BY <1>4
  <2>2. a + i - 1 = b + i - 1
    BY <1>2, <2>1 DEF PathInv
  <2> QED
    BY <1>a, <2>2
<1>9. cycle' # <<>> /\ IsCycle(cycle')
  BY <1>4, <1>6, <1>7, <1>8, RotatedIsCycle
<1>10. TypeOK'
  BY <1>1, <1>2, <1>4, Rotation DEF TypeOK, sortVars
<1>11. Sort' /\ Left' = Left /\ \A m : Succ(m)' = Succ(m) /\ Pred(m)' = Pred(m)
  BY <1>1, <1>10, SortSearch DEF Search
<1>12. PathInv' /\ DoneInv'
  BY <1>1, <1>2, <1>11 DEF PathInv, DoneInv, Done, Succ
<1>13. IsCycle(cycle)'
  BY <1>1, <1>9 DEF IsCycle
<1> QED
  BY <1>1, <1>11, <1>12, <1>13 DEF Search, SearchInv

\* The search cannot come back without a cycle: each node left waits for another.
LEMMA SearchThrow ==
  ASSUME Search, Throw
  PROVE  Search'
<1>1. /\ phase = "search" /\ phase' = "throw"
      /\ cycle = <<>> => path = <<>> /\ \A n \in Left : mark[n] # 0
      /\ UNCHANGED <<edges, created, sortVars>> /\ UNCHANGED searchVars
  BY DEF Throw, inputVars
<1>2. TypeOK /\ PathInv /\ DoneInv /\ SortDecides
  BY DEF Search, Sort, SearchInv
<1>3. TypeOK'
  BY <1>1, <1>2 DEF TypeOK, sortVars, searchVars
<1>4. Sort' /\ Left' = Left /\ \A m : Succ(m)' = Succ(m) /\ Pred(m)' = Pred(m)
  BY <1>1, <1>3, SortSearch DEF Search
<1>5. cycle # <<>>
  <2> SUFFICES ASSUME cycle = <<>>
               PROVE  FALSE
    OBVIOUS
  <2>1. Len(path) = 0 /\ \A n \in Left : n \in Node /\ mark[n] # 0
    BY <1>1 DEF Left
  <2>2. \A n \in Left : mark[n] = 2
    BY <1>2, <2>1 DEF TypeOK, PathInv
  <2>3. Left \in SUBSET Done
    BY <2>1, <2>2 DEF Done
  <2>4. Left # {} /\ \A n \in Left : Pred(n) \cap Left # {}
    BY <1>1, <1>2 DEF SortDecides
  <2> QED
    BY <1>2, <2>3, <2>4 DEF DoneInv
<1>6. PathInv' /\ DoneInv' /\ (IsCycle(cycle) => IsCycle(cycle)')
  BY <1>1, <1>2, <1>4 DEF PathInv, DoneInv, Done, Succ, searchVars, IsCycle
<1> QED
  BY <1>1, <1>4, <1>5, <1>6 DEF Search, SearchInv, searchVars

-----------------------------------------------------------------------------
(***************************************************************************)
(* The theorems.                                                           *)
(***************************************************************************)
LEMMA Stutter ==
  ASSUME Search, UNCHANGED vars
  PROVE  Search'
<1>1. /\ UNCHANGED <<edges, created, phase, indegree, ready, order, release, mark, path, rest, cycle>>
  BY DEF vars, inputVars, sortVars, searchVars
<1>2. /\ \A n : Waits(n)' = Waits(n) /\ Succ(n)' = Succ(n) /\ Pred(n)' = Pred(n)
      /\ Placed' = Placed /\ Left' = Left /\ Done' = Done
  BY <1>1 DEF Waits, Placed, Left, Pred, Succ, Done
<1>3. TypeOK' /\ SortInv' /\ SortDecides'
  <2>1. TypeOK' /\ SortDecides'
    BY <1>1, <1>2 DEF Search, Sort, TypeOK, SortDecides, Left
  <2>2. Succ(order[Len(order)])' = Succ(order[Len(order)])
    BY <1>1 DEF Succ
  <2> QED
    BY <1>1, <1>2, <2>1, <2>2 DEF Search, Sort, SortInv
<1>4. OrderIsTopological' /\ OrderIsLeast'
  BY <1>1 DEF Search, Sort, OrderIsTopological, OrderIsLeast, Pred, Before
<1>5. PathInv' /\ DoneInv' /\ (IsCycle(cycle) => IsCycle(cycle)')
  BY <1>1, <1>2 DEF Search, SearchInv, PathInv, DoneInv, Succ, IsCycle
<1> QED
  BY <1>1, <1>3, <1>4, <1>5 DEF Search, Sort, SearchInv

\* A step of the sort or of the search keeps the invariant.
LEMMA SearchNext == Search /\ [Next]_vars => Search'
<1> SUFFICES ASSUME Search, [Next]_vars
             PROVE  Search'
  OBVIOUS
<1>1. CASE SortEnds
  <2>1. phase = "sort" /\ phase' # "throw" /\ UNCHANGED <<edges, created, searchVars>>
    BY <1>1 DEF SortEnds, inputVars
  <2> QED
    BY <1>1, <2>1, SortSortEnds, SearchSort DEF Search
<1>2. ASSUME NEW n \in Node, Place(n)
      PROVE  Search'
  <2>1. phase = "sort" /\ phase' # "throw" /\ UNCHANGED <<edges, created, searchVars>>
    BY <1>2 DEF Place, inputVars
  <2> QED
    BY <1>2, <2>1, SortPlace, SearchSort DEF Search
<1>3. ASSUME NEW n \in Node, Release(n)
      PROVE  Search'
  <2>1. phase = "sort" /\ phase' # "throw" /\ UNCHANGED <<edges, created, searchVars>>
    BY <1>3 DEF Release, inputVars
  <2> QED
    BY <1>3, <2>1, SortRelease, SearchSort DEF Search
<1>4. ASSUME NEW n \in Node, Root(n) \/ Skip(n) \/ Descend(n) \/ Close(n)
      PROVE  Search'
  BY <1>4, SearchRoot, SearchSkip, SearchDescend, SearchClose
<1>5. CASE Backtrack
  BY <1>5, SearchBacktrack
<1>6. CASE Throw
  BY <1>6, SearchThrow
<1>7. CASE UNCHANGED vars
  BY <1>7, Stutter
<1> QED
  BY <1>1, <1>2, <1>3, <1>4, <1>5, <1>6, <1>7 DEF Next

\* IInv is Search, conjunct by conjunct.
LEMMA InvariantIsSearch == IInv <=> Search
BY DEF IInv, Search, Sort

\* The inductive invariant: what a node waits for is what its count says, the path is
\* one of the graph, and no cycle goes through the nodes that are done.
THEOREM Invariant == Spec => []IInv
<1>1. Init => Search
  BY SortInit, SearchInit DEF Search
<1> QED
  BY <1>1, SearchNext, InvariantIsSearch, PTL DEF Spec

\* The order property_engine::compute_execution_order builds is topological.
THEOREM OrderIsTopologicalHolds == Spec => []OrderIsTopological
<1>1. IInv => OrderIsTopological
  BY DEF IInv
<1> QED
  BY <1>1, Invariant, PTL

\* The order does not depend on the hashing (its ties are broken by rank()).
THEOREM OrderIsLeastHolds == Spec => []OrderIsLeast
<1>1. IInv => OrderIsLeast
  BY DEF IInv
<1> QED
  BY <1>1, Invariant, PTL

\* The sort ends with every property placed, or with some that wait for each other.
THEOREM SortDecidesHolds == Spec => []SortDecides
<1>1. IInv => SortDecides
  BY DEF IInv
<1> QED
  BY <1>1, Invariant, PTL

\* What find_cycle returns for the properties the sort could not place is a cycle.
THEOREM ReportedIsCycleHolds == Spec => []ReportedIsCycle
<1>1. IInv => ReportedIsCycle
  BY DEF IInv, SearchInv, ReportedIsCycle
<1> QED
  BY <1>1, Invariant, PTL

-----------------------------------------------------------------------------
(***************************************************************************)
(* build(): the constants, and the order found once for every deck.        *)
(***************************************************************************)
\* While the order is found, no constant is decided, and when it is, it stays.
LEMMA SortOrDecide ==
  ASSUME Next
  PROVE  phase # "done" /\ edges' = edges /\ created' = created
BY DEF Next, SortEnds, Backtrack, Throw, Place, Release, Root, Skip, Descend, Close,
       Searching, inputVars

\* What is constant is constant for more constants too.
LEMMA IsConstantMonotone ==
  ASSUME deck' = deck, constant \subseteq constant', NEW p
  PROVE  /\ IsConstant(p) => IsConstant(p)'
         /\ WritesConstants(p) => WritesConstants(p)'
<1>1. \A W : ReadsConstant(W) => ReadsConstant(W)'
  BY DEF ReadsConstant
<1>2. IsConstant(p) => IsConstant(p)'
  BY <1>1 DEF IsConstant, Group, Out
<1>3. WritesConstants(p) => WritesConstants(p)'
  BY DEF WritesConstants, Out, Writers, CallbacksOf
<1> QED
  BY <1>2, <1>3

Build == Search /\ BuildInv

LEMMA BuildStarts == BuildInit => Build
<1> SUFFICES ASSUME BuildInit
             PROVE  Build
  OBVIOUS
<1>1. Search
  BY SortInit, SearchInit DEF BuildInit, Search
<1>2. BuildInv
  BY DeckAssumption DEF BuildInit, Init, BuildInv
<1> QED
  BY <1>1, <1>2 DEF Build

LEMMA BuildStep == Build /\ [BuildNext]_buildVars => Build'
<1> SUFFICES ASSUME Build, [BuildNext]_buildVars
             PROVE  Build'
  OBVIOUS
<1>1. Search'
  <2>1. Next \/ UNCHANGED vars
    BY DEF BuildNext, buildVars, Sorting, Decide, FindOnce
  <2> QED
    BY <2>1, SearchNext DEF Build
<1>2. CASE Sorting
  <2>1. phase # "done" /\ edges' = edges /\ UNCHANGED <<deck, position, constant, once>> /\ position = 0
    BY <1>2, SortOrDecide DEF Sorting, constVars, Build, BuildInv
  <2>2. order' \in Seq(Node)
    BY <1>1 DEF Search, Sort, TypeOK
  <2>3. constant = {} /\ once = {}
    BY <2>1 DEF Build, BuildInv
  <2> QED
    BY <1>1, <2>1, <2>2, <2>3 DEF Build, BuildInv
<1>3. CASE Decide
  <2> DEFINE p == order[position']
  <2>1. /\ phase = "done" /\ position < Len(order) /\ position' = position + 1
        /\ constant' = IF IsConstant(p) THEN constant \cup {p} ELSE constant
        /\ deck' = deck /\ order' = order /\ phase' = phase /\ edges' = edges /\ once' = once
    BY <1>3 DEF Decide, vars, inputVars, sortVars
  <2>2. position \in 0..Len(order) /\ Len(order) \in Nat
    BY DEF Build, BuildInv, Search, Sort, TypeOK
  <2>3. constant \subseteq constant' /\ constant' \subseteq constant \cup {p}
    BY <2>1
  <2>4. \A q \in constant' : IsConstant(q)
    BY <2>1 DEF Build, BuildInv
  <2>5. \A q : (IsConstant(q) => IsConstant(q)') /\ (WritesConstants(q) => WritesConstants(q)')
    BY <2>1, <2>3, IsConstantMonotone
  <2>6. constant' \subseteq {order[i] : i \in 1..position'}
    <3>1. constant \subseteq {order[i] : i \in 1..position}
      BY DEF Build, BuildInv
    <3>2. 1..position \subseteq 1..position' /\ position' \in 1..position'
      BY <2>1, <2>2
    <3> QED
      BY <2>3, <3>1, <3>2
  <2>7. position' \in 0..Len(order)
    BY <2>1, <2>2
  <2>8. once' \subseteq {c \in constant' \cap deck'.callback : WritesConstants(c)'}
    BY <2>1, <2>3, <2>5 DEF Build, BuildInv
  <2>9. Deck(deck)' /\ edges' = Edges(deck)'
    BY <2>1 DEF Build, BuildInv
  <2>10. \A q \in constant' : IsConstant(q)'
    BY <2>4, <2>5
  <2> QED
    BY <1>1, <2>1, <2>6, <2>7, <2>8, <2>9, <2>10 DEF Build, BuildInv
<1>4. CASE FindOnce
  <2>1. /\ UNCHANGED <<deck, edges, order, phase, position, constant>>
        /\ once' = {c \in constant \cap deck.callback : WritesConstants(c)}
    BY <1>4 DEF FindOnce, vars, inputVars, sortVars
  <2>2. \A q : (IsConstant(q) => IsConstant(q)') /\ (WritesConstants(q) => WritesConstants(q)')
    BY <2>1, IsConstantMonotone
  <2> QED
    BY <1>1, <2>1, <2>2 DEF Build, BuildInv
<1>5. CASE UNCHANGED buildVars
  <2>1. UNCHANGED <<deck, edges, order, phase, position, constant, once>>
    BY <1>5 DEF buildVars, constVars, vars, inputVars, sortVars
  <2>2. \A q : (IsConstant(q) => IsConstant(q)') /\ (WritesConstants(q) => WritesConstants(q)')
    BY <2>1, IsConstantMonotone
  <2> QED
    BY <1>1, <2>1, <2>2 DEF Build, BuildInv
<1> QED
  BY <1>2, <1>3, <1>4, <1>5 DEF BuildNext

\* build() keeps its invariant, and that of the sort.
THEOREM BuildInvariant == BuildSpec => [](IInv /\ BuildInv)
<1>1. Build => IInv /\ BuildInv
  BY InvariantIsSearch DEF Build
<1> QED
  BY <1>1, BuildStarts, BuildStep, PTL DEF BuildSpec

-----------------------------------------------------------------------------
(***************************************************************************)
(* The order respects the edges, so whatever is read has been filled.      *)
(***************************************************************************)
LEMMA EdgePrecedes ==
  ASSUME Build, phase = "done", NEW p, NEW q, <<p, q>> \in edges
  PROVE  Precedes(p, q)
<1>1. p \in Pred(q) /\ q \in Placed
  BY DEF Build, Search, Sort, TypeOK, SortDecides, Pred
<1>2. PICK j \in 1..Len(order) : order[j] = q
  BY <1>1 DEF Placed
<1>3. \E i \in 1..(j - 1) : order[i] = p
  BY <1>1, <1>2 DEF Build, Search, Sort, OrderIsTopological
<1> QED
  BY <1>2, <1>3 DEF Precedes

LEMMA PrecedesTransitive ==
  ASSUME Build, phase = "done", NEW w, NEW p, NEW q, <<w, p>> \in edges, Precedes(p, q)
  PROVE  Precedes(w, q)
<1>1. PICK j \in 1..Len(order) : order[j] = q /\ \E i \in 1..(j - 1) : order[i] = p
  BY DEF Precedes
<1>2. PICK i \in 1..(j - 1) : order[i] = p
  BY <1>1
<1>3. i \in 1..Len(order) /\ 1..(i - 1) \subseteq 1..(j - 1) /\ w \in Pred(order[i])
  <2>1. i \in 1..Len(order) /\ 1..(i - 1) \subseteq 1..(j - 1)
    BY <1>1, <1>2
  <2>2. w \in Node
    BY DEF Build, Search, Sort, TypeOK
  <2> QED
    BY <1>2, <2>1, <2>2 DEF Pred
<1>4. \E k \in 1..(i - 1) : order[k] = w
  BY <1>3 DEF Build, Search, Sort, OrderIsTopological
<1> QED
  BY <1>1, <1>3, <1>4 DEF Precedes

\* What a callback reads, it has an edge from.
LEMMA ReadHasEdge ==
  ASSUME Build, NEW c \in deck.callback, NEW p \in Consumed(deck, c), p # c
  PROVE  <<p, c>> \in edges
<1>1. edges = Edges(deck) /\ Deck(deck) /\ Owner \in [Node -> Material] /\ c \in Node
  BY DeckAssumption DEF Build, BuildInv, Deck
<1>2. \A m \in Material : Global(deck.inputs[m]) \subseteq Node
  BY <1>1 DEF Deck, Wire, Global
<1>3. \A b \in DOMAIN deck.reads : Global(deck.reads[b].inputs) \subseteq Node
  BY <1>1 DEF Deck, Wire, Global
<1>4. \A q \in Node : Global(ReadsOf(deck, q)) \subseteq Node
  <2> SUFFICES ASSUME NEW q \in Node, NEW i \in ReadsOf(deck, q)
               PROVE  i.src \in Node
    BY DEF Global
  <2>1. i \in Wire
    BY <1>1 DEF ReadsOf, Deck
  <2> QED
    BY <2>1 DEF Wire
<1>5. CASE p \in Global(ReadsOf(deck, c))
  <2>1. CASE c \in Declared(deck)
    <3>1. c \in DOMAIN deck.reads /\ \A b \in DOMAIN deck.reads : c \in Group(deck, b) => b = c
      BY <1>1, <2>1 DEF Declared, Group, Deck
    <3>2. p \in Global(deck.reads[c].inputs)
      BY <1>5, <2>1, <3>1 DEF ReadsOf, Global
    <3>3. p \in Node
      BY <1>3, <3>1, <3>2
    <3>4. <<p, c>> \in To(Global(deck.reads[c].inputs), c)
      BY <3>2 DEF To
    <3> QED
      BY <1>1, <3>1, <3>4 DEF Edges, InputEdges
  <2>2. CASE c \notin Declared(deck)
    <3>1. p \in Global(deck.inputs[Owner[c]])
      BY <1>5, <2>2 DEF ReadsOf
    <3>2. p \in Node
      BY <1>1, <1>2, <3>1
    <3>3. <<p, c>> \in To(Global(deck.inputs[Owner[c]]), c)
      BY <3>1 DEF To
    <3>4. c \in Node \ Declared(deck)
      BY <1>1, <2>2
    <3>5. <<p, c>> \in InputEdges(deck)
      BY <3>3, <3>4 DEF InputEdges
    <3> QED
      BY <1>1, <3>5 DEF Edges
  <2> QED
    BY <2>1, <2>2
<1>6. CASE p \in Referred(deck, Owner[c])
  <2>1. p \in Node
    BY <1>1, <1>2, <1>6 DEF Referred, Deck
  <2> QED
    BY <1>1, <1>6, <2>1 DEF Edges, ReferenceEdges, To
<1>7. CASE c \in DOMAIN deck.reads /\ p \in deck.reads[c].own
  <2>1. p \in Node
    BY <1>1, <1>7 DEF Deck
  <2> QED
    BY <1>1, <1>7, <2>1 DEF Edges, OrderEdges
<1>8. CASE c \in DOMAIN deck.reads /\ p \in Driven(deck, c)
  <2>1. \A i \in deck.reads[c].drives : i.src \in Node
    BY <1>1, <1>8 DEF Deck, Wire
  <2>2. p \in Node
    BY <1>4, <1>8, <2>1 DEF Driven
  <2> QED
    BY <1>1, <1>8, <2>2 DEF Edges, DriveEdges, To
<1> QED
  BY <1>5, <1>6, <1>7, <1>8 DEF Consumed

\* Whatever fills a property has an edge to it, or is its own callback.
LEMMA FillerHasEdge ==
  ASSUME Build, NEW p \in Node, NEW w \in Fillers(deck, p)
  PROVE  w = p \/ <<w, p>> \in edges
<1>1. edges = Edges(deck) /\ Deck(deck) /\ Owner \in [Node -> Material]
  BY DeckAssumption DEF Build, BuildInv
<1>2. CASE p \in deck.callback
  BY <1>2 DEF Fillers
<1>3. CASE p \notin deck.callback /\ w \in Writers(deck, p)
  <2>1. w \in Node
    BY <1>1, <1>3 DEF Writers, CallbacksOf, Deck
  <2> QED
    BY <1>1, <1>3, <2>1 DEF Edges, WriterEdges
<1>4. CASE p \notin deck.callback /\ w \in deck.callback /\ p \in Filled(deck, w)
  <2>1. w \in Node
    BY <1>1, <1>4 DEF Deck
  <2> QED
    BY <1>1, <1>4, <2>1 DEF Edges, ReferenceEdges, To
<1> QED
  BY <1>2, <1>3, <1>4 DEF Fillers

\* No callback reads, itself or through one it drives or a material it references, what
\* has yet to be filled in this update (compute_execution_order).
THEOREM ReadsAreFreshHolds == BuildSpec => []ReadsAreFresh
<1>1. Build => ReadsAreFresh
  <2> SUFFICES ASSUME Build, phase = "done", NEW c \in deck.callback,
                      NEW p \in Consumed(deck, c), NEW w \in Fillers(deck, p), w # c
               PROVE  Precedes(w, c)
    BY DEF ReadsAreFresh
  <2>1. CASE p = c
    BY <2>1 DEF Fillers
  <2>2. CASE p # c
    <3>1. <<p, c>> \in edges /\ p \in Node /\ Precedes(p, c)
      <4>1. <<p, c>> \in edges
        BY <2>2, ReadHasEdge
      <4>2. p \in Node
        BY <4>1 DEF Build, Search, Sort, TypeOK
      <4> QED
        BY <4>1, <4>2, EdgePrecedes
    <3>2. w = p \/ <<w, p>> \in edges
      BY <3>1, FillerHasEdge
    <3> QED
      BY <3>1, <3>2, PrecedesTransitive
  <2> QED
    BY <2>1, <2>2
<1> QED
  BY <1>1, BuildStarts, BuildStep, PTL DEF BuildSpec

-----------------------------------------------------------------------------
(***************************************************************************)
(* The constants.                                                          *)
(***************************************************************************)
\* An output declared by a callback is filled by that callback alone.
LEMMA DeclaredFiller ==
  ASSUME Build, NEW c \in DOMAIN deck.reads, NEW p \in Group(deck, c)
  PROVE  /\ Fillers(deck, p) = {c} /\ c \in deck.callback /\ p \in Node /\ c \in Node
         /\ Owner[p] = Owner[c] /\ Owner[c] \in Material /\ (p = c \/ <<c, p>> \in edges)
<1>1. edges = Edges(deck) /\ Deck(deck) /\ Owner \in [Node -> Material]
  BY DeckAssumption DEF Build, BuildInv
<1>2. c \in deck.callback /\ p \in Node /\ c \in Node /\ Owner[p] = Owner[c] /\ Owner[c] \in Material
  BY <1>1 DEF Deck, Group
<1>3. CASE p \in deck.callback
  <2>1. p = c
    BY <1>1, <1>3 DEF Deck, Group
  <2> QED
    BY <1>2, <1>3, <2>1 DEF Fillers
<1>4. CASE p \notin deck.callback
  <2>1. p \in DOMAIN deck.writer /\ deck.writer[p] = c
    BY <1>2, <1>4 DEF Group
  <2>2. \A b : p \notin Filled(deck, b)
    BY <2>1 DEF Filled, Bare
  <2>3. Fillers(deck, p) = {c}
    BY <1>4, <2>1, <2>2 DEF Fillers, Writers
  <2>4. c \in Fillers(deck, p)
    BY <2>3
  <2> QED
    BY <1>2, <1>4, <2>3, <2>4, FillerHasEdge
<1> QED
  BY <1>3, <1>4

\* The constants are closed: nothing they are filled from can change.
LEMMA ConstantsDoNotVary ==
  ASSUME Build, NEW p \in constant
  PROVE  p \notin Varying(deck)
<1> DEFINE S == Node \ constant
<1>1. ASSUME NEW q \in constant
      PROVE  /\ q \in Node /\ q \notin MayChange(deck)
             /\ Influences(deck, q) \subseteq constant
  <2>1. IsConstant(q)
    BY DEF Build, BuildInv
  <2>2. PICK c \in DOMAIN deck.reads :
          /\ q \in Group(deck, c) /\ Group(deck, c) \cap deck.varying = {}
          /\ ReadsConstant(deck.reads[c].inputs) /\ deck.reads[c].own \subseteq constant
    BY <2>1 DEF IsConstant
  <2>3. Fillers(deck, q) = {c} /\ q \in Node
    BY <2>2, DeclaredFiller
  <2>4. q \notin MayChange(deck)
    BY <2>2, <2>3 DEF MayChange
  <2>5. ReadBy(deck, q) = deck.reads[c].inputs /\ OwnReadBy(deck, q) = deck.reads[c].own
    BY <2>3 DEF ReadBy, OwnReadBy
  <2>6. \A t \in deck.refs[Owner[q]] : Sources(deck.inputs[t]) \subseteq constant /\ Out(t) \subseteq constant
    BY <2>1 DEF IsConstant, ReadsConstant, Sources
  <2>7. Sources(ReadBy(deck, q)) \subseteq constant
    BY <2>2, <2>5 DEF ReadsConstant, Sources
  <2> QED
    BY <2>2, <2>3, <2>4, <2>5, <2>6, <2>7 DEF Influences
<1>2. MayChange(deck) \subseteq S
  <2>1. MayChange(deck) \subseteq Node
    BY DeckAssumption DEF Build, BuildInv, MayChange, Deck
  <2> QED
    BY <1>1, <2>1
<1>3. \A q \in Node : Influences(deck, q) \cap S # {} => q \in S
  BY <1>1
<1> QED
  BY <1>2, <1>3 DEF Varying

\* What runs once fills nothing that may change from one update to the next
\* (find_constants).
THEOREM OnceFillsConstantsHolds == BuildSpec => []OnceFillsConstants
<1>1. Build => OnceFillsConstants
  <2> SUFFICES ASSUME Build, NEW c \in once, NEW p \in Node, c \in Fillers(deck, p)
               PROVE  p \in constant
    BY ConstantsDoNotVary DEF OnceFillsConstants
  <2>1. c \in constant /\ c \in deck.callback /\ WritesConstants(c) /\ IsConstant(c)
    BY DEF Build, BuildInv
  <2>2. Deck(deck) /\ Owner \in [Node -> Material]
    BY DeckAssumption DEF Build, BuildInv
  <2>3. CASE p \in deck.callback
    BY <2>1, <2>3 DEF Fillers
  <2>4. CASE p \notin deck.callback /\ c \in Writers(deck, p)
    <3>1. Owner[p] = Owner[c]
      BY <2>2, <2>4 DEF Writers, CallbacksOf, Out, Deck
    <3> QED
      BY <2>1, <2>4, <3>1 DEF WritesConstants, Out
  <2>5. CASE p \notin deck.callback /\ p \in Filled(deck, c)
    <3>1. PICK t \in deck.refs[Owner[c]] : p \in Out(t)
      BY <2>5 DEF Filled, Bare
    <3> QED
      BY <2>1, <3>1 DEF IsConstant
  <2> QED
    BY <2>3, <2>4, <2>5 DEF Fillers
<1> QED
  BY <1>1, BuildStarts, BuildStep, PTL DEF BuildSpec

-----------------------------------------------------------------------------
(***************************************************************************)
(* One pass is enough: what is decided and not constant has to vary.       *)
(***************************************************************************)
Found ==
  \A S \in SUBSET Node : ClosedUnderReads(deck, S) =>
    \A i \in 1..position : order[i] \in constant \cup S

\* What the callback behind a placed property reads comes before it.
LEMMA ReadBefore ==
  ASSUME Build, NEW j \in 1..Len(order), NEW c, NEW q,
         order[j] = c \/ <<c, order[j]>> \in edges, <<q, c>> \in edges
  PROVE  \E i \in 1..(j - 1) : order[i] = q
<1>1. \A k \in 1..Len(order) : \A m : <<m, order[k]>> \in edges => \E i \in 1..(k - 1) : order[i] = m
  BY DEF Build, Search, Sort, TypeOK, OrderIsTopological, Pred
<1>2. CASE order[j] = c
  BY <1>1, <1>2
<1>3. CASE <<c, order[j]>> \in edges
  <2>1. PICK k \in 1..(j - 1) : order[k] = c
    BY <1>1, <1>3
  <2>2. k \in 1..Len(order) /\ 1..(k - 1) \subseteq 1..(j - 1)
    BY <2>1
  <2> QED
    BY <1>1, <2>1, <2>2
<1> QED
  BY <1>2, <1>3

LEMMA Decides ==
  ASSUME Build, Found, position < Len(order),
         NEW S \in SUBSET Node, ClosedUnderReads(deck, S), order[position + 1] \notin S
  PROVE  IsConstant(order[position + 1])
<1> DEFINE j == position + 1
           p == order[j]
<1>1. edges = Edges(deck) /\ Deck(deck) /\ Owner \in [Node -> Material] /\ position \in Nat
  BY DeckAssumption DEF Build, BuildInv
<1>2. j \in 1..Len(order) /\ j - 1 = position /\ p \in Node
  BY <1>1 DEF Build, Search, Sort, TypeOK
<1>3. PICK c \in DOMAIN deck.reads : p \in Group(deck, c)
  BY <1>2 DEF ClosedUnderReads, MustVary, Declared
<1>4. Fillers(deck, p) = {c} /\ Owner[p] = Owner[c] /\ (p = c \/ <<c, p>> \in edges)
  BY <1>3, DeclaredFiller
<1>5. ReadBy(deck, p) = deck.reads[c].inputs /\ OwnReadBy(deck, p) = deck.reads[c].own
  BY <1>4 DEF ReadBy, OwnReadBy
<1>6. p \notin MustVary(deck)
  BY DEF ClosedUnderReads
<1>7. /\ Group(deck, c) \cap deck.varying = {} /\ deck.refs[Owner[p]] = {}
      /\ \A i \in deck.reads[c].inputs : ~i.local /\ i.src # c
  BY <1>2, <1>4, <1>5, <1>6 DEF MustVary
<1>8. Sources(deck.reads[c].inputs) \cap S = {} /\ deck.reads[c].own \cap S = {}
  BY <1>2, <1>5 DEF ClosedUnderReads
<1>9. ASSUME NEW q, <<q, c>> \in edges, q \notin S
      PROVE  q \in constant
  <2>1. PICK i \in 1..position : order[i] = q
    BY <1>2, <1>4, <1>9, ReadBefore
  <2> QED
    BY <1>9, <2>1 DEF Found
<1>10. ReadsConstant(deck.reads[c].inputs)
  <2> SUFFICES ASSUME NEW i \in deck.reads[c].inputs
               PROVE  ~i.local /\ i.src \in constant
    BY DEF ReadsConstant
  <2>1. ~i.local /\ i.src # c /\ i.src \notin S
    BY <1>7, <1>8 DEF Sources
  <2>2. <<i.src, c>> \in To(Global(deck.reads[c].inputs), c)
    BY <2>1 DEF To, Global
  <2>3. <<i.src, c>> \in edges
    BY <1>1, <2>2 DEF Edges, InputEdges
  <2> QED
    BY <1>9, <2>1, <2>3
<1>11. deck.reads[c].own \subseteq constant
  <2> SUFFICES ASSUME NEW q \in deck.reads[c].own
               PROVE  q \in constant
    OBVIOUS
  <2>1. <<q, c>> \in edges /\ q \notin S
    BY <1>1, <1>8 DEF Edges, OrderEdges
  <2> QED
    BY <1>9, <2>1
<1> QED
  BY <1>3, <1>7, <1>10, <1>11 DEF IsConstant

\* find_constants misses no constant: it decides each property after all it reads.
THEOREM FindsAllConstantsHolds == BuildSpec => []FindsAllConstants
<1>1. BuildInit => Found
  BY DEF BuildInit, Found
<1>2. Build /\ Found /\ [BuildNext]_buildVars => Found'
  <2> SUFFICES ASSUME Build, Found, [BuildNext]_buildVars
               PROVE  Found'
    OBVIOUS
  <2>1. CASE Sorting
    <3>1. position' = 0
      BY <2>1, SortOrDecide DEF Sorting, constVars, Build, BuildInv
    <3> QED
      BY <3>1 DEF Found
  <2>2. CASE Decide
    <3> DEFINE p == order[position']
    <3>1. /\ position < Len(order) /\ position' = position + 1 /\ position \in Nat
          /\ constant' = IF IsConstant(p) THEN constant \cup {p} ELSE constant
          /\ deck' = deck /\ order' = order
      BY <2>2 DEF Decide, vars, sortVars, Build, BuildInv
    <3>2. ASSUME NEW S \in SUBSET Node, ClosedUnderReads(deck, S), NEW i \in 1..position'
          PROVE  order[i] \in constant' \cup S
      <4>1. CASE i \in 1..position
        BY <3>1, <3>2, <4>1 DEF Found
      <4>2. CASE i = position + 1
        BY <3>1, <3>2, <4>2, Decides
      <4> QED
        BY <3>1, <4>1, <4>2
    <3>3. \A S : ClosedUnderReads(deck, S) = ClosedUnderReads(deck, S)'
      BY <3>1 DEF ClosedUnderReads
    <3> QED
      BY <3>1, <3>2, <3>3 DEF Found
  <2>3. CASE FindOnce \/ UNCHANGED buildVars
    <3>1. UNCHANGED <<deck, order, position, constant>>
      BY <2>3 DEF FindOnce, buildVars, constVars, vars, sortVars
    <3> QED
      BY <3>1 DEF Found
  <2> QED
    BY <2>1, <2>2, <2>3 DEF BuildNext
<1>3. Build /\ Found => FindsAllConstants
  <2> SUFFICES ASSUME Build, Found, phase = "done", position = Len(order),
                      NEW S \in SUBSET Node, ClosedUnderReads(deck, S), NEW n \in Node \ constant
               PROVE  n \in S
    BY DEF FindsAllConstants
  <2>1. PICK i \in 1..position : order[i] = n
    BY DEF Build, Search, Sort, SortDecides, Placed
  <2> QED
    BY <2>1 DEF Found
<1> QED
  BY <1>1, <1>2, <1>3, BuildStarts, BuildStep, PTL DEF BuildSpec

-----------------------------------------------------------------------------
(***************************************************************************)
(* Refusals.                                                               *)
(***************************************************************************)
\* An edge is a material waiting for another or for itself; or a callback reads an output
\* of its own material; or a callback fills an output without one.
LEMMA EdgeIsReal ==
  ASSUME Build, NEW p, NEW q, <<p, q>> \in edges
  PROVE  /\ p \in Node /\ q \in Node /\ Owner[q] \in Material
         /\ \/ Owner[p] \in WaitsFor(deck, Owner[q])
            \/ q \in DOMAIN deck.reads /\ p \in deck.reads[q].own
            \/ q \notin deck.callback /\ p \in Writers(deck, q)
<1>1. edges = Edges(deck) /\ Deck(deck) /\ Owner \in [Node -> Material] /\ p \in Node /\ q \in Node
  BY DeckAssumption DEF Build, BuildInv, Search, Sort, TypeOK
<1>2. CASE <<p, q>> \in InputEdges(deck)
  <2>1. CASE q \in DOMAIN deck.reads /\ p \in Global(deck.reads[q].inputs)
    <3>1. deck.reads[q].inputs \subseteq deck.inputs[Owner[q]]
      BY <1>1, <2>1 DEF Deck
    <3>2. p \in Global(deck.inputs[Owner[q]])
      BY <2>1, <3>1 DEF Global
    <3> QED
      BY <1>1, <3>2 DEF WaitsFor
  <2>2. CASE p \in Global(deck.inputs[Owner[q]])
    BY <1>1, <2>2 DEF WaitsFor
  <2> QED
    BY <1>2, <2>1, <2>2 DEF InputEdges, To
<1>3. CASE <<p, q>> \in DriveEdges(deck)
  <2>1. q \in DOMAIN deck.reads /\ p \in Driven(deck, q)
    BY <1>3 DEF DriveEdges, To
  <2>2. q \in Out(Owner[q]) /\ p \notin Out(Owner[q])
    BY <1>1, <2>1 DEF Out, Driven
  <2> QED
    BY <1>1, <2>1, <2>2 DEF WaitsFor
<1>4. CASE <<p, q>> \in ReferenceEdges(deck)
  <2>1. CASE p \in Referred(deck, Owner[q])
    BY <1>1, <2>1 DEF WaitsFor
  <2>2. CASE p \in deck.callback /\ q \in Filled(deck, p)
    <3>1. PICK t \in deck.refs[Owner[p]] : q \in Bare(deck, t)
      BY <2>2 DEF Filled
    <3>2. Owner[q] = t /\ Owner[p] \in Material
      BY <1>1, <3>1 DEF Bare, Out
    <3> QED
      BY <1>1, <3>1, <3>2 DEF WaitsFor
  <2> QED
    BY <1>4, <2>1, <2>2 DEF ReferenceEdges, To
<1>5. CASE <<p, q>> \in OrderEdges(deck)
  BY <1>1, <1>5 DEF OrderEdges
<1>6. CASE <<p, q>> \in WriterEdges(deck)
  BY <1>1, <1>6 DEF WriterEdges
<1> QED
  BY <1>1, <1>2, <1>3, <1>4, <1>5, <1>6 DEF Edges

\* A writer is a callback of the same material that fills the output, and so is the
\* owner of an output a callback reads of its own.
LEMMA WithinMaterial ==
  ASSUME Build, NEW p, NEW q \in Node
  PROVE  /\ p \in Writers(deck, q) =>
              p \in deck.callback /\ Owner[p] = Owner[q]
         /\ q \in DOMAIN deck.reads =>
              q \in deck.callback /\ (p \in deck.reads[q].own => Owner[p] = Owner[q])
<1>1. Deck(deck) /\ Owner \in [Node -> Material]
  BY DeckAssumption DEF Build, BuildInv
<1> QED
  BY <1>1 DEF Deck, Writers, CallbacksOf, Out

\* The nodes of a cycle, each with another of them before it.
LEMMA CycleIsClosed ==
  ASSUME Build, phase = "throw"
  PROVE  \E C \in SUBSET Node : C # {} /\ \A q \in C : \E p \in C : <<p, q>> \in edges
<1> DEFINE C == {cycle[i] : i \in 1..Len(cycle)}
<1>1. cycle # <<>> /\ IsCycle(cycle) /\ cycle \in Seq(Node) /\ Len(cycle) \in Nat
  BY DEF Build, Search, Sort, SearchInv, TypeOK
<1>2. C \in SUBSET Node /\ C # {}
  BY <1>1
<1>3. ASSUME NEW j \in 1..Len(cycle)
      PROVE  \E p \in C : <<p, cycle[j]>> \in edges
  <2>1. CASE j = 1
    <3>1. Len(cycle) \in 1..Len(cycle) /\ <<cycle[Len(cycle)], cycle[1]>> \in edges
      BY <1>1, <1>3 DEF IsCycle
    <3> QED
      BY <2>1, <3>1
  <2>2. CASE j > 1
    <3>1. j - 1 \in 1..Len(cycle) /\ j - 1 # Len(cycle) /\ (j - 1) + 1 = j
      BY <1>1, <1>3, <2>2
    <3>2. <<cycle[j - 1], cycle[j]>> \in edges
      BY <1>1, <3>1 DEF IsCycle
    <3> QED
      BY <3>1, <3>2
  <2>3. j = 1 \/ j > 1
    BY <1>1
  <2> QED
    BY <2>1, <2>2, <2>3
<1> QED
  BY <1>2, <1>3

\* A deck is refused only if its materials wait for one another, or callbacks of one of
\* them read each other's outputs (compute_execution_order).
THEOREM RefusesRealCyclesHolds == BuildSpec => []RefusesRealCycles
<1>1. Build => RefusesRealCycles
  <2> SUFFICES ASSUME Build, phase = "throw",
                      \A S \in (SUBSET Material) \ {{}} : \E m \in S : WaitsFor(deck, m) \cap S = {}
               PROVE  \E S \in (SUBSET DOMAIN deck.reads) \ {{}} :
                        \A c \in S : \E p \in deck.reads[c].own : Fillers(deck, p) \cap S # {}
    BY DEF RefusesRealCycles
  <2>1. PICK C \in SUBSET Node : C # {} /\ \A q \in C : \E p \in C : <<p, q>> \in edges
    BY CycleIsClosed
  <2> DEFINE M == {Owner[n] : n \in C}
  <2>2. M \in (SUBSET Material) \ {{}}
    BY <2>1, DeckAssumption
  <2>3. PICK m \in M : WaitsFor(deck, m) \cap M = {}
    BY <2>2
  <2> DEFINE T == {n \in C : Owner[n] = m}
             S == T \cap DOMAIN deck.reads
  <2>4. ASSUME NEW q \in T
        PROVE  \E p \in T : \/ q \in DOMAIN deck.reads /\ p \in deck.reads[q].own
                            \/ /\ q \notin deck.callback /\ p \in Writers(deck, q)
                               /\ p \in deck.callback
    <3>1. PICK p \in C : <<p, q>> \in edges
      BY <2>1
    <3>2. Owner[p] \notin WaitsFor(deck, Owner[q])
      BY <2>3
    <3>3. \/ q \in DOMAIN deck.reads /\ p \in deck.reads[q].own
          \/ q \notin deck.callback /\ p \in Writers(deck, q)
      BY <3>1, <3>2, EdgeIsReal
    <3>4. p \in T /\ (p \in Writers(deck, q) => p \in deck.callback)
      BY <3>3, WithinMaterial
    <3> QED
      BY <3>3, <3>4
  <2>5. ASSUME NEW q \in T, q \in deck.callback
        PROVE  q \in S /\ \E p \in T : p \in deck.reads[q].own
    BY <2>4, <2>5
  <2>6. ASSUME NEW q \in T
        PROVE  Fillers(deck, q) \cap S # {}
    <3>1. CASE q \in deck.callback
      BY <2>5, <3>1 DEF Fillers
    <3>2. CASE q \notin deck.callback
      <4>1. q \notin DOMAIN deck.reads
        BY <3>2, WithinMaterial
      <4>2. PICK p \in T : p \in Writers(deck, q) /\ p \in deck.callback
        BY <2>4, <3>2, <4>1
      <4>3. p \in S /\ p \in Fillers(deck, q)
        BY <2>5, <3>2, <4>2 DEF Fillers
      <4> QED
        BY <4>3
    <3> QED
      BY <3>1, <3>2
  <2>7. S \in (SUBSET DOMAIN deck.reads) \ {{}}
    <3>1. \E n \in C : Owner[n] = m
      BY <2>3
    <3>2. T # {}
      BY <3>1
    <3> QED
      BY <2>6, <3>2
  <2>8. ASSUME NEW c \in S
        PROVE  \E p \in deck.reads[c].own : Fillers(deck, p) \cap S # {}
    <3>1. c \in deck.callback
      BY WithinMaterial
    <3>2. PICK p \in T : p \in deck.reads[c].own
      BY <2>5, <3>1
    <3> QED
      BY <2>6, <3>2
  <2> QED
    BY <2>7, <2>8
<1> QED
  BY <1>1, BuildStarts, BuildStep, PTL DEF BuildSpec

-----------------------------------------------------------------------------
(***************************************************************************)
(* What the build leaves is what the engine relies on: a FinalizedGraph,   *)
(* where a callback is its place among the callbacks of the order.         *)
(***************************************************************************)
\* Every output is filled by one callback, its own or its writer; a bare one by the host.
HasOneFiller(d) ==
  \A p \in Node \ (d.callback \cup DOMAIN d.writer) : Fillers(d, p) = {}

UpTo(c) == {e \in deck.callback : e = c \/ Precedes(e, c)}
NumberOf(c) == Cardinality(UpTo(c))
Size == Cardinality(deck.callback)

LEMMA OrderInjective ==
  ASSUME Build, NEW i \in 1..Len(order), NEW j \in 1..Len(order), order[i] = order[j]
  PROVE  i = j
<1>1. Len(order) \in Nat /\ order \in Seq(Node) /\ Cardinality(Placed) = Len(order)
  BY DEF Build, Search, Sort, TypeOK, SortInv
<1>2. IsFiniteSet(1..Len(order)) /\ Cardinality(1..Len(order)) = Len(order)
  BY <1>1, FS_Interval
<1> DEFINE f == [k \in 1..Len(order) |-> order[k]]
<1>3. f \in Surjection(1..Len(order), Placed)
  BY DEF Surjection, Placed
<1>4. f \in Injection(1..Len(order), Placed)
  BY <1>1, <1>2, <1>3, FS_SurjSameCardinalityImpliesInj
<1> QED
  BY <1>4 DEF Injection, IsInjective

LEMMA PrecedesIsOrder ==
  ASSUME Build, phase = "done", NEW p \in Node, NEW q \in Node
  PROVE  /\ ~Precedes(p, p)
         /\ p = q \/ Precedes(p, q) \/ Precedes(q, p)
         /\ \A r \in Node : Precedes(r, p) /\ Precedes(p, q) => Precedes(r, q)
<1>1. Len(order) \in Nat /\ Placed = Node
  BY DEF Build, Search, Sort, TypeOK, SortDecides
<1>2. \A r, w : Precedes(r, w) <=>
        \E i, j \in 1..Len(order) : order[i] = r /\ order[j] = w /\ i < j
  BY <1>1 DEF Precedes
<1>3. PICK i, j \in 1..Len(order) : order[i] = p /\ order[j] = q
  BY <1>1 DEF Placed
<1>4. ~Precedes(p, p)
  BY <1>2, OrderInjective
<1>5. p = q \/ Precedes(p, q) \/ Precedes(q, p)
  BY <1>2, <1>3
<1>6. ASSUME NEW r \in Node, Precedes(r, p), Precedes(p, q)
      PROVE  Precedes(r, q)
  <2>1. PICK a, b \in 1..Len(order) : order[a] = r /\ order[b] = p /\ a < b
    BY <1>2, <1>6
  <2>2. PICK c, d \in 1..Len(order) : order[c] = p /\ order[d] = q /\ c < d
    BY <1>2, <1>6
  <2>3. b = c
    BY <2>1, <2>2, OrderInjective
  <2> QED
    BY <1>2, <2>1, <2>2, <2>3
<1> QED
  BY <1>4, <1>5, <1>6

\* Callbacks are numbered along the order, from 1, without gaps or repetitions.
LEMMA Places ==
  ASSUME Build, phase = "done", NEW c \in deck.callback
  PROVE  /\ Size \in Nat /\ NumberOf(c) \in 1..Size
         /\ \A e \in deck.callback : Precedes(c, e) => NumberOf(c) < NumberOf(e)
         /\ \A e \in deck.callback : NumberOf(c) = NumberOf(e) => c = e
<1>1. deck.callback \subseteq Node /\ IsFiniteSet(deck.callback) /\ Size \in Nat
  BY NodeAssumption, FS_Subset, FS_CardinalityType DEF Build, BuildInv, Deck, Size
<1>2. \A e \in deck.callback : /\ UpTo(e) \in SUBSET deck.callback /\ e \in UpTo(e)
                               /\ IsFiniteSet(UpTo(e)) /\ NumberOf(e) \in Nat /\ NumberOf(e) <= Size
  <2> TAKE e \in deck.callback
  <2>1. UpTo(e) \in SUBSET deck.callback /\ e \in UpTo(e)
    BY DEF UpTo
  <2> QED
    BY <1>1, <2>1, FS_Subset, FS_CardinalityType DEF NumberOf, Size
<1>3. NumberOf(c) # 0
  BY <1>2, FS_EmptySet DEF NumberOf
<1>4. ASSUME NEW d \in deck.callback, NEW e \in deck.callback, Precedes(d, e)
      PROVE  NumberOf(d) < NumberOf(e)
  <2>1. UpTo(d) \subseteq UpTo(e)
    BY <1>1, <1>4, PrecedesIsOrder DEF UpTo
  <2>2. e \notin UpTo(d)
    BY <1>1, <1>4, PrecedesIsOrder DEF UpTo
  <2>3. NumberOf(d) <= NumberOf(e) /\ (NumberOf(e) = NumberOf(d) => UpTo(e) = UpTo(d))
    BY <1>2, <2>1, FS_Subset DEF NumberOf
  <2> QED
    BY <1>2, <2>2, <2>3
<1>5. ASSUME NEW e \in deck.callback, NumberOf(c) = NumberOf(e)
      PROVE  c = e
  BY <1>1, <1>2, <1>4, <1>5, PrecedesIsOrder
<1> QED
  BY <1>1, <1>2, <1>3, <1>4, <1>5

\* The callback behind a property, and its cell; what the host binds comes after them.
Behind(p) == IF p \in deck.callback THEN p ELSE deck.writer[p]
HasCallback(p) == p \in deck.callback \cup DOMAIN deck.writer
CellOf(p) == IF HasCallback(p) THEN NumberOf(Behind(p)) ELSE Size + 1 + p

Numbered(n) == {c \in deck.callback : NumberOf(c) = n}
BoundCells == {CellOf(p) : p \in {p \in Node : ~HasCallback(p)}}

\* The callbacks that fill an output of S.
Filling(S) == {NumberOf(c) : c \in {c \in deck.callback : Group(deck, c) \cap S # {}}}

\* Its own outputs a callback does not read over an edge.
ReadCells(n) == {CellOf(p) : p \in UNION {Consumed(deck, c) : c \in Numbered(n)}} \ {n}

\* Of a history it reads, its own or of another, a callback may see the accepted value.
HistoryCells(n) ==
  (BoundCells \cup Filling(deck.varying))
    \cap ({n} \cup {CellOf(p) : p \in UNION {Sources(ReadsOf(deck, c)) : c \in Numbered(n)}})

Built == INSTANCE FinalizedGraph WITH
  N <- Size, Parameter <- {}, External <- BoundCells, History <- Filling(deck.varying),
  Reads <- [n \in 1..Size |-> ReadCells(n)], OldReads <- [n \in 1..Size |-> HistoryCells(n)],
  Constant <- Filling(constant), Once <- {NumberOf(c) : c \in once}

LEMMA CellsAreTyped ==
  ASSUME Build, phase = "done", NEW p \in Node
  PROVE  /\ Size \in Nat
         /\ HasCallback(p) => Behind(p) \in deck.callback /\ CellOf(p) = NumberOf(Behind(p)) /\ CellOf(p) \in 1..Size
         /\ ~HasCallback(p) => CellOf(p) \in BoundCells /\ CellOf(p) \notin 1..Size
<1>1. deck.callback \subseteq Node /\ IsFiniteSet(deck.callback) /\ Size \in Nat
  BY NodeAssumption, FS_Subset, FS_CardinalityType DEF Build, BuildInv, Deck, Size
<1>2. CASE HasCallback(p)
  <2>1. Behind(p) \in deck.callback
    BY <1>2 DEF HasCallback, Behind, Build, BuildInv, Deck
  <2> QED
    BY <1>1, <1>2, <2>1, Places DEF CellOf
<1>3. CASE ~HasCallback(p)
  <2>1. p \in Nat
    BY NodeAssumption
  <2>2. CellOf(p) = Size + 1 + p
    BY <1>3 DEF CellOf
  <2>3. CellOf(p) \notin 1..Size
    BY <1>1, <2>1, <2>2
  <2> QED
    BY <1>1, <1>3, <2>3 DEF BoundCells
<1> QED
  BY <1>2, <1>3

LEMMA BuiltCellsDiffer ==
  ASSUME Build, phase = "done"
  PROVE  Built!CellsDiffer
<1>1. Size \in Nat
  BY NodeAssumption, FS_Subset, FS_CardinalityType DEF Build, BuildInv, Deck, Size
<1>2. BoundCells \cap (1..Size) = {}
  BY CellsAreTyped DEF BoundCells
<1>3. Filling(deck.varying) \subseteq 1..Size
  BY Places DEF Filling
<1> QED
  BY <1>1, <1>2, <1>3 DEF Built!CellsDiffer, Built!Callback, Built!Property

LEMMA ReadsAreNodes ==
  ASSUME Build, NEW c \in deck.callback
  PROVE  c \in Node /\ Consumed(deck, c) \subseteq Node /\ Sources(ReadsOf(deck, c)) \subseteq Node
<1>1. c \in Node /\ edges \subseteq Node \X Node
  BY DEF Build, BuildInv, Deck, Search, Sort, TypeOK
<1>2. Consumed(deck, c) \subseteq Node
  BY <1>1, ReadHasEdge
<1>3. \A m \in Material : deck.inputs[m] \subseteq Wire
  BY DEF Build, BuildInv, Deck
<1>4. ReadsOf(deck, c) \subseteq Wire
  <2>1. Owner[c] \in Material
    BY <1>1, DeckAssumption
  <2>2. \A e \in DOMAIN deck.reads : deck.reads[e].inputs \subseteq Wire
    <3> TAKE e \in DOMAIN deck.reads
    <3>1. e \in Node /\ deck.reads[e].inputs \subseteq deck.inputs[Owner[e]]
      BY DEF Build, BuildInv, Deck
    <3>2. Owner[e] \in Material
      BY <3>1, DeckAssumption
    <3> QED
      BY <1>3, <3>1, <3>2
  <2> QED
    BY <1>3, <2>1, <2>2 DEF ReadsOf
<1>5. Sources(ReadsOf(deck, c)) \subseteq Node
  BY <1>4 DEF Sources, Wire
<1> QED
  BY <1>1, <1>2, <1>5

LEMMA NumberedIs ==
  ASSUME Build, phase = "done", NEW c \in deck.callback
  PROVE  Numbered(NumberOf(c)) = {c}
BY Places DEF Numbered

LEMMA CellOfRead ==
  ASSUME Build, phase = "done", ReadsAreFresh,
         NEW c \in deck.callback, NEW p \in Consumed(deck, c),
         CellOf(p) \in 1..Size, CellOf(p) # NumberOf(c)
  PROVE  CellOf(p) < NumberOf(c)
<1>1. p \in Node
  BY ReadsAreNodes
<1>2. HasCallback(p) /\ Behind(p) \in deck.callback /\ CellOf(p) = NumberOf(Behind(p))
  BY <1>1, CellsAreTyped
<1>3. Behind(p) \in Fillers(deck, p)
  BY <1>2 DEF Fillers, Writers, Behind, HasCallback
<1>4. Precedes(Behind(p), c)
  BY <1>2, <1>3 DEF ReadsAreFresh
<1> QED
  BY <1>2, <1>4, Places

LEMMA BuiltReadsComeFirst ==
  ASSUME Build, phase = "done", ReadsAreFresh
  PROVE  Built!ReadsComeFirst
<1>1. \A n \in 1..Size : \A c \in Numbered(n) :
         c \in deck.callback /\ NumberOf(c) = n /\ Consumed(deck, c) \subseteq Node
  BY ReadsAreNodes DEF Numbered
<1>2. ASSUME NEW n \in 1..Size
      PROVE  ReadCells(n) \subseteq BoundCells \cup 1..Size
  BY <1>1, CellsAreTyped DEF ReadCells
<1>3. ASSUME NEW n \in 1..Size, NEW d \in ReadCells(n), d \in 1..Size
      PROVE  d < n
  <2>0. PICK p \in UNION {Consumed(deck, c) : c \in Numbered(n)} : d = CellOf(p)
    BY DEF ReadCells
  <2>1. PICK c \in Numbered(n) : p \in Consumed(deck, c)
    BY <2>0
  <2>2. d # n
    BY DEF ReadCells
  <2> QED
    BY <1>1, <1>3, <2>0, <2>1, <2>2, CellOfRead
<1>4. \A n \in 1..Size : HistoryCells(n) \subseteq BoundCells \cup Filling(deck.varying)
  BY DEF HistoryCells
<1>5. [n \in 1..Size |-> ReadCells(n)] \in [1..Size -> SUBSET ({} \cup (BoundCells \cup 1..Size))]
  BY <1>2
<1>6. [n \in 1..Size |-> HistoryCells(n)] \in [1..Size -> SUBSET (BoundCells \cup Filling(deck.varying))]
  BY <1>4
<1>7. \A n \in 1..Size : \A d \in [i \in 1..Size |-> ReadCells(i)][n] \cap 1..Size : d < n
  BY <1>3
<1> QED
  BY <1>5, <1>6, <1>7
     DEF Built!ReadsComeFirst, Built!Callback, Built!Property, Built!Cell, Built!Held

\* A callback with an output that is constant declares what it reads, and that is constant.
LEMMA ConstantCallback ==
  ASSUME Build, NEW c \in deck.callback, NEW p \in Group(deck, c), p \in constant
  PROVE  /\ c \in DOMAIN deck.reads /\ Group(deck, c) \cap deck.varying = {}
         /\ Consumed(deck, c) \subseteq constant /\ Sources(ReadsOf(deck, c)) \subseteq constant
<1>1. IsConstant(p)
  BY DEF Build, BuildInv
<1>2. PICK e \in DOMAIN deck.reads :
        /\ p \in Group(deck, e) /\ Group(deck, e) \cap deck.varying = {}
        /\ ReadsConstant(deck.reads[e].inputs) /\ deck.reads[e].own \subseteq constant
  BY <1>1 DEF IsConstant
<1>3. c = e
  BY <1>2 DEF Group, Build, BuildInv, Deck
<1>4. {x \in DOMAIN deck.reads : c \in Group(deck, x)} = {c}
  <2>1. c \in Group(deck, c) /\ c \in DOMAIN deck.reads
    BY <1>3 DEF Group
  <2>2. \A x \in DOMAIN deck.reads : c \in Group(deck, x) => x = c
    BY DEF Group, Build, BuildInv, Deck
  <2> QED
    BY <2>1, <2>2
<1>5. ReadsOf(deck, c) = deck.reads[c].inputs
  <2>1. c \in Declared(deck)
    BY <1>3 DEF Declared, Group
  <2>2. ReadsOf(deck, c) = UNION {deck.reads[x].inputs : x \in {x \in DOMAIN deck.reads : c \in Group(deck, x)}}
    BY <2>1 DEF ReadsOf
  <2> QED
    BY <1>4, <2>2
<1>6. deck.reads[c].drives = {}
  BY <1>2, <1>3 DEF ReadsConstant, Build, BuildInv, Deck
<1>7. Driven(deck, c) = {}
  BY <1>6 DEF Driven
<1>8. Owner[c] = Owner[p]
  BY DEF Group, Build, BuildInv, Deck
<1>9. Referred(deck, Owner[c]) \subseteq constant
  BY <1>1, <1>8 DEF IsConstant, ReadsConstant, Referred, Global
<1>10. Sources(ReadsOf(deck, c)) \subseteq constant /\ Global(ReadsOf(deck, c)) \subseteq constant
  BY <1>2, <1>3, <1>5 DEF Sources, Global, ReadsConstant
<1> QED
  BY <1>2, <1>3, <1>7, <1>9, <1>10 DEF Consumed

LEMMA ConstantCell ==
  ASSUME Build, phase = "done", NEW p \in constant
  PROVE  p \in Node /\ HasCallback(p) /\ CellOf(p) \in Filling(constant)
<1>1. IsConstant(p)
  BY DEF Build, BuildInv
<1>2. PICK e \in DOMAIN deck.reads : p \in Group(deck, e)
  BY <1>1 DEF IsConstant
<1>3. e \in deck.callback /\ HasCallback(p) /\ Behind(p) = e /\ p \in Node
  BY <1>2 DEF Group, Build, BuildInv, Deck, HasCallback, Behind
<1>4. CellOf(p) = NumberOf(e)
  BY <1>3, CellsAreTyped
<1> QED
  BY <1>2, <1>3, <1>4 DEF Filling

LEMMA BuiltConstantsReadConstants ==
  ASSUME Build, phase = "done"
  PROVE  Built!ConstantsReadConstants
<1>1. {NumberOf(c) : c \in once} \subseteq Filling(constant)
  BY DEF Filling, Group, Build, BuildInv
<1>2. Filling(constant) \subseteq 1..Size
  BY Places DEF Filling
<1>3. ASSUME NEW n \in Filling(constant)
      PROVE  /\ n \notin Filling(deck.varying)
             /\ ReadCells(n) \subseteq Filling(constant) /\ HistoryCells(n) = {}
  <2>1. PICK c \in deck.callback : n = NumberOf(c) /\ Group(deck, c) \cap constant # {}
    BY DEF Filling
  <2>2. /\ Group(deck, c) \cap deck.varying = {}
        /\ Consumed(deck, c) \subseteq constant /\ Sources(ReadsOf(deck, c)) \subseteq constant
    BY <2>1, ConstantCallback
  <2>3. Numbered(n) = {c}
    BY <2>1, NumberedIs
  <2>4. \A e \in deck.callback : NumberOf(e) = n => e = c
    BY <2>1, Places
  <2>5. n \notin Filling(deck.varying)
    BY <2>2, <2>4 DEF Filling
  <2>6. ReadCells(n) \subseteq Filling(constant)
    BY <2>2, <2>3, ConstantCell DEF ReadCells
  <2>7. \A p \in Sources(ReadsOf(deck, c)) : CellOf(p) \in Filling(constant)
    BY <2>2, ConstantCell
  <2>8. Filling(constant) \cap Filling(deck.varying) = {}
    <3> SUFFICES ASSUME NEW a \in deck.callback, NEW b \in deck.callback, NumberOf(a) = NumberOf(b),
                        Group(deck, a) \cap constant # {}, Group(deck, b) \cap deck.varying # {}
                 PROVE  FALSE
      BY DEF Filling
    <3>1. a = b
      BY Places
    <3> QED
      BY <3>1, ConstantCallback
  <2>9. Filling(constant) \cap BoundCells = {}
    BY <1>2, CellsAreTyped DEF BoundCells
  <2>10. HistoryCells(n) = {}
    BY <2>3, <2>7, <2>8, <2>9 DEF HistoryCells
  <2> QED
    BY <2>5, <2>6, <2>10
<1> DEFINE R == [n \in 1..Size |-> ReadCells(n)]
           O == [n \in 1..Size |-> HistoryCells(n)]
<1>4. \A n \in Filling(constant) : R[n] \subseteq {} \cup Filling(constant) /\ O[n] = {}
  BY <1>2, <1>3
<1> QED
  BY <1>1, <1>2, <1>3, <1>4 DEF Built!ConstantsReadConstants, Built!Callback

\* Where no bare output is filled by a callback, what a callback fills is its cell.
FillsItsCell ==
  HasOneFiller(deck) =>
    \A p \in Node : \A c \in Fillers(deck, p) : CellOf(p) = NumberOf(c)

\* What an update relies on is what build() has done: the callbacks of a deck, numbered along
\* the order it found, form a finalized graph, with every callback after those it reads and
\* constants that read constants alone (compute_execution_order, find_constants).
THEOREM BuiltIsFinalized == BuildSpec => [](phase = "done" => Built!Finalized /\ FillsItsCell)
<1>1. ASSUME Build, ReadsAreFresh, phase = "done"
      PROVE  Built!Finalized
  BY <1>1, BuiltCellsDiffer, BuiltReadsComeFirst, BuiltConstantsReadConstants DEF Built!Finalized
<1>2. ASSUME Build, phase = "done"
      PROVE  FillsItsCell
  <2> SUFFICES ASSUME HasOneFiller(deck), NEW p \in Node, NEW c \in Fillers(deck, p)
               PROVE  CellOf(p) = NumberOf(c)
    BY DEF FillsItsCell
  <2>1. HasCallback(p)
    BY DEF HasOneFiller, HasCallback
  <2>2. p \notin Filled(deck, c) \/ p \in deck.callback
    BY <2>1 DEF Filled, Bare, HasCallback
  <2>3. c = Behind(p)
    BY <2>1, <2>2 DEF Fillers, Writers, Behind, HasCallback, Filled, Bare
  <2> QED
    BY <1>2, <2>1, <2>3, CellsAreTyped
<1>3. Build /\ ReadsAreFresh => (phase = "done" => Built!Finalized /\ FillsItsCell)
  BY <1>1, <1>2
<1> QED
  BY <1>3, BuildStarts, BuildStep, ReadsAreFreshHolds, PTL DEF BuildSpec
=============================================================================
