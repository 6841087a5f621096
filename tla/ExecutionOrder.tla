--------------------------- MODULE ExecutionOrder ---------------------------
(***************************************************************************)
(* property_engine::compute_execution_order, from the edges on: a          *)
(* topological sort whose ties are broken by the creation order of the     *)
(* materials and then by key, and the search for a cycle to report when    *)
(* some properties cannot be placed.                                       *)
(*                                                                         *)
(* Nodes are the properties, numbered by key.  The lists of successors are *)
(* filled in hash order, so every loop over one takes them in any order.   *)
(***************************************************************************)
EXTENDS Integers, Sequences, FiniteSets

CONSTANTS
  Node,          \* the properties
  Rankings,      \* the creation ranks to sort by: [n |-> rank of the material that owns n]
  Graphs         \* the edge sets to sort

ASSUME NodeAssumption ==
  /\ Node \subseteq Nat /\ IsFiniteSet(Node)
  /\ Rankings \subseteq [Node -> Nat]
  /\ Graphs \subseteq SUBSET (Node \X Node)

VARIABLES
  edges,         \* the global edges, and
  created,       \* the creation ranks; both constant
  phase,         \* "sort", "done", "search" and "throw"
  indegree,      \* edges into a node that are not released yet
  ready,         \* nodes without one, not placed yet
  order,         \* m_property_execution_order
  release,       \* successors of the node placed last, still to release
  mark,          \* find_cycle: 0 not visited, 1 on the path, 2 done
  path,          \* ... the path of the search
  rest,          \* ... successors of a node still to look at
  cycle          \* ... what is reported

sortVars   == <<indegree, ready, order, release>>
searchVars == <<mark, path, rest, cycle>>
inputVars  == <<edges, created>>
vars       == <<inputVars, phase, sortVars, searchVars>>

Succ(n) == {m \in Node : <<n, m>> \in edges}
Pred(n) == {m \in Node : <<m, n>> \in edges}

\* rank(): the creation order, then the key.
Before(n, m) == created[n] < created[m] \/ (created[n] = created[m] /\ n < m)

Placed == {order[i] : i \in 1..Len(order)}

\* The nodes the sort could not place.
Left == {n \in Node : indegree[n] > 0}

TypeOK ==
  /\ edges \subseteq Node \X Node /\ created \in [Node -> Nat]
  /\ phase \in {"sort", "done", "search", "throw"}
  /\ indegree \in [Node -> Nat]
  /\ ready \subseteq Node /\ release \subseteq Node
  /\ order \in Seq(Node)
  /\ mark \in [Node -> 0..2] /\ rest \in [Node -> SUBSET Node]
  /\ path \in Seq(Node) /\ cycle \in Seq(Node)

Init ==
  /\ edges \in Graphs /\ created \in Rankings
  /\ phase = "sort"
  /\ indegree = [n \in Node |-> Cardinality(Pred(n))]
  /\ ready = {n \in Node : Pred(n) = {}}
  /\ order = <<>> /\ release = {}
  /\ mark = [n \in Node |-> 0] /\ rest = [n \in Node |-> {}]
  /\ path = <<>> /\ cycle = <<>>

-----------------------------------------------------------------------------
(***************************************************************************)
(* The sort.                                                               *)
(***************************************************************************)
\* Mutant: the ready node the hashing gives first.
PlaceAny(n) ==
  /\ phase = "sort" /\ release = {} /\ n \in ready
  /\ ready' = ready \ {n}
  /\ order' = Append(order, n) /\ release' = Succ(n)
  /\ UNCHANGED <<inputVars, phase, indegree, searchVars>>

Place(n) ==
  /\ phase = "sort" /\ release = {}
  /\ n \in ready /\ \A m \in ready \ {n} : Before(n, m)
  /\ ready' = ready \ {n}
  /\ order' = Append(order, n) /\ release' = Succ(n)
  /\ UNCHANGED <<inputVars, phase, indegree, searchVars>>

\* Mutants: an edge is in the list twice; a node is ready with one edge to go; the
\* count is compared before it is decremented.
ReleaseTwice(n) ==
  /\ phase = "sort" /\ n \in release
  /\ indegree' = [indegree EXCEPT ![n] = @ - 1]
  /\ ready' = IF indegree[n] = 1 THEN ready \cup {n} ELSE ready
  /\ UNCHANGED <<inputVars, phase, order, release, searchVars>>

ReleaseEarly(n) ==
  /\ phase = "sort" /\ n \in release
  /\ release' = release \ {n}
  /\ indegree' = [indegree EXCEPT ![n] = @ - 1]
  /\ ready' = IF indegree[n] <= 2 THEN ready \cup {n} ELSE ready
  /\ UNCHANGED <<inputVars, phase, order, searchVars>>

ReleaseLate(n) ==
  /\ phase = "sort" /\ n \in release
  /\ release' = release \ {n}
  /\ indegree' = [indegree EXCEPT ![n] = @ - 1]
  /\ ready' = IF indegree[n] = 0 THEN ready \cup {n} ELSE ready
  /\ UNCHANGED <<inputVars, phase, order, searchVars>>

Release(n) ==
  /\ phase = "sort" /\ n \in release
  /\ release' = release \ {n}
  /\ indegree' = [indegree EXCEPT ![n] = @ - 1]
  /\ ready' = IF indegree[n] = 1 THEN ready \cup {n} ELSE ready
  /\ UNCHANGED <<inputVars, phase, order, searchVars>>

SortEnds ==
  /\ phase = "sort" /\ release = {} /\ ready = {}
  /\ phase' = IF Len(order) = Cardinality(Node) THEN "done" ELSE "search"
  /\ UNCHANGED <<inputVars, sortVars, searchVars>>

-----------------------------------------------------------------------------
(***************************************************************************)
(* find_cycle: a depth-first search among the nodes left, from each in key *)
(* order, until it meets its own path.                                     *)
(***************************************************************************)
Searching == phase = "search" /\ cycle = <<>>

Top == path[Len(path)]

Enter(n) ==
  /\ mark' = [mark EXCEPT ![n] = 1]
  /\ path' = Append(path, n)

Root(n) ==
  /\ Searching /\ path = <<>>
  /\ n \in Left /\ mark[n] = 0
  /\ \A m \in Left : mark[m] = 0 => n <= m
  /\ Enter(n) /\ rest' = [rest EXCEPT ![n] = Succ(n)]
  /\ UNCHANGED <<inputVars, phase, sortVars, cycle>>

Skip(n) ==
  /\ Searching /\ path # <<>> /\ n \in rest[Top]
  /\ n \in Left => mark[n] = 2
  /\ rest' = [rest EXCEPT ![Top] = @ \ {n}]
  /\ UNCHANGED <<inputVars, phase, sortVars, mark, path, cycle>>

Descend(n) ==
  /\ Searching /\ path # <<>> /\ n \in rest[Top]
  /\ n \in Left /\ mark[n] = 0
  /\ Enter(n) /\ rest' = [rest EXCEPT ![Top] = @ \ {n}, ![n] = Succ(n)]
  /\ UNCHANGED <<inputVars, phase, sortVars, cycle>>

\* Mutant: a node the search leaves is not done.
BacktrackUndone ==
  /\ Searching /\ path # <<>> /\ rest[Top] = {}
  /\ mark' = [mark EXCEPT ![Top] = 0]
  /\ path' = SubSeq(path, 1, Len(path) - 1)
  /\ UNCHANGED <<inputVars, phase, sortVars, rest, cycle>>

Backtrack ==
  /\ Searching /\ path # <<>> /\ rest[Top] = {}
  /\ mark' = [mark EXCEPT ![Top] = 2]
  /\ path' = SubSeq(path, 1, Len(path) - 1)
  /\ UNCHANGED <<inputVars, phase, sortVars, rest, cycle>>

\* s, rotated to begin at k.
Rotated(s, k) == SubSeq(s, k, Len(s)) \o SubSeq(s, 1, k - 1)

Smallest(s, k) == \A j \in 1..Len(s) : s[k] <= s[j]

\* Mutant: the whole path is reported.
CloseWhole(n) ==
  /\ Searching /\ path # <<>> /\ n \in rest[Top]
  /\ n \in Left /\ mark[n] = 1
  /\ \E k \in 1..Len(path) : Smallest(path, k) /\ cycle' = Rotated(path, k)
  /\ UNCHANGED <<inputVars, phase, sortVars, mark, path, rest>>

Close(n) ==
  /\ Searching /\ path # <<>> /\ n \in rest[Top]
  /\ n \in Left /\ mark[n] = 1
  /\ \E i \in 1..Len(path) :
       LET loop == SubSeq(path, i, Len(path))
       IN  /\ path[i] = n
           /\ \E k \in 1..Len(loop) : Smallest(loop, k) /\ cycle' = Rotated(loop, k)
  /\ UNCHANGED <<inputVars, phase, sortVars, mark, path, rest>>

\* The search is over: a cycle was met, or every node was visited.
Throw ==
  /\ phase = "search"
  /\ cycle = <<>> => path = <<>> /\ \A n \in Left : mark[n] # 0
  /\ phase' = "throw"
  /\ UNCHANGED <<inputVars, sortVars, searchVars>>

-----------------------------------------------------------------------------
Next ==
  \/ SortEnds \/ Backtrack \/ Throw
  \/ \E n \in Node : \/ Place(n) \/ Release(n)
                     \/ Root(n) \/ Skip(n) \/ Descend(n) \/ Close(n)

Spec == Init /\ [][Next]_vars /\ WF_vars(Next)

-----------------------------------------------------------------------------
(***************************************************************************)
(* Properties.                                                             *)
(***************************************************************************)
\* Every property comes after all it depends on.
OrderIsTopological ==
  \A j \in 1..Len(order) : \A m \in Pred(order[j]) : \E i \in 1..(j - 1) : order[i] = m

\* The order is a function of the edges and of the creation order: each property is
\* the first that could come next, whatever the hashing.
OrderIsLeast ==
  \A j \in 1..Len(order) :
    LET earlier == {order[i] : i \in 1..(j - 1)}
    IN  \A n \in Node \ earlier :
          Pred(n) \subseteq earlier => n = order[j] \/ Before(order[j], n)

\* The sort ends with all properties in the order, or some are left that wait for each
\* other: each one left waits for one that is left.
SortDecides ==
  /\ phase = "done" => Placed = Node
  /\ phase \in {"search", "throw"} =>
       Left # {} /\ \A n \in Left : Pred(n) \cap Left # {}

IsCycle(s) ==
  /\ \A i \in 1..Len(s) : <<s[i], s[IF i = Len(s) THEN 1 ELSE i + 1]>> \in edges
  /\ \A i, j \in 1..Len(s) : i < j => s[i] # s[j] /\ s[1] < s[j]

\* What is reported is a cycle of the graph, without repetitions, smallest key first.
ReportedIsCycle ==
  phase = "throw" => cycle # <<>> /\ IsCycle(cycle)

\* build() ends, with an order of everything or with an error.
BuildEnds == <>(phase = "throw" \/ (phase = "done" /\ Placed = Node))

(***************************************************************************)
(* The inductive invariant: of the sort, and of the search.                *)
(***************************************************************************)
\* What n waits for.  The node placed last still counts where it is to be released.
Waits(n) ==
  {m \in Pred(n) : m \notin Placed \/ (n \in release /\ m = order[Len(order)])}

SortInv ==
  /\ release # {} => order # <<>> /\ release \subseteq Succ(order[Len(order)])
  /\ Cardinality(Placed) = Len(order)
  /\ \A n \in Node : indegree[n] = Cardinality(Waits(n))
  /\ ready = {n \in Node \ Placed : Waits(n) = {}}
  /\ \A n \in Placed : Waits(n) = {}
  /\ phase # "sort" => release = {} /\ ready = {}

Done == {n \in Node : mark[n] = 2}

PathInv ==
  /\ \A i \in 1..Len(path) : path[i] \in Left /\ mark[path[i]] = 1
  /\ \A n \in Node : mark[n] = 1 => \E i \in 1..Len(path) : path[i] = n
  /\ \A i, j \in 1..Len(path) : path[i] = path[j] => i = j
  /\ \A i \in 1..(Len(path) - 1) : <<path[i], path[i + 1]>> \in edges
  /\ \A i \in 1..Len(path) : rest[path[i]] \subseteq Succ(path[i])
  /\ \A i \in 1..Len(path) : \A m \in Succ(path[i]) \cap Left :
       m \in rest[path[i]] \/ mark[m] = 2 \/ (i < Len(path) /\ m = path[i + 1])

\* No cycle goes through the nodes that are done: every set of them has a first one.
DoneInv ==
  /\ \A n \in Done : \A m \in Succ(n) \cap Left : m \in Done
  /\ \A S \in SUBSET Done : S # {} => \E n \in S : Pred(n) \cap S = {}

SearchInv ==
  /\ phase \in {"sort", "done"} =>
       path = <<>> /\ cycle = <<>> /\ \A n \in Node : mark[n] = 0
  /\ PathInv /\ DoneInv
  /\ cycle # <<>> => IsCycle(cycle)
  /\ phase = "throw" => cycle # <<>>

IInv ==
  /\ TypeOK /\ SortInv /\ SearchInv
  /\ OrderIsTopological /\ OrderIsLeast /\ SortDecides
=============================================================================
