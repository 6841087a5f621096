---------------------------- MODULE MCGraphBuild ----------------------------
(***************************************************************************)
(* Decks of four materials: a source "x" bound by the host; "a" with two   *)
(* outputs; a solver "s" with two unknowns; and a function "f" of them,    *)
(* that the solver may drive.  What each reads, over which kind of edge,   *)
(* and what it declares of it, varies from deck to deck.                   *)
(***************************************************************************)
EXTENDS GraphBuild, TLC

MCNode     == 1..6
MCMaterial == {"x", "a", "s", "f"}
MCOwner    == <<"x", "a", "a", "s", "s", "f">>

G(p) == [src |-> p, local |-> FALSE]
L(p) == [src |-> p, local |-> TRUE]

Read(i)     == [inputs |-> i, own |-> {}, drives |-> {}]
Drive(i, j) == [inputs |-> i \cup j, own |-> {}, drives |-> j]

\* The second output of "a": in the group of the first, with a callback, or bare.
MCDeck(second, a1, a2, s, f, ref, varying, undeclared) ==
  LET own   == IF second = "callback" THEN 3 :> a2 ELSE <<>>
      reads == 2 :> a1 @@ own @@ 4 :> s @@ 6 :> f
  IN  [callback |-> DOMAIN reads,
       writer   |-> 5 :> 4 @@ (IF second = "group" THEN 3 :> 2 ELSE <<>>),
       inputs   |-> [m \in MCMaterial |->
                       UNION {reads[c].inputs : c \in {c \in DOMAIN reads : MCOwner[c] = m}}],
       reads    |-> [c \in DOMAIN reads \ undeclared |-> reads[c]],
       refs     |-> [m \in MCMaterial |-> IF m = ref THEN {"a"} ELSE {}],
       varying  |-> {1} \cup varying]

FirstReads  == {Read({}), Read({G(1)})}
SecondReads == {[Read({}) EXCEPT !.own = {2}], Read({G(6)})}
SolverReads == {Drive({}, {L(6)}), Drive({G(2)}, {L(6)}), Drive({}, {L(3)}), Read({G(6)})}
FuncReads   == {Read({}), Read({G(2), L(4)}), Read({G(3)}), Read({G(1), G(5)})}

MCDecks ==
  {MCDeck(second, a1, a2, s, f, ref, varying, undeclared) :
     second \in {"group", "callback", "bare"}, a1 \in FirstReads, a2 \in SecondReads,
     s \in SolverReads, f \in FuncReads, ref \in {"none", "s", "f"},
     varying \in {{}, {2}, {3}}, undeclared \in {{}, {2}, {6}}}

MCGraphs == SUBSET (MCNode \X MCNode)

\* The materials in this order, and the other way round.
MCRankings == {<<0, 1, 1, 2, 2, 3>>, <<3, 2, 2, 1, 1, 0>>}
=============================================================================
