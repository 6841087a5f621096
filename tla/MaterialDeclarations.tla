------------------------ MODULE MaterialDeclarations ------------------------
(***************************************************************************)
(* What a material tells the engine of its callbacks, next to what the     *)
(* callbacks do.  The two are written down apart, in a constructor and in  *)
(* a member function, and nothing but the author keeps them together.      *)
(*                                                                         *)
(* A property is a pair <<material, output>>.  A declared read is a        *)
(* property and how it is reached: over a global or a local input, over a  *)
(* local input whose callback is rerun, or as an output of the material    *)
(* itself.                                                                 *)
(***************************************************************************)
EXTENDS Sequences, FiniteSets, SequencesExt

Over(S, via) == {<<p, via>> : p \in S}

Global(S) == Over(S, "global")
Local(S)  == Over(S, "local")
Drives(S) == Over(S, "driven")
Own(S)    == Over(S, "own")

(***************************************************************************)
(* A callback: the outputs it fills, what it declares to read, and the     *)
(* ways one run of it may take.  A run reads properties, reruns the        *)
(* callbacks of others, and may write outputs that are not its own, of a   *)
(* material it references or of another callback.                          *)
(*                                                                         *)
(* kept: places it takes something from that no declaration can name: a    *)
(* member, or the committed value of a history that another callback of    *)
(* the material fills.                                                     *)
(***************************************************************************)
Callback(fills, reads, runs) == [fills |-> fills, reads |-> reads, runs |-> runs, kept |-> {}]

Keeping(c, places) == [c EXCEPT !.kept = places]

Run(reads, reruns, sets) == [reads |-> reads, reruns |-> reruns, sets |-> sets]

\* Every run reads the same, and reruns nothing.
Reading(S) == {Run(S, {}, {})}

\* varying: histories and stateful() outputs.  bare: outputs no callback of the material
\* declares.  refs: materials reached by material_ref.  wires: inputs no callback declares.
Declare(n, callbacks) ==
  [name |-> n, callbacks |-> callbacks, varying |-> {}, bare |-> {}, refs |-> {}, wires |-> {}]

Varying(m, outputs) == [m EXCEPT !.varying = {m.name} \X outputs]
Bare(m, outputs) == [m EXCEPT !.bare = {m.name} \X outputs]
Referring(m, refs) == [m EXCEPT !.refs = refs]

-----------------------------------------------------------------------------
(***************************************************************************)
(* A set M of materials as property_engine::build sees it: GraphBuild's    *)
(* deck.                                                                   *)
(***************************************************************************)
Callbacks(M) == UNION {m.callbacks : m \in M}

Outputs(m) == m.bare \cup UNION {ToSet(c.fills) : c \in m.callbacks}

Nodes(M) == UNION {Outputs(m) : m \in M}

Names(M) == {m.name : m \in M}

Named(M, n) == CHOOSE m \in M : m.name = n

\* The property that carries the callback c: the first one it fills.
Carrier(c) == Head(c.fills)

BehindIt(M, p) == CHOOSE c \in Callbacks(M) : p \in ToSet(c.fills)

Wires(reads) == {[src |-> r[1], local |-> r[2] # "global"] : r \in {r \in reads : r[2] # "own"}}

Reached(reads, via) == {r \in reads : r[2] = via}

Declaration(c) ==
  [inputs |-> Wires(c.reads),
   own    |-> {r[1] : r \in Reached(c.reads, "own")},
   drives |-> Wires(Reached(c.reads, "driven"))]

DeclaredDeck(M) ==
  LET carriers == {Carrier(c) : c \in Callbacks(M)}
  IN  [callback |-> carriers,
       writer   |-> [p \in UNION {ToSet(Tail(c.fills)) : c \in Callbacks(M)} |->
                       Carrier(BehindIt(M, p))],
       inputs   |-> [n \in Names(M) |->
                       Wires(Named(M, n).wires)
                         \cup UNION {Wires(c.reads) : c \in Named(M, n).callbacks}],
       reads    |-> [p \in carriers |-> Declaration(BehindIt(M, p))],
       refs     |-> [n \in Names(M) |-> Named(M, n).refs],
       varying  |-> UNION {m.varying : m \in M}]
=============================================================================
