----------------------------- MODULE GraphBuild -----------------------------
(***************************************************************************)
(* property_engine::build: the edges drawn from what the materials of a    *)
(* deck declare, the order ExecutionOrder finds for them, and the          *)
(* constants found along that order.                                       *)
(*                                                                         *)
(* A property is a node.  It has a callback of its own, or one of its      *)
(* material's callbacks declares to fill it (an add_callback group), or it *)
(* is bare: any callback of its material may fill it, and those of the     *)
(* materials that reach it through a material_ref.                         *)
(***************************************************************************)
EXTENDS ExecutionOrder

CONSTANTS
  Material,
  Owner,         \* Owner[p]: the material of property p
  Decks          \* the declarations of all materials; see Deck

Out(m) == {p \in Node : Owner[p] = m}

\* An input: the property it is wired to, and whether over a local edge.
Wire == [src : Node, local : BOOLEAN]

(***************************************************************************)
(* d.callback : properties with a callback of their own                    *)
(* d.writer   : property without one -> the callback that fills it         *)
(* d.inputs   : material -> its inputs                                     *)
(* d.reads    : callback with declared reads -> inputs and own outputs it  *)
(*              reads, and the local inputs whose callbacks it reruns      *)
(* d.refs     : material -> the materials it reaches by material_ref       *)
(* d.varying  : history outputs and outputs declared stateful()            *)
(***************************************************************************)
Deck(d) ==
  /\ d.callback \subseteq Node /\ d.varying \subseteq Node
  /\ DOMAIN d.writer \subseteq Node \ d.callback
  /\ \A p \in DOMAIN d.writer : d.writer[p] \in d.callback /\ Owner[d.writer[p]] = Owner[p]
  /\ d.inputs \in [Material -> SUBSET Wire]
  /\ DOMAIN d.reads \subseteq d.callback
  /\ \A c \in DOMAIN d.reads :
       /\ d.reads[c].inputs \subseteq d.inputs[Owner[c]]
       /\ d.reads[c].own \subseteq
            {p \in (d.callback \ {c}) \cup DOMAIN d.writer :
               Owner[p] = Owner[c] /\ (p \in DOMAIN d.writer => d.writer[p] # c)}
       /\ d.reads[c].drives \subseteq {i \in d.reads[c].inputs : i.local}
  /\ d.refs \in [Material -> SUBSET Material]

ASSUME DeckAssumption == Owner \in [Node -> Material] /\ \A d \in Decks : Deck(d)

VARIABLES
  deck,          \* the deck; constant
  position,      \* find_constants: how much of the order it has been through
  constant,      \* m_constant
  once           \* m_once

constVars == <<position, constant, once>>
buildVars == <<deck, vars, constVars>>

-----------------------------------------------------------------------------
(***************************************************************************)
(* The edges.                                                              *)
(***************************************************************************)
\* The outputs a callback with declared reads fills.
Group(d, c) == {c} \cup {p \in DOMAIN d.writer : d.writer[p] = c}

Declared(d) == UNION {Group(d, c) : c \in DOMAIN d.reads}

\* What the callback behind p reads, as far as it says.
ReadsOf(d, p) ==
  IF p \in Declared(d)
  THEN UNION {d.reads[c].inputs : c \in {c \in DOMAIN d.reads : p \in Group(d, c)}}
  ELSE d.inputs[Owner[p]]

Global(W) == {i.src : i \in {i \in W : ~i.local}}
Sources(W) == {i.src : i \in W}

CallbacksOf(d, m) == d.callback \cap Out(m)
Bare(d, m) == Out(m) \ (d.callback \cup DOMAIN d.writer)

\* The callbacks of its material that may write p.
Writers(d, p) ==
  IF p \in DOMAIN d.writer THEN {d.writer[p]} ELSE CallbacksOf(d, Owner[p])

\* What c reads through the inputs it drives, and through its material references.  What
\* it reads of its own material it fills itself.
\* Mutant: also that.
DrivenOwn(d, c) == UNION {Global(ReadsOf(d, i.src)) : i \in d.reads[c].drives}

Driven(d, c) == (UNION {Global(ReadsOf(d, i.src)) : i \in d.reads[c].drives}) \ Out(Owner[c])
Referred(d, m) == (UNION {Global(d.inputs[t]) : t \in d.refs[m]}) \ Out(m)

\* The bare outputs of referenced materials that c fills.
Filled(d, c) == (UNION {Bare(d, t) : t \in d.refs[Owner[c]]}) \ Sources(ReadsOf(d, c))

\* Edges to p from the other properties of S.
To(S, p) == (S \ {p}) \X {p}

InputEdges(d) ==
  (UNION {To(Global(d.reads[c].inputs), c) : c \in DOMAIN d.reads})
    \cup (UNION {To(Global(d.inputs[Owner[p]]), p) : p \in Node \ Declared(d)})

\* Mutant: what a driven callback reads is left out.
NoDriveEdges(d) == {}

DriveEdges(d) == UNION {To(Driven(d, c), c) : c \in DOMAIN d.reads}

ReferenceEdges(d) ==
  UNION {To(Referred(d, Owner[c]), c) \cup ({c} \X Filled(d, c)) : c \in d.callback}

OrderEdges(d) == UNION {d.reads[c].own \X {c} : c \in DOMAIN d.reads}

WriterEdges(d) == UNION {Writers(d, p) \X {p} : p \in Node \ d.callback}

Edges(d) ==
  InputEdges(d) \cup DriveEdges(d) \cup ReferenceEdges(d) \cup OrderEdges(d) \cup WriterEdges(d)

-----------------------------------------------------------------------------
(***************************************************************************)
(* The constants.                                                          *)
(***************************************************************************)
ReadsConstant(W) == \A i \in W : ~i.local /\ i.src \in constant

\* Outputs declared by a group with nothing varying in it, their reads constant, and
\* everything behind a material_ref constant.
IsConstant(p) ==
  /\ \E c \in DOMAIN deck.reads :
       /\ p \in Group(deck, c) /\ Group(deck, c) \cap deck.varying = {}
       /\ ReadsConstant(deck.reads[c].inputs) /\ deck.reads[c].own \subseteq constant
  /\ \A t \in deck.refs[Owner[p]] : ReadsConstant(deck.inputs[t]) /\ Out(t) \subseteq constant

\* Mutant: whatever else it may write.
WritesAnything(c) == TRUE

WritesConstants(c) ==
  \A p \in Out(Owner[c]) \ deck.callback : c \in Writers(deck, p) => p \in constant

BuildInit ==
  /\ deck \in Decks
  /\ edges = Edges(deck)
  /\ Init
  /\ position = 0 /\ constant = {} /\ once = {}

Sorting ==
  /\ Next
  /\ UNCHANGED <<deck, constVars>>

\* Mutant: from the end of the order.
DecideReversed ==
  /\ phase = "done" /\ position < Len(order)
  /\ position' = position + 1
  /\ LET p == order[Len(order) - position]
     IN  constant' = IF IsConstant(p) THEN constant \cup {p} ELSE constant
  /\ UNCHANGED <<deck, vars, once>>

Decide ==
  /\ phase = "done" /\ position < Len(order)
  /\ position' = position + 1
  /\ constant' = IF IsConstant(order[position'])
                 THEN constant \cup {order[position']} ELSE constant
  /\ UNCHANGED <<deck, vars, once>>

FindOnce ==
  /\ phase = "done" /\ position = Len(order)
  /\ once' = {c \in constant \cap deck.callback : WritesConstants(c)}
  /\ UNCHANGED <<deck, vars, position, constant>>

BuildNext == Sorting \/ Decide \/ FindOnce

BuildSpec == BuildInit /\ [][BuildNext]_buildVars

-----------------------------------------------------------------------------
(***************************************************************************)
(* The inductive invariant.                                                *)
(***************************************************************************)
\* Types, and: what is constant was decided along the order, for reasons that still hold.
BuildInv ==
  /\ Deck(deck) /\ edges = Edges(deck)
  /\ position \in 0..Len(order) /\ (position > 0 => phase = "done")
  /\ constant \subseteq {order[i] : i \in 1..position}
  /\ \A p \in constant : IsConstant(p)
  /\ once \subseteq {c \in constant \cap deck.callback : WritesConstants(c)}

-----------------------------------------------------------------------------
(***************************************************************************)
(* Properties.                                                             *)
(***************************************************************************)
Precedes(p, q) == \E j \in 1..Len(order) : order[j] = q /\ \E i \in 1..(j - 1) : order[i] = p

\* Every callback that fills p.
Fillers(d, p) ==
  IF p \in d.callback THEN {p}
  ELSE Writers(d, p) \cup {c \in d.callback : p \in Filled(d, c)}

\* What the callback c reads of the current update, when it runs.
Consumed(d, c) ==
  Global(ReadsOf(d, c)) \cup Referred(d, Owner[c])
    \cup (IF c \in DOMAIN d.reads THEN d.reads[c].own \cup Driven(d, c) ELSE {})

\* Whatever a callback reads in an update, itself or through a callback it reruns, has
\* been filled in before by everything that fills it, whatever the order in which the
\* materials were created (compute_execution_order).
ReadsAreFresh ==
  phase = "done" =>
    \A c \in deck.callback : \A p \in Consumed(deck, c) :
      \A w \in Fillers(deck, p) : w = c \/ Precedes(w, c)

\* The materials m waits for: it reads them, a callback it drives or a material it
\* references reads them, or they fill its bare outputs.
WaitsFor(d, m) ==
  {Owner[p] : p \in Global(d.inputs[m]) \cup Referred(d, m)
                      \cup ((UNION {Driven(d, c) : c \in Out(m) \cap DOMAIN d.reads}) \ Out(m))}
    \cup {n \in Material : m \in d.refs[n]}

\* A deck is refused only if some of its materials wait for one another, or some
\* callbacks of one read each other's outputs; what a solver reads of itself through a
\* function it drives is no reason.
RefusesRealCycles ==
  phase = "throw" =>
    \/ \E S \in (SUBSET Material) \ {{}} : \A m \in S : WaitsFor(deck, m) \cap S # {}
    \/ \E S \in (SUBSET DOMAIN deck.reads) \ {{}} :
         \A c \in S : \E p \in deck.reads[c].own : Fillers(deck, p) \cap S # {}

(***************************************************************************)
(* What may change from one update to the next: histories, outputs with a  *)
(* state, properties nothing fills or whose callback does not say what it  *)
(* reads, and whatever is filled from any of these over any kind of input. *)
(***************************************************************************)
MayChange(d) ==
  d.varying \cup {p \in Node : Fillers(d, p) = {} \/ ~(Fillers(d, p) \subseteq DOMAIN d.reads)}

ReadBy(d, p) == UNION {d.reads[c].inputs : c \in Fillers(d, p) \cap DOMAIN d.reads}
OwnReadBy(d, p) == UNION {d.reads[c].own : c \in Fillers(d, p) \cap DOMAIN d.reads}

Influences(d, p) ==
  Sources(ReadBy(d, p)) \cup OwnReadBy(d, p)
    \cup (UNION {Out(t) \cup Sources(d.inputs[t]) : t \in d.refs[Owner[p]]})

Varying(d) ==
  {p \in Node : \A S \in SUBSET Node :
     MayChange(d) \subseteq S /\ (\A q \in Node : Influences(d, q) \cap S # {} => q \in S)
       => p \in S}

\* A callback that runs once fills nothing that may change later (find_constants).
OnceFillsConstants ==
  \A c \in once : \A p \in Node : c \in Fillers(deck, p) => p \notin Varying(deck)

(***************************************************************************)
(* What has to be recomputed: besides what may change, what no declaration *)
(* covers, shares its callback with something that varies, reads itself or  *)
(* over a local edge, or belongs to a material with references, and        *)
(* whatever reads any of these.                                            *)
(***************************************************************************)
MustVary(d) ==
  MayChange(d) \cup (Node \ Declared(d))
    \cup {p \in Node : \E c \in Fillers(d, p) : Group(d, c) \cap d.varying # {}}
    \cup {p \in Node : d.refs[Owner[p]] # {} \/ \E i \in ReadBy(d, p) : i.local \/ i.src \in Fillers(d, p)}

ClosedUnderReads(d, S) ==
  /\ MustVary(d) \subseteq S
  /\ \A p \in Node : (Sources(ReadBy(d, p)) \cup OwnReadBy(d, p)) \cap S # {} => p \in S

\* One pass along the order finds every constant: each property is decided after all it
\* reads (find_constants).
FindsAllConstants ==
  phase = "done" /\ position = Len(order) =>
    \A S \in SUBSET Node : ClosedUnderReads(deck, S) => Node \ constant \subseteq S
=============================================================================
