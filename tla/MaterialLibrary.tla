-------------------------- MODULE MaterialLibrary --------------------------
(***************************************************************************)
(* The materials of the library put together in decks, under the edges     *)
(* and the constants GraphBuild finds from their declarations.  An update  *)
(* runs the callbacks in any order the edges allow: which of them the sort *)
(* settles on depends on nothing but the order in which the materials were *)
(* created and the spelling of their keys.                                 *)
(*                                                                         *)
(* A property is "fixed" when its value cannot change any more (as long as *)
(* no parameter is set), "current" when it belongs to the present update,  *)
(* and "stale" when it was computed from a value of an earlier one.        *)
(***************************************************************************)
EXTENDS InelasticMaterials, MeanFieldMaterials, Naturals

CONSTANTS
  Decks,         \* sets of materials
  Updates        \* how many updates

\* The build of the deck M, with the properties C found constant so far.
Build(M, C) ==
  INSTANCE GraphBuild WITH
    Node <- Nodes(M), Rankings <- {}, Graphs <- {}, Decks <- {},
    Material <- Names(M), Owner <- [p \in Nodes(M) |-> p[1]],
    deck <- DeclaredDeck(M), constant <- C, position <- 0, once <- {},
    edges <- {}, created <- <<>>, phase <- "done", indegree <- <<>>, ready <- {}, order <- <<>>,
    release <- {}, mark <- <<>>, path <- <<>>, rest <- <<>>, cycle <- <<>>

ASSUME DeclarationAssumption ==
  \A M \in Decks :
    /\ \A m, o \in M : m.name = o.name => m = o
    /\ \A c, e \in Callbacks(M) : c # e => ToSet(c.fills) \cap ToSet(e.fills) = {}
    /\ Build(M, {})!Deck(DeclaredDeck(M))

VARIABLES
  deck,          \* the materials,
  before,        \* for each callback those that run before it,
  constant,      \* m_constant
  once,          \* and m_once: of the build, constant from there on
  pending,       \* callbacks that have still to run in this update
  updates,       \* updates so far
  revised,       \* m_revision is not the one of the last refresh
  value          \* of each property: "stale", "current" or "fixed"

buildVars == <<deck, before, constant, once>>
vars == <<buildVars, pending, updates, revised, value>>

-----------------------------------------------------------------------------
(***************************************************************************)
(* What the build finds.                                                   *)
(***************************************************************************)
\* What lies upstream of a property in up, and what lies upstream of that.
Further(up) == [p \in DOMAIN up |-> up[p] \cup UNION {up[q] : q \in up[p]}]

\* Everything that reaches a property over at most 32 of the edges E.
Upstream(M, E) ==
  LET near == [p \in Nodes(M) |-> {e[1] : e \in {e \in E : e[2] = p}}]
  IN  Further(Further(Further(Further(Further(near)))))

Carriers(M) == {Carrier(c) : c \in Callbacks(M)}

RunsBefore(M) ==
  LET up == Upstream(M, Build(M, {})!Edges(DeclaredDeck(M)))
  IN  [p \in Carriers(M) |-> up[p] \cap Carriers(M)]

\* find_constants: along the order, so a property after what it reads.
Constants(M) ==
  LET n == Cardinality(Nodes(M))
      found[i \in 0..n] ==
        IF i = 0 THEN {}
        ELSE LET C == found[i - 1] IN {p \in Nodes(M) : Build(M, C)!IsConstant(p)}
  IN  found[n]

OnceCallbacks(M, C) == {p \in Carriers(M) \cap C : Build(M, C)!WritesConstants(p)}

-----------------------------------------------------------------------------
(***************************************************************************)
(* A run of a callback.                                                    *)
(***************************************************************************)
CallbackAt(p) == BehindIt(deck, p)

\* Properties the callback c reaches over inputs whose source it does not rerun: what they
\* hold is of an earlier run by intent.
Previous(c) == {r[1] : r \in {r \in c.reads : r[2] \in {"local", "driven"}}}

Worst(states) == IF "stale" \in states THEN "stale" ELSE "current"

\* What c fills, and what is filled by what reads that.
FilledWith(M, c) ==
  ToSet(c.fills) \cup UNION {ToSet(e.fills) : e \in {e \in Callbacks(M) :
                               e.reads \cap Global(ToSet(c.fills)) # {}}}

\* What a callback rerun by c comes to: c is in the middle of filling its own outputs, and
\* what reads those has not run.
Rerun(c, r) ==
  Worst({value[p] : p \in (UNION {w.reads : w \in r.runs}) \ (FilledWith(deck, c) \cup Previous(r) \cup ToSet(r.fills))})

\* The value of p as the run w of c sees it.
Seen(c, w, p) ==
  IF \E q \in w.reruns : p \in ToSet(CallbackAt(q).fills)
  THEN Rerun(c, CallbackAt(CHOOSE q \in w.reruns : p \in ToSet(CallbackAt(q).fills)))
  ELSE IF p \in Previous(c) \cup ToSet(c.fills) THEN "current" ELSE value[p]

\* What the run w of c makes of the outputs: fixed only if no run could have read anything
\* that moves.
Result(c, w) ==
  IF c.kept = {} /\ \A v \in c.runs : \A p \in v.reads : Seen(c, v, p) = "fixed" THEN "fixed"
  ELSE Worst({Seen(c, w, p) : p \in w.reads})

\* What the run w of c takes over a local input as somebody else has left it: it neither
\* reruns what is behind it nor writes it.
Found(M, c, w) ==
  (w.reads \cap Previous(c)) \ (w.sets \cup UNION {ToSet(BehindIt(M, q).fills) : q \in w.reruns})

\* What it writes into outputs that are not its own: of this update only if what it found is.
Left(c, w) == Worst({Result(c, w)} \cup {value[p] : p \in Found(deck, c, w)})

-----------------------------------------------------------------------------
(***************************************************************************)
(* The updates.                                                            *)
(***************************************************************************)
\* Outputs nothing in the deck fills: the host does, before each update.
BareOutputs(M) == UNION {m.bare : m \in M}

HostFilled(M) == BareOutputs(M) \ (UNION {w.sets : w \in UNION {c.runs : c \in Callbacks(M)}})

Init ==
  \E M \in Decks :
    /\ deck = M
    /\ before = RunsBefore(M)
    /\ constant = Constants(M)
    /\ once = OnceCallbacks(M, constant)
    /\ pending = {} /\ updates = 0 /\ revised = FALSE
    /\ value = [p \in Nodes(M) |-> "stale"]

\* update(): the callbacks that run once do so in the first, and in one after a revision.
Update ==
  /\ pending = {} /\ updates < Updates
  /\ updates' = updates + 1
  /\ pending' = Carriers(deck) \ (IF updates = 0 \/ revised THEN {} ELSE once)
  /\ revised' = FALSE
  /\ value' = [p \in DOMAIN value |->
                 IF p \in HostFilled(deck) THEN "current"
                 ELSE IF value[p] = "fixed" /\ ~revised THEN "fixed" ELSE "stale"]
  /\ UNCHANGED buildVars

RunCallback(p) ==
  /\ p \in pending /\ before[p] \cap pending \subseteq {p}
  /\ pending' = pending \ {p}
  /\ LET c == CallbackAt(p)
     IN  \E w \in c.runs :
           value' = [q \in DOMAIN value |->
             IF q \in ToSet(c.fills) THEN Result(c, w)
             ELSE IF q \in w.sets THEN Left(c, w)
             ELSE IF \E r \in w.reruns : q \in ToSet(CallbackAt(r).fills) THEN Seen(c, w, q)
             ELSE value[q]]
  /\ UNCHANGED <<buildVars, updates, revised>>

Outdated(m) ==
  [p \in DOMAIN value |-> IF p \in Outputs(m) /\ value[p] = "fixed" THEN "stale" ELSE value[p]]

\* set_parameter(), of a parameter the callbacks of m read anew in each run.
SetParameter(m) ==
  /\ pending = {} /\ updates > 0 /\ updates < Updates
  /\ value' = Outdated(m)
  /\ revised' = TRUE
  /\ UNCHANGED <<buildVars, pending, updates>>

Next ==
  \/ Update
  \/ \E p \in pending : RunCallback(p)
  \/ \E m \in deck : SetParameter(m)

Spec == Init /\ [][Next]_vars

-----------------------------------------------------------------------------
(***************************************************************************)
(* Properties.                                                             *)
(***************************************************************************)
\* Between two updates, with no write of a parameter since the last.
Done == pending = {} /\ updates > 0 /\ ~revised

(***************************************************************************)
(* What the author of a material has to keep to, callback by callback.     *)
(***************************************************************************)
Fills(c) == ToSet(c.fills)
Produced(M) == UNION {Fills(c) : c \in Callbacks(M)}

ReadBy(c) == UNION {w.reads : w \in c.runs}
DeclaredBy(c) == {r[1] : r \in c.reads}
DrivenBy(c) == {r[1] : r \in Reached(c.reads, "driven")}
RerunBy(M, c) == {BehindIt(M, r) : r \in UNION {w.reruns : w \in c.runs}}

HasState(M, c) == Fills(c) \cap UNION {m.varying : m \in M} # {}

\* What c reads over global inputs or of its own material, and through what it drives.
Awaited(c) == {r[1] : r \in Reached(c.reads, "global") \cup Reached(c.reads, "own")}

AwaitedThrough(M, c) ==
  {p \in UNION {{r[1] : r \in Reached(BehindIt(M, d).reads, "global")} : d \in DrivenBy(c)} :
     p[1] # Carrier(c)[1]}

\* Every input has a source, which its own callback does not fill, and nothing waits for what
\* a solver leaves.  build() refuses the first, and the second over a global input.
Wired(M) ==
  /\ IsFiniteSet(Nodes(M))
  /\ \A c \in Callbacks(M) : DeclaredBy(c) \subseteq Nodes(M) \ Fills(c)
  /\ \A c, e \in Callbacks(M) : \A w \in e.runs : Awaited(c) \cap w.sets \cap BareOutputs(M) = {}

\* What a run reads is declared, or is the callback's own; and nothing is declared for show.
ReadsWhatItDeclares(c) == DeclaredBy(c) \subseteq ReadBy(c) /\ ReadBy(c) \subseteq DeclaredBy(c) \cup Fills(c)

\* It takes something that an earlier run left.
Keeps(c) == c.kept \cup (ReadBy(c) \cap Fills(c)) # {}

\* What it keeps is never folded: it is declared as a state, which nothing else is, or the
\* callback reads what it leaves to others to solve for.
KeptIsNotFolded(M, c) ==
  /\ HasState(M, c) => Keeps(c)
  /\ Keeps(c) => HasState(M, c) \/ Previous(c) # {}

\* Somebody fills what is awaited or driven.
AwaitsWhatIsFilled(M, c) ==
  /\ Awaited(c) \cup AwaitedThrough(M, c) \subseteq Produced(M) \cup HostFilled(M)
  /\ DrivenBy(c) \subseteq Produced(M)

\* A material that reaches another one has something to solve with it.
UsesItsReferences(M, m, c) == m.refs # {} => HasState(M, c) \/ Previous(c) # {}

\* The bare outputs that every run of c writes.
Leaves(M, c) == {p \in BareOutputs(M) : c.runs # {} /\ \A w \in c.runs : p \in w.sets}

\* What a run writes besides its own outputs are those a referenced material leaves bare, or
\* histories of its own material; the latter from what the callback that fills them leaves,
\* so that it does not matter which of the two runs last.
WritesAgree(M, m, c) ==
  \A w \in c.runs : w.sets # {} =>
    \/ m.refs # {} /\ w.sets \subseteq BareOutputs(M) /\ Found(M, c, w) = {}
    \/ \E d \in m.callbacks \ {c} :
         w.sets \subseteq Fills(d) /\ HasState(M, d) /\ Found(M, c, w) \subseteq Leaves(M, d)

\* What is rerun depends on the solve that reruns it, what it needs is awaited, and what it
\* writes besides its own outputs the solve fills afterwards.
RerunsWhatItDrives(M, c) ==
  \A e \in RerunBy(M, c) :
    /\ e \in Callbacks(M) /\ Previous(c) # {}
    /\ Previous(e) # {} \/ Awaited(e) \cap Fills(c) # {}
    /\ \A w \in e.runs : w.sets \subseteq Fills(c)
    /\ ReadBy(e) \ (FilledWith(M, c) \cup Previous(e) \cup Fills(e)) \subseteq Awaited(c) \cup AwaitedThrough(M, c)

Suffices(M) ==
  /\ IsFiniteSet(Nodes(M)) /\ Produced(M) \cap BareOutputs(M) = {}
  /\ \A m \in M : \A c \in m.callbacks :
       /\ c.fills \in Seq(Nodes(M)) \ {<<>>} /\ \A p \in Fills(c) : p[1] = m.name
       /\ c.reads \subseteq Nodes(M) \X {"global", "local", "driven", "own"}
       /\ ReadsWhatItDeclares(c) /\ KeptIsNotFolded(M, c) /\ AwaitsWhatIsFilled(M, c)
       /\ UsesItsReferences(M, m, c) /\ WritesAgree(M, m, c) /\ RerunsWhatItDrives(M, c)

\* What the materials of a deck tell the engine suffices: what a callback does that is not
\* declared, or not the way it is, is such that no order and no folding brings it out.
DeclarationsSuffice == Suffices(deck)

\* What the guide for authors asks of a callback beyond that: whatever it keeps is declared
\* as a state, and it writes its own outputs and bare ones only.
KeepsToGuide(M, c) ==
  /\ Keeps(c) => HasState(M, c)
  /\ \A w \in c.runs : w.sets \subseteq BareOutputs(M)

\* What a solver reruns for itself holds whatever its last trial or the order left there.
Scratch ==
  UNION {ToSet(CallbackAt(r).fills) :
           r \in UNION {w.reruns : w \in UNION {c.runs : c \in Callbacks(deck)}}}

Filled == (UNION {ToSet(c.fills) : c \in Callbacks(deck)}) \ Scratch

\* No deck has callbacks that wait for one another.
NothingWaitsForItself == \A p \in DOMAIN before : p \notin before[p]

\* After an update every output is of this update, or cannot change: no material reads
\* anything it has not declared to read, rerun or reach, in any order the sort may choose,
\* and no callback is skipped that has something new to say.
UpdateIsCurrent == Done => \A p \in Filled : value[p] # "stale"

\* The outputs the build finds constant are those whose value cannot change: no declaration
\* hides a state, and none is so broad that a constant part of a model runs in every update.
FoldedIsFixed == Done => \A p \in Filled : p \in constant <=> value[p] = "fixed"
=============================================================================
