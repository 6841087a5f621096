----------------------- MODULE MaterialLibraryProofs -----------------------
(***************************************************************************)
(* Where what the materials declare suffices, an update is current and     *)
(* what is folded is fixed, whatever the materials are, how often the deck *)
(* is updated and in which order its callbacks run.  What the materials of *)
(* the library declare does, in every deck that is wired, although two     *)
(* kinds of callbacks depart from the guide for authors.                   *)
(***************************************************************************)
EXTENDS MaterialLibrary, FiniteSetTheorems, SequenceTheorems, WellFoundedInduction, TLAPS

-----------------------------------------------------------------------------
(***************************************************************************)
(* A deck.                                                                 *)
(***************************************************************************)
IsDeck(M) == M \in Decks /\ Suffices(M)

LEMMA CallbackFacts ==
  ASSUME NEW M, IsDeck(M), NEW m \in M, NEW c \in m.callbacks
  PROVE  /\ c \in Callbacks(M)
         /\ c.fills \in Seq(Nodes(M)) \ {<<>>} /\ \A p \in Fills(c) : p[1] = m.name
         /\ c.reads \subseteq Nodes(M) \X {"global", "local", "driven", "own"}
         /\ ReadsWhatItDeclares(c) /\ KeptIsNotFolded(M, c) /\ AwaitsWhatIsFilled(M, c)
         /\ UsesItsReferences(M, m, c) /\ WritesAgree(M, m, c) /\ RerunsWhatItDrives(M, c)
BY DEF IsDeck, Suffices, Callbacks

LEMMA MaterialOf ==
  ASSUME NEW M, NEW c \in Callbacks(M)
  PROVE  \E m \in M : c \in m.callbacks
BY DEF Callbacks

LEMMA Disjoint ==
  ASSUME NEW M, IsDeck(M), NEW c \in Callbacks(M), NEW e \in Callbacks(M), NEW p \in Fills(c), p \in Fills(e)
  PROVE  c = e
<1>1. \A a, b \in Callbacks(M) : a # b => ToSet(a.fills) \cap ToSet(b.fills) = {}
  BY DeclarationAssumption DEF IsDeck
<1> QED
  BY <1>1 DEF Fills

LEMMA BehindFilled ==
  ASSUME NEW M, IsDeck(M), NEW c \in Callbacks(M), NEW p \in Fills(c)
  PROVE  BehindIt(M, p) = c
<1>1. \E b \in Callbacks(M) : p \in ToSet(b.fills)
  BY DEF Fills
<1>2. BehindIt(M, p) \in Callbacks(M) /\ p \in Fills(BehindIt(M, p))
  BY <1>1 DEF BehindIt, Fills
<1> QED
  BY <1>2, Disjoint

LEMMA CarrierFacts ==
  ASSUME NEW M, IsDeck(M), NEW c \in Callbacks(M)
  PROVE  /\ Fills(c) \subseteq Nodes(M)
         /\ Carrier(c) \in Fills(c) /\ Carrier(c) \in Carriers(M) /\ Carrier(c) \in Nodes(M)
         /\ BehindIt(M, Carrier(c)) = c
         /\ \A p \in Fills(c) : p = Carrier(c) \/ p \in ToSet(Tail(c.fills))
         /\ ToSet(Tail(c.fills)) \subseteq Fills(c)
<1>1. PICK m \in M : c \in m.callbacks
  BY MaterialOf
<1>2. c.fills \in Seq(Nodes(M)) /\ c.fills # <<>>
  BY <1>1, CallbackFacts
<1>3. Fills(c) = {c.fills[i] : i \in 1 .. Len(c.fills)} /\ Carrier(c) = c.fills[1] /\ 1 \in 1 .. Len(c.fills)
  BY <1>2 DEF Fills, ToSet, Carrier
<1>4. ToSet(Tail(c.fills)) = {c.fills[i + 1] : i \in 1 .. Len(c.fills) - 1}
  <2>1. DOMAIN Tail(c.fills) = 1 .. Len(c.fills) - 1
    BY <1>2
  <2>2. \A i \in 1 .. Len(c.fills) - 1 : Tail(c.fills)[i] = c.fills[i + 1]
    BY <1>2
  <2> QED
    BY <2>1, <2>2 DEF ToSet
<1>5. Fills(c) \subseteq Nodes(M) /\ Carrier(c) \in Fills(c)
  BY <1>2, <1>3
<1>6. \A p \in Fills(c) : p = Carrier(c) \/ p \in ToSet(Tail(c.fills))
  <2>1. ASSUME NEW i \in 1 .. Len(c.fills), i # 1
        PROVE  c.fills[i] \in ToSet(Tail(c.fills))
    <3>1. i - 1 \in 1 .. Len(c.fills) - 1 /\ (i - 1) + 1 = i
      BY <1>2, <2>1
    <3> QED
      BY <1>4, <3>1
  <2> QED
    BY <1>3, <2>1
<1>7. ToSet(Tail(c.fills)) \subseteq Fills(c)
  <2>1. ASSUME NEW i \in 1 .. Len(c.fills) - 1
        PROVE  c.fills[i + 1] \in Fills(c)
    <3>1. i + 1 \in 1 .. Len(c.fills)
      BY <1>2
    <3> QED
      BY <1>3, <3>1
  <2> QED
    BY <1>4, <2>1
<1> QED
  BY <1>5, <1>6, <1>7, BehindFilled DEF Carriers

-----------------------------------------------------------------------------
(***************************************************************************)
(* The edges of the deck, and what runs before a callback.                 *)
(***************************************************************************)
D(M) == DeclaredDeck(M)

LEMMA DeckFields ==
  ASSUME NEW M, IsDeck(M), NEW c \in Callbacks(M)
  PROVE  /\ D(M).callback = Carriers(M)
         /\ DOMAIN D(M).reads = Carriers(M) /\ D(M).reads[Carrier(c)] = Declaration(c)
         /\ \A p \in ToSet(Tail(c.fills)) : p \in DOMAIN D(M).writer /\ D(M).writer[p] = Carrier(c)
         /\ Build(M, {})!Deck(D(M))
<1>1. D(M).callback = Carriers(M)
  BY DEF D, DeclaredDeck, Carriers
<1>2. D(M).reads = [p \in Carriers(M) |-> Declaration(BehindIt(M, p))]
  BY DEF D, DeclaredDeck, Carriers
<1>3. D(M).writer = [p \in UNION {ToSet(Tail(e.fills)) : e \in Callbacks(M)} |-> Carrier(BehindIt(M, p))]
  BY DEF D, DeclaredDeck
<1>4. \A p \in ToSet(Tail(c.fills)) : p \in DOMAIN D(M).writer /\ D(M).writer[p] = Carrier(c)
  BY <1>3, CarrierFacts, BehindFilled
<1>5. Build(M, {})!Deck(D(M))
  BY DeclarationAssumption DEF IsDeck, D
<1> QED
  BY <1>1, <1>2, <1>4, <1>5, CarrierFacts

LEMMA DeclarationOf ==
  ASSUME NEW M, IsDeck(M), NEW c \in Callbacks(M)
  PROVE  /\ D(M).reads[Carrier(c)].inputs = Wires(c.reads)
         /\ D(M).reads[Carrier(c)].own = {r[1] : r \in Reached(c.reads, "own")}
         /\ D(M).reads[Carrier(c)].drives = Wires(Reached(c.reads, "driven"))
<1>1. D(M).reads[Carrier(c)] = Declaration(c)
  BY DeckFields
<1> QED
  BY <1>1 DEF Declaration

\* What c fills is its group.
LEMMA GroupIsFills ==
  ASSUME NEW M, IsDeck(M), NEW c \in Callbacks(M), NEW C
  PROVE  Build(M, C)!Group(D(M), Carrier(c)) = Fills(c)
<1>1. Build(M, C)!Group(D(M), Carrier(c)) = {Carrier(c)} \cup {p \in DOMAIN D(M).writer : D(M).writer[p] = Carrier(c)}
  BY DEF Build!Group
<1>2. ASSUME NEW p \in DOMAIN D(M).writer, D(M).writer[p] = Carrier(c)
      PROVE  p \in Fills(c)
  <2>1. p \in UNION {ToSet(Tail(e.fills)) : e \in Callbacks(M)}
    BY <1>2 DEF D, DeclaredDeck
  <2>2. PICK e \in Callbacks(M) : p \in ToSet(Tail(e.fills))
    BY <2>1
  <2>3. D(M).writer[p] = Carrier(e) /\ p \in Fills(e)
    BY <2>2, DeckFields, CarrierFacts
  <2>4. e = c
    BY <1>2, <2>3, CarrierFacts, Disjoint
  <2> QED
    BY <2>3, <2>4
<1>3. ASSUME NEW p \in Fills(c), p # Carrier(c)
      PROVE  p \in DOMAIN D(M).writer /\ D(M).writer[p] = Carrier(c)
  BY <1>3, CarrierFacts, DeckFields
<1> QED
  BY <1>1, <1>2, <1>3, CarrierFacts

E(M) == Build(M, {})!Edges(D(M))

LEMMA FillerEdge ==
  ASSUME NEW M, IsDeck(M), NEW e \in Callbacks(M), NEW x \in Fills(e), x # Carrier(e)
  PROVE  <<Carrier(e), x>> \in E(M)
<1>1. x \in DOMAIN D(M).writer /\ D(M).writer[x] = Carrier(e) /\ x \in Nodes(M)
  BY CarrierFacts, DeckFields
<1>2. x \notin D(M).callback
  BY <1>1, DeckFields DEF Build!Deck
<1>3. Build(M, {})!Writers(D(M), x) = {Carrier(e)}
  BY <1>1 DEF Build!Writers
<1>4. <<Carrier(e), x>> \in Build(M, {})!Writers(D(M), x) \X {x}
  BY <1>3
<1>5. <<Carrier(e), x>> \in Build(M, {})!WriterEdges(D(M))
  BY <1>1, <1>2, <1>4 DEF Build!WriterEdges
<1> QED
  BY <1>5 DEF E, Build!Edges

LEMMA WiresOf ==
  ASSUME NEW R, NEW r \in R, r[2] # "own"
  PROVE  [src |-> r[1], local |-> r[2] # "global"] \in Wires(R)
BY DEF Wires

LEMMA GlobalRead ==
  ASSUME NEW M, IsDeck(M), NEW c \in Callbacks(M), NEW r \in c.reads, r[2] = "global"
  PROVE  r[1] \in Build(M, {})!Global(D(M).reads[Carrier(c)].inputs)
<1>1. D(M).reads[Carrier(c)].inputs = Wires(c.reads)
  BY DeclarationOf
<1>2. [src |-> r[1], local |-> FALSE] \in Wires(c.reads)
  BY WiresOf
<1>3. \E i \in Wires(c.reads) : ~i.local /\ i.src = r[1]
  BY <1>2
<1> QED
  BY <1>1, <1>3 DEF Build!Global

LEMMA AwaitedEdge ==
  ASSUME NEW M, IsDeck(M), NEW c \in Callbacks(M), NEW x \in Awaited(c), x \notin Fills(c)
  PROVE  <<x, Carrier(c)>> \in E(M)
<1>1. PICK r \in c.reads : r[1] = x /\ r[2] \in {"global", "own"}
  BY DEF Awaited, Reached
<1>2. x # Carrier(c) /\ Carrier(c) \in DOMAIN D(M).reads
  BY CarrierFacts, DeckFields
<1>3. CASE r[2] = "global"
  <2>1. x \in Build(M, {})!Global(D(M).reads[Carrier(c)].inputs)
    BY <1>1, <1>3, GlobalRead
  <2>2. <<x, Carrier(c)>> \in Build(M, {})!To(Build(M, {})!Global(D(M).reads[Carrier(c)].inputs), Carrier(c))
    BY <1>2, <2>1 DEF Build!To
  <2>3. <<x, Carrier(c)>> \in Build(M, {})!InputEdges(D(M))
    BY <1>2, <2>2 DEF Build!InputEdges
  <2> QED
    BY <2>3 DEF E, Build!Edges
<1>4. CASE r[2] = "own"
  <2>1. x \in D(M).reads[Carrier(c)].own
    BY <1>1, <1>4, DeclarationOf DEF Reached
  <2>2. <<x, Carrier(c)>> \in Build(M, {})!OrderEdges(D(M))
    BY <1>2, <2>1 DEF Build!OrderEdges
  <2> QED
    BY <2>2 DEF E, Build!Edges
<1> QED
  BY <1>1, <1>3, <1>4

LEMMA AwaitedThroughEdge ==
  ASSUME NEW M, IsDeck(M), NEW c \in Callbacks(M), NEW x \in AwaitedThrough(M, c), x \notin Fills(c),
         x \in Nodes(M)
  PROVE  <<x, Carrier(c)>> \in E(M)
<1>1. PICK d \in DrivenBy(c) : x \in {r[1] : r \in Reached(BehindIt(M, d).reads, "global")}
  BY DEF AwaitedThrough
<1>2. x[1] # Carrier(c)[1] /\ x # Carrier(c) /\ Carrier(c) \in DOMAIN D(M).reads
  BY CarrierFacts, DeckFields DEF AwaitedThrough
<1>3. PICK e \in Callbacks(M) : d \in Fills(e)
  <2>1. d \in Produced(M)
    BY <1>1, MaterialOf, CallbackFacts DEF AwaitsWhatIsFilled
  <2> QED
    BY <2>1 DEF Produced
<1>4. x \in Build(M, {})!Global(D(M).reads[Carrier(e)].inputs)
  <2>1. BehindIt(M, d) = e
    BY <1>3, BehindFilled
  <2>2. PICK r \in e.reads : r[1] = x /\ r[2] = "global"
    BY <1>1, <2>1 DEF Reached
  <2> QED
    BY <2>2, GlobalRead
<1>5. x \in Build(M, {})!Global(Build(M, {})!ReadsOf(D(M), d))
  <2>1. Carrier(e) \in DOMAIN D(M).reads /\ d \in Build(M, {})!Group(D(M), Carrier(e))
    BY <1>3, GroupIsFills, DeckFields, CarrierFacts
  <2>2. d \in Build(M, {})!Declared(D(M))
    BY <2>1 DEF Build!Declared
  <2>3. D(M).reads[Carrier(e)].inputs \subseteq Build(M, {})!ReadsOf(D(M), d)
    BY <2>1, <2>2 DEF Build!ReadsOf
  <2> QED
    BY <1>4, <2>3 DEF Build!Global
<1>6. PICK i \in D(M).reads[Carrier(c)].drives : i.src = d
  <2>1. PICK r \in Reached(c.reads, "driven") : r[1] = d
    BY <1>1 DEF DrivenBy
  <2>2. D(M).reads[Carrier(c)].drives = Wires(Reached(c.reads, "driven"))
    BY DeclarationOf
  <2>3. [src |-> r[1], local |-> r[2] # "global"] \in Wires(Reached(c.reads, "driven"))
    BY <2>1, WiresOf DEF Reached
  <2> QED
    BY <2>1, <2>2, <2>3
<1>7. x \in Build(M, {})!Driven(D(M), Carrier(c))
  <2>1. x \notin Build(M, {})!Out(Carrier(c)[1])
    BY <1>2 DEF Build!Out
  <2>2. [p \in Nodes(M) |-> p[1]][Carrier(c)] = Carrier(c)[1]
    BY CarrierFacts
  <2> QED
    BY <1>5, <1>6, <2>1, <2>2 DEF Build!Driven
<1>8. <<x, Carrier(c)>> \in Build(M, {})!To(Build(M, {})!Driven(D(M), Carrier(c)), Carrier(c))
  BY <1>2, <1>7 DEF Build!To
<1>9. <<x, Carrier(c)>> \in Build(M, {})!DriveEdges(D(M))
  BY <1>2, <1>8 DEF Build!DriveEdges
<1> QED
  BY <1>9 DEF E, Build!Edges

LEMMA FurtherFacts ==
  ASSUME NEW up, NEW p \in DOMAIN up
  PROVE  /\ DOMAIN Further(up) = DOMAIN up
         /\ up[p] \subseteq Further(up)[p]
         /\ \A q \in up[p] : up[q] \subseteq Further(up)[p]
BY DEF Further

LEMMA UpstreamFacts ==
  ASSUME NEW M, NEW p \in Nodes(M), NEW x \in Nodes(M), NEW q \in Nodes(M), NEW R
  PROVE  /\ <<q, p>> \in R => q \in Upstream(M, R)[p]
         /\ <<q, x>> \in R /\ <<x, p>> \in R => q \in Upstream(M, R)[p]
<1> DEFINE near == [n \in Nodes(M) |-> {e[1] : e \in {e \in R : e[2] = n}}]
           u1 == Further(near)  u2 == Further(u1)  u3 == Further(u2)  u4 == Further(u3)  u5 == Further(u4)
<1>1. Upstream(M, R) = u5
  BY DEF Upstream
<1>2. DOMAIN near = Nodes(M) /\ near[p] \subseteq u1[p] /\ DOMAIN u1 = Nodes(M)
      /\ \A y \in near[p] : near[y] \subseteq u1[p]
  BY FurtherFacts
<1>3. /\ <<q, p>> \in R => q \in near[p]
      /\ <<x, p>> \in R => x \in near[p]
      /\ <<q, x>> \in R => q \in near[x]
  <2>1. ASSUME NEW y \in Nodes(M), NEW n \in Nodes(M), <<y, n>> \in R PROVE y \in near[n]
    <3>1. <<y, n>>[1] = y /\ <<y, n>>[2] = n
      OBVIOUS
    <3> QED
      BY <2>1, <3>1
  <2> QED
    BY <2>1
<1> HIDE DEF near, u1
<1>4. u1[p] \subseteq u2[p] /\ DOMAIN u2 = Nodes(M)
  BY <1>2, FurtherFacts
<1> HIDE DEF u2
<1>5. u2[p] \subseteq u3[p] /\ DOMAIN u3 = Nodes(M)
  BY <1>4, FurtherFacts
<1> HIDE DEF u3
<1>6. u3[p] \subseteq u4[p] /\ DOMAIN u4 = Nodes(M)
  BY <1>5, FurtherFacts
<1> HIDE DEF u4
<1>7. u4[p] \subseteq u5[p]
  BY <1>6, FurtherFacts
<1> HIDE DEF u5
<1> QED
  BY <1>1, <1>2, <1>3, <1>4, <1>5, <1>6, <1>7

\* Whatever fills what c awaits runs before it.
LEMMA FillersRunBefore ==
  ASSUME NEW M, IsDeck(M), NEW c \in Callbacks(M), NEW e \in Callbacks(M),
         NEW x \in Fills(e), x \in Awaited(c) \cup AwaitedThrough(M, c), x \notin Fills(c)
  PROVE  Carrier(e) \in RunsBefore(M)[Carrier(c)]
<1>1. x \in Nodes(M) /\ Carrier(e) \in Nodes(M) /\ Carrier(c) \in Nodes(M)
  BY CarrierFacts
<1>2. <<x, Carrier(c)>> \in E(M)
  BY <1>1, AwaitedEdge, AwaitedThroughEdge
<1>3. x = Carrier(e) \/ <<Carrier(e), x>> \in E(M)
  BY FillerEdge
<1>4. Carrier(e) \in Upstream(M, E(M))[Carrier(c)]
  BY <1>1, <1>2, <1>3, UpstreamFacts
<1> QED
  BY <1>4, CarrierFacts DEF RunsBefore, E, D

-----------------------------------------------------------------------------
(***************************************************************************)
(* The constants.                                                          *)
(***************************************************************************)
\* A callback whose outputs are constant where the properties of C are.
CanFold(M, c, C) == ~HasState(M, c) /\ Previous(c) = {} /\ Awaited(c) \subseteq C

Folds(M, C) == UNION {Fills(c) : c \in {c \in Callbacks(M) : CanFold(M, c, C)}}

LEMMA ReadsOfKinds ==
  ASSUME NEW M, IsDeck(M), NEW c \in Callbacks(M), NEW r \in c.reads
  PROVE  /\ r[1] \in DeclaredBy(c) /\ r[1] \in Nodes(M)
         /\ \/ r[2] \in {"global", "own"} /\ r[1] \in Awaited(c)
            \/ r[2] \in {"local", "driven"} /\ r[1] \in Previous(c)
<1>1. PICK m \in M : c \in m.callbacks
  BY MaterialOf
<1>2. r \in Nodes(M) \X {"global", "local", "driven", "own"}
  BY <1>1, CallbackFacts
<1>3. r[1] \in Nodes(M) /\ r[2] \in {"global", "local", "driven", "own"}
  BY <1>2
<1>4. r[1] \in DeclaredBy(c)
  BY DEF DeclaredBy
<1>5. r[2] \in {"global", "own"} => r[1] \in Awaited(c)
  <2>1. r[2] \in {"global", "own"} => r \in Reached(c.reads, "global") \cup Reached(c.reads, "own")
    BY DEF Reached
  <2> QED
    BY <2>1 DEF Awaited
<1>6. r[2] \in {"local", "driven"} => r[1] \in Previous(c)
  BY DEF Previous
<1> QED
  BY <1>3, <1>4, <1>5, <1>6

LEMMA NamedIs ==
  ASSUME NEW M, IsDeck(M), NEW m \in M
  PROVE  Named(M, m.name) = m
<1>1. \A a, b \in M : a.name = b.name => a = b
  BY DeclarationAssumption DEF IsDeck
<1> QED
  BY <1>1 DEF Named

LEMMA ReadsConstantIs ==
  ASSUME NEW M, IsDeck(M), NEW c \in Callbacks(M), NEW C
  PROVE  Build(M, C)!ReadsConstant(Wires(c.reads)) /\ {r[1] : r \in Reached(c.reads, "own")} \subseteq C
           <=> Previous(c) = {} /\ Awaited(c) \subseteq C
<1>1. ASSUME Build(M, C)!ReadsConstant(Wires(c.reads)), {r[1] : r \in Reached(c.reads, "own")} \subseteq C
      PROVE  Previous(c) = {} /\ Awaited(c) \subseteq C
  <2>1. ASSUME NEW r \in c.reads, r[2] # "own"
        PROVE  r[2] = "global" /\ r[1] \in C
    <3> DEFINE i == [src |-> r[1], local |-> r[2] # "global"]
    <3>1. i \in Wires(c.reads)
      BY <2>1, WiresOf
    <3>2. ~i.local /\ i.src \in C
      BY <1>1, <3>1 DEF Build!ReadsConstant
    <3> QED
      BY <3>2
  <2>2. Previous(c) = {}
    BY <2>1 DEF Previous
  <2>3. Awaited(c) \subseteq C
    BY <1>1, <2>1 DEF Awaited, Reached
  <2> QED
    BY <2>2, <2>3
<1>2. ASSUME Previous(c) = {}, Awaited(c) \subseteq C
      PROVE  Build(M, C)!ReadsConstant(Wires(c.reads)) /\ {r[1] : r \in Reached(c.reads, "own")} \subseteq C
  <2>1. ASSUME NEW i \in Wires(c.reads)
        PROVE  ~i.local /\ i.src \in C
    <3>1. PICK r \in c.reads : r[2] # "own" /\ i = [src |-> r[1], local |-> r[2] # "global"]
      BY DEF Wires
    <3>2. r[2] = "global" /\ r[1] \in Awaited(c)
      BY <1>2, <3>1, ReadsOfKinds
    <3> QED
      BY <1>2, <3>1, <3>2
  <2>2. {r[1] : r \in Reached(c.reads, "own")} \subseteq Awaited(c)
    BY DEF Awaited
  <2> QED
    BY <1>2, <2>1, <2>2 DEF Build!ReadsConstant
<1> QED
  BY <1>1, <1>2

\* find_constants takes what its callback can fold.
LEMMA IsConstantIs ==
  ASSUME NEW M, IsDeck(M), NEW p \in Nodes(M), NEW C
  PROVE  Build(M, C)!IsConstant(p) <=> p \in Folds(M, C)
<1>1. ASSUME Build(M, C)!IsConstant(p) PROVE p \in Folds(M, C)
  <2>1. PICK k \in DOMAIN D(M).reads :
          /\ p \in Build(M, C)!Group(D(M), k) /\ Build(M, C)!Group(D(M), k) \cap D(M).varying = {}
          /\ Build(M, C)!ReadsConstant(D(M).reads[k].inputs) /\ D(M).reads[k].own \subseteq C
    BY <1>1 DEF Build!IsConstant, D
  <2>2. PICK c \in Callbacks(M) : k = Carrier(c)
    <3>1. DOMAIN D(M).reads = {Carrier(c) : c \in Callbacks(M)}
      BY DEF D, DeclaredDeck
    <3> QED
      BY <2>1, <3>1
  <2>3. p \in Fills(c) /\ Fills(c) \cap D(M).varying = {}
    BY <2>1, <2>2, GroupIsFills
  <2>4. ~HasState(M, c)
    BY <2>3 DEF HasState, D, DeclaredDeck
  <2>5. Previous(c) = {} /\ Awaited(c) \subseteq C
    <3>1. D(M).reads[k].inputs = Wires(c.reads) /\ D(M).reads[k].own = {r[1] : r \in Reached(c.reads, "own")}
      BY <2>2, DeclarationOf
    <3> QED
      BY <2>1, <3>1, ReadsConstantIs
  <2> QED
    BY <2>3, <2>4, <2>5 DEF Folds, CanFold
<1>2. ASSUME p \in Folds(M, C) PROVE Build(M, C)!IsConstant(p)
  <2>1. PICK c \in Callbacks(M) : p \in Fills(c) /\ CanFold(M, c, C)
    BY <1>2 DEF Folds
  <2>2. PICK m \in M : c \in m.callbacks
    BY MaterialOf
  <2>3. Carrier(c) \in DOMAIN D(M).reads /\ p \in Build(M, C)!Group(D(M), Carrier(c))
    BY <2>1, GroupIsFills, DeckFields, CarrierFacts
  <2>4. Build(M, C)!Group(D(M), Carrier(c)) \cap D(M).varying = {}
    BY <2>1, GroupIsFills DEF CanFold, HasState, D, DeclaredDeck
  <2>5. Build(M, C)!ReadsConstant(D(M).reads[Carrier(c)].inputs) /\ D(M).reads[Carrier(c)].own \subseteq C
    BY <2>1, DeclarationOf, ReadsConstantIs DEF CanFold
  <2>6. D(M).refs[[q \in Nodes(M) |-> q[1]][p]] = {}
    <3>1. m.refs = {}
      BY <2>1, <2>2, CallbackFacts DEF UsesItsReferences, CanFold
    <3>2. p[1] = m.name
      BY <2>1, <2>2, CallbackFacts
    <3>3. D(M).refs[m.name] = Named(M, m.name).refs
      BY <2>2 DEF D, DeclaredDeck, Names
    <3> QED
      BY <2>2, <3>1, <3>2, <3>3, NamedIs
  <2> QED
    BY <2>3, <2>4, <2>5, <2>6 DEF Build!IsConstant, D
<1> QED
  BY <1>1, <1>2

LEMMA FoldsFacts ==
  ASSUME NEW M, IsDeck(M), NEW C, NEW B
  PROVE  /\ Folds(M, C) \subseteq Nodes(M)
         /\ C \subseteq B => Folds(M, C) \subseteq Folds(M, B)
         /\ {p \in Nodes(M) : Build(M, C)!IsConstant(p)} = Folds(M, C)
<1>1. Folds(M, C) \subseteq Nodes(M)
  BY CarrierFacts DEF Folds
<1>2. C \subseteq B => Folds(M, C) \subseteq Folds(M, B)
  BY DEF Folds, CanFold
<1> QED
  BY <1>1, <1>2, IsConstantIs

LEMMA UpTo ==
  ASSUME NEW n \in Nat, NEW T, 0 \in T, \A i \in 0 .. n : i # n /\ i \in T => i + 1 \in T
  PROVE  \A i \in 0 .. n : i \in T
<1> DEFINE Bad == {i \in 0 .. n : i \notin T}
<1>1. SUFFICES ASSUME Bad # {} PROVE FALSE
  OBVIOUS
<1>2. Bad \subseteq Nat
  OBVIOUS
<1>3. PICK m \in Bad : \A y \in Bad : ~(<<y, m>> \in OpToRel(<, Nat))
  BY <1>1, <1>2, NatLessThanWellFounded, WFMin
<1>4. m # 0 /\ m \in 0 .. n /\ m \notin T
  OBVIOUS
<1>5. m - 1 \in 0 .. n /\ m - 1 # n /\ (m - 1) + 1 = m /\ m - 1 < m
  BY <1>4
<1>6. m - 1 \notin Bad
  <2>1. <<m - 1, m>> \in OpToRel(<, Nat)
    BY <1>4, <1>5 DEF OpToRel
  <2> QED
    BY <1>3, <2>1
<1> QED
  BY <1>4, <1>5, <1>6

\* f follows G from z.
Follows(f, n, z, G) == f[0] = z /\ \A i \in 1 .. n : f[i] = G[f[i - 1]]

LEMMA Iterates ==
  ASSUME NEW n \in Nat, NEW S, NEW z \in S, NEW G \in [S -> S]
  PROVE  \E f \in [0 .. n -> S] : Follows(f, n, z, G)
<1> DEFINE T == {m \in 0 .. n : \E f \in [0 .. m -> S] : Follows(f, m, z, G)}
<1>1. \E f \in [0 .. 0 -> S] : Follows(f, 0, z, G)
  <2> DEFINE f == [i \in 0 .. 0 |-> z]
  <2>1. f \in [0 .. 0 -> S] /\ Follows(f, 0, z, G)
    BY DEF Follows
  <2> QED
    BY <2>1
<1>2. ASSUME NEW m \in 0 .. n, m # n, NEW f \in [0 .. m -> S], Follows(f, m, z, G)
      PROVE  \E h \in [0 .. m + 1 -> S] : Follows(h, m + 1, z, G)
  <2> DEFINE h == [i \in 0 .. m + 1 |-> IF i = m + 1 THEN G[f[m]] ELSE f[i]]
  <2>1. m \in Nat /\ m + 1 \in 1 .. n /\ f[m] \in S /\ 0 \in 0 .. m
    BY <1>2
  <2>2. h \in [0 .. m + 1 -> S]
    BY <2>1
  <2>3. h[0] = z
    BY <1>2, <2>1 DEF Follows
  <2>4. ASSUME NEW i \in 1 .. m + 1 PROVE h[i] = G[h[i - 1]]
    <3>1. CASE i = m + 1
      <4>1. h[i] = G[f[m]] /\ h[i - 1] = f[m]
        BY <2>1, <3>1
      <4> QED
        BY <4>1
    <3>2. CASE i \in 1 .. m
      <4>1. h[i] = f[i] /\ h[i - 1] = f[i - 1]
        BY <2>1, <3>2
      <4> QED
        BY <1>2, <3>2, <4>1 DEF Follows
    <3> QED
      BY <2>1, <3>1, <3>2
  <2> HIDE DEF h
  <2> QED
    BY <2>2, <2>3, <2>4 DEF Follows
<1> HIDE DEF T
<1>3. 0 \in T /\ \A m \in 0 .. n : m # n /\ m \in T => m + 1 \in T
  BY <1>1, <1>2 DEF T
<1>4. n \in T
  BY <1>3, UpTo
<1> QED
  BY <1>4 DEF T

\* The constants found are all there are: as often as there are properties is often enough.
LEMMA ConstantsAreFolded ==
  ASSUME NEW M, IsDeck(M)
  PROVE  Constants(M) = Folds(M, Constants(M))
<1> DEFINE n == Cardinality(Nodes(M))
           S == SUBSET Nodes(M)
           G == [C \in S |-> Folds(M, C)]
           found[i \in 0 .. n] ==
             IF i = 0 THEN {} ELSE LET C == found[i - 1] IN {p \in Nodes(M) : Build(M, C)!IsConstant(p)}
<1>1. IsFiniteSet(Nodes(M)) /\ n \in Nat /\ n = Cardinality(Nodes(M))
  BY FS_CardinalityType DEF IsDeck, Suffices
<1>2. Constants(M) = found[n]
  BY DEF Constants
<1>3. PICK f \in [0 .. n -> S] : Follows(f, n, {}, G)
  <2>1. G \in [S -> S] /\ {} \in S
    BY FoldsFacts
  <2> HIDE DEF G, S, n
  <2> QED
    BY <1>1, <2>1, Iterates
<1>4. ASSUME NEW i \in 1 .. n PROVE f[i] = Folds(M, f[i - 1])
  <2>1. i - 1 \in 0 .. n
    BY <1>1
  <2> QED
    BY <1>3, <2>1 DEF Follows
<1>5. f = [i \in 0 .. n |->
             IF i = 0 THEN {} ELSE LET C == f[i - 1] IN {p \in Nodes(M) : Build(M, C)!IsConstant(p)}]
  <2>1. ASSUME NEW i \in 0 .. n
        PROVE  f[i] = IF i = 0 THEN {} ELSE LET C == f[i - 1] IN {p \in Nodes(M) : Build(M, C)!IsConstant(p)}
    <3>1. CASE i = 0
      BY <1>3, <3>1 DEF Follows
    <3>2. CASE i # 0
      <4>1. f[i] = Folds(M, f[i - 1])
        BY <1>1, <1>4, <3>2
      <4> QED
        BY <3>2, <4>1, FoldsFacts
    <3> QED
      BY <3>1, <3>2
  <2> QED
    BY <2>1
<1>6. found = [i \in 0 .. n |->
             IF i = 0 THEN {} ELSE LET C == found[i - 1] IN {p \in Nodes(M) : Build(M, C)!IsConstant(p)}]
  BY <1>5
<1> HIDE DEF found, n, S, G
<1>7. found[0] = {} /\ \A i \in 1 .. n : found[i] = Folds(M, found[i - 1])
  <2>1. ASSUME NEW i \in 1 .. n PROVE found[i] = Folds(M, found[i - 1])
    <3>1. i \in 0 .. n /\ i # 0
      BY <1>1
    <3>2. found[i] = {p \in Nodes(M) : Build(M, found[i - 1])!IsConstant(p)}
      BY <1>6, <3>1
    <3> QED
      BY <3>2, FoldsFacts
  <2>2. 0 \in 0 .. n
    BY <1>1
  <2>3. found[0] = {}
    BY <1>6, <2>2
  <2> QED
    BY <2>1, <2>3
<1> DEFINE T == {i \in 0 .. n : /\ found[i] \subseteq Nodes(M) /\ found[i] \subseteq Folds(M, found[i])
                                /\ found[i] = Folds(M, found[i]) \/ Cardinality(found[i]) >= i}
<1>8. 0 \in T
  <2>1. found[0] = {} /\ 0 \in 0 .. n
    BY <1>1, <1>7
  <2>2. Cardinality(found[0]) >= 0
    BY <2>1, FS_EmptySet
  <2> QED
    BY <2>1, <2>2
<1>9. ASSUME NEW i \in 0 .. n, i # n, i \in T PROVE i + 1 \in T
  <2>1. i + 1 \in 1 .. n /\ found[i + 1] = Folds(M, found[i])
    <3>1. i + 1 \in 1 .. n /\ (i + 1) - 1 = i
      BY <1>1, <1>9
    <3> QED
      BY <1>7, <3>1
  <2> DEFINE a == found[i]
             b == found[i + 1]
  <2>2. a \subseteq b /\ a \subseteq Nodes(M) /\ b \subseteq Nodes(M) /\ b \subseteq Folds(M, b)
    BY <1>9, <2>1, FoldsFacts
  <2>3. CASE a = Folds(M, a)
    BY <2>1, <2>2, <2>3
  <2>4. CASE a # Folds(M, a)
    <3>1. Cardinality(a) >= i /\ a # b
      BY <1>9, <2>1, <2>4
    <3>2. IsFiniteSet(b) /\ IsFiniteSet(a)
      BY <1>1, <2>2, FS_Subset
    <3>3. Cardinality(a) < Cardinality(b) /\ Cardinality(a) \in Nat /\ Cardinality(b) \in Nat
      BY <2>2, <3>1, <3>2, FS_Subset, FS_CardinalityType
    <3>4. Cardinality(b) >= i + 1
      BY <3>1, <3>3
    <3> QED
      BY <2>1, <2>2, <3>4
  <2> QED
    BY <2>3, <2>4
<1>10. n \in T
  <2> HIDE DEF T
  <2>1. \A i \in 0 .. n : i # n /\ i \in T => i + 1 \in T
    BY <1>9
  <2>2. \A i \in 0 .. n : i \in T
    BY <1>1, <1>8, <2>1, UpTo
  <2> QED
    BY <1>1, <2>2
<1>11. found[n] = Folds(M, found[n])
  <2>1. CASE Cardinality(found[n]) >= n
    <3>1. found[n] \subseteq Nodes(M) /\ found[n] \subseteq Folds(M, found[n])
      BY <1>10
    <3>2. found[n] = Nodes(M)
      <4>1. Cardinality(found[n]) <= n /\ Cardinality(found[n]) \in Nat
        BY <1>1, <3>1, FS_Subset, FS_CardinalityType
      <4>2. Cardinality(found[n]) = Cardinality(Nodes(M))
        BY <1>1, <2>1, <4>1
      <4> QED
        BY <1>1, <3>1, <4>2, FS_Subset
    <3> QED
      BY <3>1, <3>2, FoldsFacts
  <2> QED
    BY <1>10, <2>1
<1> QED
  BY <1>2, <1>11

-----------------------------------------------------------------------------
(***************************************************************************)
(* The invariant.                                                          *)
(***************************************************************************)
\* What fills what a callback awaits runs before it.
Sorted ==
  \A c, e \in Callbacks(deck) : \A x \in Fills(e) :
    x \in Awaited(c) \cup AwaitedThrough(deck, c) /\ x \notin Fills(c) => Carrier(e) \in before[Carrier(c)]

BuildInv ==
  /\ IsDeck(deck) /\ Sorted /\ constant = Folds(deck, constant)
  /\ once \subseteq Carriers(deck) \cap constant

\* c has filled its outputs, and the bare ones that every run of it writes.
HasFilled(c) == \A p \in Fills(c) : value[p] # "stale" /\ (p \in constant => value[p] = "fixed")
HasLeft(c) == \A p \in Leaves(deck, c) : value[p] # "stale"

ValueInv ==
  /\ DOMAIN value = Nodes(deck)
  /\ \A p \in Nodes(deck) : value[p] = "fixed" => p \in constant
  /\ updates > 0 /\ ~revised =>
       /\ \A c \in Callbacks(deck) : Carrier(c) \notin pending => HasFilled(c) /\ HasLeft(c)
       /\ \A p \in HostFilled(deck) : value[p] # "stale"

UpdateInv ==
  /\ updates \in Nat /\ pending \subseteq Carriers(deck)
  /\ pending # {} => updates > 0 /\ ~revised

LibraryInv == BuildInv /\ ValueInv /\ UpdateInv

\* The callback of a pending property that may run.
Ready(c) == c \in Callbacks(deck) /\ Carrier(c) \in pending /\ before[Carrier(c)] \cap pending \subseteq {Carrier(c)}

LEMMA DeclaredFacts ==
  ASSUME NEW M, IsDeck(M), NEW c \in Callbacks(M)
  PROVE  /\ ReadsWhatItDeclares(c) /\ KeptIsNotFolded(M, c) /\ AwaitsWhatIsFilled(M, c) /\ RerunsWhatItDrives(M, c)
         /\ \E m \in M : c \in m.callbacks /\ UsesItsReferences(M, m, c) /\ WritesAgree(M, m, c)
BY MaterialOf, CallbackFacts

\* What c writes besides its own outputs is bare, and c does not fold; or it is a history that
\* some other callback fills.
LEMMA WrittenIs ==
  ASSUME NEW M, IsDeck(M), NEW c \in Callbacks(M), NEW w \in c.runs, NEW p \in w.sets
  PROVE  \/ p \in BareOutputs(M) \ Produced(M) /\ (HasState(M, c) \/ Previous(c) # {}) /\ Found(M, c, w) = {}
         \/ \E d \in Callbacks(M) : /\ p \in Fills(d) /\ HasState(M, d) /\ Found(M, c, w) \subseteq Leaves(M, d)
                                   /\ p \notin BareOutputs(M)
<1>1. PICK m \in M : c \in m.callbacks /\ UsesItsReferences(M, m, c) /\ WritesAgree(M, m, c)
  BY DeclaredFacts
<1>2. Produced(M) \cap BareOutputs(M) = {}
  BY DEF IsDeck, Suffices
<1>3. CASE m.refs # {} /\ w.sets \subseteq BareOutputs(M) /\ Found(M, c, w) = {}
  BY <1>1, <1>2, <1>3 DEF UsesItsReferences
<1>4. ASSUME NEW d \in m.callbacks \ {c},
             w.sets \subseteq Fills(d), HasState(M, d), Found(M, c, w) \subseteq Leaves(M, d)
      PROVE  \E e \in Callbacks(M) : /\ p \in Fills(e) /\ HasState(M, e) /\ Found(M, c, w) \subseteq Leaves(M, e)
                                   /\ p \notin BareOutputs(M)
  <2>1. d \in Callbacks(M) /\ p \in Fills(d)
    BY <1>1, <1>4 DEF Callbacks
  <2>2. p \notin BareOutputs(M)
    BY <1>2, <2>1 DEF Produced
  <2> QED
    BY <1>4, <2>1, <2>2
<1> QED
  BY <1>1, <1>3, <1>4 DEF WritesAgree

\* What a callback that folds leaves.
LEMMA FoldingLeavesNothing ==
  ASSUME NEW M, IsDeck(M), NEW c \in Callbacks(M), NEW C, CanFold(M, c, C)
  PROVE  Leaves(M, c) = {}
<1> SUFFICES ASSUME NEW p \in Leaves(M, c) PROVE FALSE
  OBVIOUS
<1>1. PICK w \in c.runs : p \in w.sets /\ p \in BareOutputs(M)
  BY DEF Leaves
<1>2. HasState(M, c) \/ Previous(c) # {}
  BY <1>1, WrittenIs
<1> QED
  BY <1>2 DEF CanFold

\* Only callbacks fill what is constant.
LEMMA ConstantFacts ==
  ASSUME BuildInv
  PROVE  /\ constant \subseteq Produced(deck)
         /\ \A c \in Callbacks(deck) : \A p \in Fills(c) : p \in constant <=> CanFold(deck, c, constant)
<1>1. constant = Folds(deck, constant) /\ IsDeck(deck)
  BY DEF BuildInv
<1>2. ASSUME NEW p \in constant
      PROVE  \E c \in Callbacks(deck) : p \in Fills(c) /\ CanFold(deck, c, constant)
  BY <1>1 DEF Folds
<1>3. constant \subseteq Produced(deck)
  BY <1>2 DEF Produced
<1>4. ASSUME NEW c \in Callbacks(deck), NEW p \in Fills(c), p \in constant
      PROVE  CanFold(deck, c, constant)
  <2>1. PICK e \in Callbacks(deck) : p \in Fills(e) /\ CanFold(deck, e, constant)
    BY <1>2, <1>4
  <2>2. e = c
    BY <1>1, <2>1, Disjoint
  <2> QED
    BY <2>1, <2>2
<1>5. ASSUME NEW c \in Callbacks(deck), NEW p \in Fills(c), CanFold(deck, c, constant)
      PROVE  p \in constant
  <2>1. p \in Folds(deck, constant)
    BY <1>5 DEF Folds
  <2> QED
    BY <1>1, <2>1
<1> QED
  BY <1>3, <1>4, <1>5

LEMMA HostFilledFacts ==
  ASSUME NEW M, IsDeck(M)
  PROVE  /\ HostFilled(M) \subseteq Nodes(M) /\ HostFilled(M) \cap Produced(M) = {}
         /\ \A c \in Callbacks(M) : \A w \in c.runs : HostFilled(M) \cap w.sets = {}
<1>1. BareOutputs(M) \subseteq Nodes(M)
  BY DEF BareOutputs, Nodes, Outputs
<1>2. Produced(M) \cap BareOutputs(M) = {}
  BY DEF IsDeck, Suffices
<1> QED
  BY <1>1, <1>2 DEF HostFilled

\* What a callback awaits is there when it runs.
LEMMA AwaitedIsThere ==
  ASSUME LibraryInv, NEW c, Ready(c), NEW x \in Awaited(c) \cup AwaitedThrough(deck, c), x \notin Fills(c)
  PROVE  value[x] # "stale" /\ (value[x] = "fixed" <=> x \in constant)
<1>1. IsDeck(deck) /\ c \in Callbacks(deck) /\ updates > 0 /\ ~revised
  BY DEF LibraryInv, BuildInv, UpdateInv, Ready
<1>2. x \in Produced(deck) \cup HostFilled(deck)
  BY <1>1, DeclaredFacts DEF AwaitsWhatIsFilled
<1>3. CASE x \in Produced(deck)
  <2>1. PICK e \in Callbacks(deck) : x \in Fills(e)
    BY <1>3 DEF Produced
  <2>2. Carrier(e) \in before[Carrier(c)]
    BY <1>1, <2>1 DEF LibraryInv, BuildInv, Sorted
  <2>3. Carrier(e) # Carrier(c)
    BY <1>1, <2>1, CarrierFacts
  <2>4. Carrier(e) \notin pending
    BY <2>2, <2>3 DEF Ready
  <2>5. HasFilled(e)
    BY <1>1, <2>1, <2>4 DEF LibraryInv, ValueInv
  <2>6. x \in Nodes(deck)
    BY <1>1, <2>1, CarrierFacts
  <2> QED
    BY <2>1, <2>5, <2>6 DEF LibraryInv, ValueInv, HasFilled
<1>4. CASE x \in HostFilled(deck)
  <2>1. value[x] # "stale" /\ x \in Nodes(deck) /\ x \notin Produced(deck)
    BY <1>1, <1>4, HostFilledFacts DEF LibraryInv, ValueInv
  <2>2. x \notin constant
    BY <2>1, ConstantFacts DEF LibraryInv
  <2> QED
    BY <2>1, <2>2 DEF LibraryInv, ValueInv
<1> QED
  BY <1>2, <1>3, <1>4

\* A callback that is rerun is up to date, and not constant.
LEMMA RerunIsCurrent ==
  ASSUME LibraryInv, NEW c, Ready(c), NEW e \in RerunBy(deck, c)
  PROVE  /\ e \in Callbacks(deck) /\ Previous(c) # {} /\ Rerun(c, e) = "current"
         /\ \A p \in Fills(e) : p \notin constant
<1>1. IsDeck(deck) /\ c \in Callbacks(deck)
  BY DEF LibraryInv, BuildInv, Ready
<1>2. /\ e \in Callbacks(deck) /\ Previous(c) # {} /\ (Previous(e) # {} \/ Awaited(e) \cap Fills(c) # {})
      /\ ReadBy(e) \ (FilledWith(deck, c) \cup Previous(e) \cup Fills(e)) \subseteq Awaited(c) \cup AwaitedThrough(deck, c)
  BY <1>1, DeclaredFacts DEF RerunsWhatItDrives
<1>3. Rerun(c, e) = "current"
  <2>1. ASSUME NEW p \in ReadBy(e) \ (FilledWith(deck, c) \cup Previous(e) \cup Fills(e))
        PROVE  value[p] # "stale"
    <3>1. p \in Awaited(c) \cup AwaitedThrough(deck, c) /\ p \notin Fills(c)
      BY <1>2, <2>1 DEF FilledWith, Fills
    <3> QED
      BY <3>1, AwaitedIsThere
  <2> DEFINE S == ReadBy(e) \ (FilledWith(deck, c) \cup Previous(e) \cup Fills(e))
  <2>2. Rerun(c, e) = Worst({value[p] : p \in S})
    <3>1. S = (UNION {w.reads : w \in e.runs}) \ (FilledWith(deck, c) \cup Previous(e) \cup ToSet(e.fills))
      BY DEF ReadBy, Fills
    <3> HIDE DEF S
    <3> QED
      BY <3>1 DEF Rerun
  <2>3. "stale" \notin {value[p] : p \in S}
    BY <2>1
  <2> QED
    BY <2>2, <2>3 DEF Worst
<1>4. ~CanFold(deck, e, constant)
  <2>1. ASSUME NEW p \in Fills(c) PROVE p \notin constant
    BY <1>1, <1>2, ConstantFacts DEF LibraryInv, CanFold
  <2> QED
    BY <1>2, <2>1 DEF CanFold
<1> QED
  BY <1>2, <1>3, <1>4, ConstantFacts DEF LibraryInv

-----------------------------------------------------------------------------
(***************************************************************************)
(* What a run sees, and what comes of it.                                  *)
(***************************************************************************)
LEMMA RerunAt ==
  ASSUME NEW c, NEW v \in c.runs, NEW q \in v.reruns
  PROVE  CallbackAt(q) \in RerunBy(deck, c)
BY DEF RerunBy, CallbackAt

\* What c reads is what it awaits, what it fills, or of an earlier run.
LEMMA ReadIs ==
  ASSUME NEW M, IsDeck(M), NEW c \in Callbacks(M), NEW x \in ReadBy(c), x \notin Previous(c), x \notin Fills(c)
  PROVE  x \in Awaited(c)
<1>1. x \in DeclaredBy(c)
  BY DeclaredFacts DEF ReadsWhatItDeclares
<1>2. PICK r \in c.reads : r[1] = x
  BY <1>1 DEF DeclaredBy
<1> QED
  BY <1>2, ReadsOfKinds

LEMMA SeenFacts ==
  ASSUME LibraryInv, NEW c, Ready(c), NEW v \in c.runs, NEW x \in v.reads
  PROVE  /\ Seen(c, v, x) # "stale"
         /\ Seen(c, v, x) = "fixed" => x \in constant /\ x \notin Previous(c) \cup Fills(c)
         /\ x \in constant /\ x \notin Previous(c) \cup Fills(c) /\ Previous(c) = {} => Seen(c, v, x) = "fixed"
<1>1. IsDeck(deck) /\ c \in Callbacks(deck)
  BY DEF LibraryInv, BuildInv, Ready
<1>2. CASE \E q \in v.reruns : x \in ToSet(CallbackAt(q).fills)
  <2> DEFINE q == CHOOSE q \in v.reruns : x \in ToSet(CallbackAt(q).fills)
  <2>1. q \in v.reruns
    BY <1>2
  <2>2. Seen(c, v, x) = Rerun(c, CallbackAt(q))
    BY <1>2 DEF Seen
  <2> HIDE DEF q
  <2>3. Rerun(c, CallbackAt(q)) = "current" /\ Previous(c) # {}
    BY <2>1, RerunAt, RerunIsCurrent
  <2> QED
    BY <2>2, <2>3
<1>3. CASE ~\E q \in v.reruns : x \in ToSet(CallbackAt(q).fills)
  <2>1. Seen(c, v, x) = IF x \in Previous(c) \cup Fills(c) THEN "current" ELSE value[x]
    BY <1>3 DEF Seen, Fills
  <2>2. CASE x \in Previous(c) \cup Fills(c)
    BY <2>1, <2>2
  <2>3. CASE x \notin Previous(c) \cup Fills(c)
    <3>1. x \in ReadBy(c)
      BY DEF ReadBy
    <3>2. x \in Awaited(c)
      BY <1>1, <2>3, <3>1, ReadIs
    <3>3. value[x] # "stale" /\ (value[x] = "fixed" <=> x \in constant)
      BY <2>3, <3>2, AwaitedIsThere
    <3> QED
      BY <2>1, <2>3, <3>3
  <2> QED
    BY <2>2, <2>3
<1> QED
  BY <1>2, <1>3

\* No run of c reads anything that moves or that an earlier run left where c folds, and only
\* there.
LEMMA FixedIsFolded ==
  ASSUME LibraryInv, NEW c, Ready(c)
  PROVE  c.kept = {} /\ (\A v \in c.runs : \A x \in v.reads : Seen(c, v, x) = "fixed") <=> CanFold(deck, c, constant)
<1>1. IsDeck(deck) /\ c \in Callbacks(deck)
  BY DEF LibraryInv, BuildInv, Ready
<1>2. /\ DeclaredBy(c) \subseteq ReadBy(c) /\ ReadBy(c) \subseteq DeclaredBy(c) \cup Fills(c)
      /\ HasState(deck, c) => c.kept \cup (ReadBy(c) \cap Fills(c)) # {}
      /\ c.kept \cup (ReadBy(c) \cap Fills(c)) # {} => HasState(deck, c) \/ Previous(c) # {}
  BY <1>1, DeclaredFacts DEF ReadsWhatItDeclares, KeptIsNotFolded, Keeps
<1>3. Previous(c) \subseteq DeclaredBy(c) /\ Awaited(c) \subseteq DeclaredBy(c)
  BY DEF Previous, Awaited, Reached, DeclaredBy
<1>4. ASSUME c.kept = {}, \A v \in c.runs : \A x \in v.reads : Seen(c, v, x) = "fixed"
      PROVE  CanFold(deck, c, constant)
  <2>1. ASSUME NEW x \in ReadBy(c) PROVE x \in constant /\ x \notin Previous(c) \cup Fills(c)
    <3>1. PICK v \in c.runs : x \in v.reads
      BY <2>1 DEF ReadBy
    <3> QED
      BY <1>4, <3>1, SeenFacts
  <2>2. ~HasState(deck, c) /\ Previous(c) = {} /\ Awaited(c) \subseteq constant
    BY <1>2, <1>3, <1>4, <2>1
  <2> QED
    BY <2>2 DEF CanFold
<1>5. ASSUME CanFold(deck, c, constant), NEW v \in c.runs, NEW x \in v.reads
      PROVE  Seen(c, v, x) = "fixed"
  <2>1. ~HasState(deck, c) /\ Previous(c) = {} /\ Awaited(c) \subseteq constant
    BY <1>5 DEF CanFold
  <2>2. x \in ReadBy(c)
    BY DEF ReadBy
  <2>3. x \notin Fills(c) /\ x \notin Previous(c)
    BY <1>2, <2>1, <2>2
  <2>4. x \in constant
    BY <1>1, <2>1, <2>2, <2>3, ReadIs
  <2> QED
    BY <2>1, <2>3, <2>4, SeenFacts
<1>6. CanFold(deck, c, constant) => c.kept = {}
  BY <1>2 DEF CanFold
<1> QED
  BY <1>4, <1>5, <1>6

LEMMA ResultFacts ==
  ASSUME LibraryInv, NEW c, Ready(c), NEW w \in c.runs
  PROVE  Result(c, w) # "stale" /\ (Result(c, w) = "fixed" <=> CanFold(deck, c, constant))
<1> DEFINE All == c.kept = {} /\ \A v \in c.runs : \A x \in v.reads : Seen(c, v, x) = "fixed"
           S == {Seen(c, w, x) : x \in w.reads}
<1>1. Result(c, w) = IF All THEN "fixed" ELSE Worst(S)
  BY DEF Result
<1>2. "stale" \notin S
  BY SeenFacts
<1>3. Worst(S) = "current"
  BY <1>2 DEF Worst
<1>4. All <=> CanFold(deck, c, constant)
  BY FixedIsFolded
<1> HIDE DEF All, S
<1> QED
  BY <1>1, <1>3, <1>4

\* What a run writes into an output that is not its own is not constant, and of this update
\* unless the callback that fills it has still to run.
LEMMA LeftFacts ==
  ASSUME LibraryInv, NEW c, Ready(c), NEW w \in c.runs, NEW q \in w.sets
  PROVE  /\ q \notin constant /\ Left(c, w) # "fixed"
         /\ q \in BareOutputs(deck) => Left(c, w) # "stale"
         /\ \A e \in Callbacks(deck) : q \in Fills(e) /\ Carrier(e) \notin pending => Left(c, w) # "stale"
<1>1. IsDeck(deck) /\ c \in Callbacks(deck) /\ ValueInv /\ updates > 0 /\ ~revised
  BY DEF LibraryInv, BuildInv, UpdateInv, Ready
<1> DEFINE Taken == Found(deck, c, w)
<1>2. Left(c, w) # "fixed" /\ ((\A p \in Taken : value[p] # "stale") => Left(c, w) # "stale")
  <2>1. Result(c, w) # "stale"
    BY ResultFacts
  <2> QED
    BY <2>1 DEF Left, Worst
<1> HIDE DEF Taken
<1>3. CASE q \in BareOutputs(deck) \ Produced(deck) /\ Taken = {}
  <2>1. q \notin constant
    BY <1>3, ConstantFacts DEF LibraryInv
  <2> QED
    BY <1>2, <1>3, <2>1
<1>4. ASSUME NEW d \in Callbacks(deck), q \in Fills(d), HasState(deck, d), Taken \subseteq Leaves(deck, d),
             q \notin BareOutputs(deck)
      PROVE  /\ q \notin constant
             /\ \A e \in Callbacks(deck) : q \in Fills(e) /\ Carrier(e) \notin pending => Left(c, w) # "stale"
  <2>1. q \notin constant
    BY <1>4, ConstantFacts DEF LibraryInv, CanFold
  <2>2. ASSUME NEW e \in Callbacks(deck), q \in Fills(e), Carrier(e) \notin pending
        PROVE  Left(c, w) # "stale"
    <3>1. e = d
      BY <1>1, <1>4, <2>2, Disjoint
    <3>2. HasLeft(d)
      BY <1>1, <2>2, <3>1 DEF ValueInv
    <3> QED
      BY <1>2, <1>4, <3>2 DEF HasLeft
  <2> QED
    BY <2>1, <2>2
<1> QED
  BY <1>1, <1>2, <1>3, <1>4, WrittenIs DEF Taken

-----------------------------------------------------------------------------
(***************************************************************************)
(* Every step keeps the invariant.                                         *)
(***************************************************************************)
LEMMA BuildIsKept ==
  ASSUME BuildInv, UNCHANGED buildVars
  PROVE  BuildInv'
<1>1. deck' = deck /\ before' = before /\ constant' = constant /\ once' = once
  BY DEF buildVars
<1>2. Sorted' <=> Sorted
  BY <1>1 DEF Sorted
<1> QED
  BY <1>1, <1>2 DEF BuildInv

LEMMA InitInv ==
  ASSUME Init, DeclarationsSuffice
  PROVE  LibraryInv
<1>1. PICK M \in Decks :
        /\ deck = M /\ before = RunsBefore(M) /\ constant = Constants(M) /\ once = OnceCallbacks(M, constant)
        /\ pending = {} /\ updates = 0 /\ revised = FALSE /\ value = [p \in Nodes(M) |-> "stale"]
  BY DEF Init
<1>2. IsDeck(M)
  BY <1>1 DEF IsDeck, DeclarationsSuffice
<1>3. Sorted
  BY <1>1, <1>2, FillersRunBefore DEF Sorted
<1>4. constant = Folds(deck, constant)
  BY <1>1, <1>2, ConstantsAreFolded
<1>5. once \subseteq Carriers(deck) \cap constant
  BY <1>1 DEF OnceCallbacks
<1>6. BuildInv
  BY <1>1, <1>2, <1>3, <1>4, <1>5 DEF BuildInv
<1>7. ValueInv
  BY <1>1 DEF ValueInv
<1>8. UpdateInv
  BY <1>1 DEF UpdateInv
<1> QED
  BY <1>6, <1>7, <1>8 DEF LibraryInv

\* Only what runs in every update is left out of one, and only when it is fixed already.
LEMMA UpdateStep ==
  ASSUME LibraryInv, Update
  PROVE  LibraryInv'
<1>1. /\ IsDeck(deck) /\ BuildInv /\ ValueInv /\ updates \in Nat
      /\ once \subseteq Carriers(deck) \cap constant
  BY DEF LibraryInv, BuildInv, UpdateInv
<1>2. BuildInv' /\ deck' = deck /\ constant' = constant
  BY <1>1, BuildIsKept DEF Update, buildVars
<1>3. UpdateInv'
  BY <1>1, <1>2 DEF Update, UpdateInv, Carriers
<1>4. /\ DOMAIN value = Nodes(deck) /\ DOMAIN value' = Nodes(deck)
      /\ \A p \in Nodes(deck) : value'[p] = IF p \in HostFilled(deck) THEN "current"
                                            ELSE IF value[p] = "fixed" /\ ~revised THEN "fixed" ELSE "stale"
  BY <1>1 DEF Update, ValueInv
<1>5. ASSUME NEW p \in Nodes(deck), value'[p] = "fixed" PROVE p \in constant
  BY <1>1, <1>4, <1>5 DEF ValueInv
<1>6. ASSUME NEW c \in Callbacks(deck), Carrier(c) \notin pending' PROVE HasFilled(c)' /\ HasLeft(c)'
  <2>1. Carrier(c) \in once /\ updates > 0 /\ ~revised
    BY <1>1, <1>6, CarrierFacts DEF Update
  <2>2. CanFold(deck, c, constant)
    BY <1>1, <2>1, CarrierFacts, ConstantFacts
  <2>3. HasFilled(c)
    BY <1>1, <2>1 DEF ValueInv, Update
  <2>4. ASSUME NEW p \in Fills(c) PROVE value'[p] = "fixed"
    <3>1. p \in constant
      BY <1>1, <2>2, ConstantFacts
    <3>2. value[p] = "fixed"
      BY <2>3, <3>1 DEF HasFilled
    <3>3. p \in Produced(deck) /\ p \in Nodes(deck)
      BY <1>1, CarrierFacts DEF Produced
    <3>4. p \notin HostFilled(deck)
      BY <1>1, <3>3, HostFilledFacts
    <3> QED
      BY <1>4, <2>1, <3>2, <3>3, <3>4
  <2>5. Leaves(deck', c) = {}
    BY <1>1, <1>2, <2>2, FoldingLeavesNothing
  <2> QED
    BY <2>4, <2>5 DEF HasFilled, HasLeft
<1>7. ASSUME NEW p \in HostFilled(deck) PROVE value'[p] # "stale"
  BY <1>1, <1>4, HostFilledFacts
<1>8. ValueInv'
  BY <1>2, <1>4, <1>5, <1>6, <1>7 DEF ValueInv
<1> QED
  BY <1>2, <1>3, <1>8 DEF LibraryInv

LEMMA SetParameterStep ==
  ASSUME LibraryInv, NEW m, SetParameter(m)
  PROVE  LibraryInv'
<1>1. BuildInv /\ ValueInv /\ UpdateInv
  BY DEF LibraryInv
<1>2. BuildInv' /\ deck' = deck /\ constant' = constant /\ pending' = pending /\ updates' = updates /\ revised'
  BY <1>1, BuildIsKept DEF SetParameter, buildVars
<1>3. /\ DOMAIN value' = DOMAIN value
      /\ \A p \in DOMAIN value : value'[p] = "fixed" => value[p] = "fixed"
  BY DEF SetParameter, Outdated
<1>4. ValueInv'
  BY <1>1, <1>2, <1>3 DEF ValueInv
<1>5. UpdateInv'
  BY <1>1, <1>2 DEF UpdateInv, SetParameter, Carriers
<1> QED
  BY <1>2, <1>4, <1>5 DEF LibraryInv

LEMMA RunStep ==
  ASSUME LibraryInv, NEW p \in pending, RunCallback(p)
  PROVE  LibraryInv'
<1> DEFINE c == CallbackAt(p)
<1>1. /\ IsDeck(deck) /\ BuildInv /\ ValueInv /\ UpdateInv /\ pending \subseteq Carriers(deck)
      /\ updates > 0 /\ ~revised
  BY DEF LibraryInv, BuildInv, UpdateInv
<1>2. c \in Callbacks(deck) /\ p = Carrier(c) /\ Ready(c)
  <2>1. PICK e \in Callbacks(deck) : p = Carrier(e)
    BY <1>1 DEF Carriers
  <2>2. c = e
    BY <1>1, <2>1, CarrierFacts DEF CallbackAt
  <2> QED
    BY <2>1, <2>2 DEF Ready, RunCallback
<1>3. PICK w \in c.runs :
        value' = [q \in DOMAIN value |->
          IF q \in ToSet(c.fills) THEN Result(c, w)
          ELSE IF q \in w.sets THEN Left(c, w)
          ELSE IF \E r \in w.reruns : q \in ToSet(CallbackAt(r).fills) THEN Seen(c, w, q)
          ELSE value[q]]
  BY DEF RunCallback
<1> HIDE DEF c
<1>4. BuildInv' /\ deck' = deck /\ constant' = constant /\ pending' = pending \ {p} /\ UNCHANGED <<updates, revised>>
  BY <1>1, BuildIsKept DEF RunCallback, buildVars
<1>5. Result(c, w) # "stale" /\ (Result(c, w) = "fixed" <=> CanFold(deck, c, constant))
  BY <1>2, ResultFacts
<1> DEFINE Again(q) == \E r \in w.reruns : q \in ToSet(CallbackAt(r).fills)
<1>6. ASSUME NEW q, Again(q)
      PROVE  q \in Produced(deck) /\ q \notin constant /\ Seen(c, w, q) = "current"
  <2> DEFINE r == CHOOSE r \in w.reruns : q \in ToSet(CallbackAt(r).fills)
  <2>1. r \in w.reruns /\ q \in Fills(CallbackAt(r))
    BY <1>6 DEF Fills
  <2>2. Seen(c, w, q) = Rerun(c, CallbackAt(r))
    BY <1>6 DEF Seen
  <2> HIDE DEF r
  <2>3. CallbackAt(r) \in RerunBy(deck, c)
    BY <2>1, RerunAt
  <2>4. CallbackAt(r) \in Callbacks(deck) /\ Rerun(c, CallbackAt(r)) = "current" /\ q \notin constant
    BY <1>2, <2>1, <2>3, RerunIsCurrent
  <2> QED
    BY <2>1, <2>2, <2>4 DEF Produced
<1>7. /\ DOMAIN value = Nodes(deck) /\ DOMAIN value' = Nodes(deck)
      /\ \A q \in Nodes(deck) :
           \/ q \in Fills(c) /\ value'[q] = Result(c, w)
           \/ q \in w.sets \ Fills(c) /\ value'[q] = Left(c, w)
           \/ q \notin Fills(c) /\ Again(q) /\ value'[q] = "current"
           \/ q \notin Fills(c) \cup w.sets /\ ~Again(q) /\ value'[q] = value[q]
  <2>1. DOMAIN value = Nodes(deck)
    BY <1>1 DEF ValueInv
  <2> HIDE DEF Again
  <2>2. \A q \in Nodes(deck) :
          value'[q] = IF q \in Fills(c) THEN Result(c, w) ELSE IF q \in w.sets THEN Left(c, w)
                      ELSE IF Again(q) THEN Seen(c, w, q) ELSE value[q]
    BY <1>3, <2>1 DEF Fills, Again
  <2>3. DOMAIN value' = Nodes(deck)
    BY <1>3, <2>1
  <2> QED
    BY <1>6, <2>1, <2>2, <2>3
<1> HIDE DEF Again
<1>8. \A q \in w.sets :
        /\ q \notin constant /\ Left(c, w) # "fixed"
        /\ q \in BareOutputs(deck) => Left(c, w) # "stale"
        /\ \A e \in Callbacks(deck) : q \in Fills(e) /\ Carrier(e) \notin pending => Left(c, w) # "stale"
  BY <1>2, LeftFacts
<1>9. ASSUME NEW q \in Nodes(deck), value'[q] = "fixed" PROVE q \in constant
  <2>1. CASE q \in Fills(c) /\ value'[q] = Result(c, w)
    BY <1>1, <1>2, <1>5, <1>9, <2>1, ConstantFacts
  <2>2. CASE q \in w.sets /\ value'[q] = Left(c, w)
    BY <1>8, <1>9, <2>2
  <2>3. CASE value'[q] = value[q]
    BY <1>1, <1>9, <2>3 DEF ValueInv
  <2> QED
    BY <1>7, <1>9, <2>1, <2>2, <2>3
<1>10. ASSUME NEW e \in Callbacks(deck), Carrier(e) \notin pending', NEW q \in Fills(e)
       PROVE  value'[q] # "stale" /\ (q \in constant => value'[q] = "fixed")
  <2>1. q \in Nodes(deck)
    BY <1>1, CarrierFacts
  <2>2. CASE q \in Fills(c)
    <3>1. value'[q] = Result(c, w)
      BY <1>7, <2>1, <2>2
    <3>2. q \in constant => CanFold(deck, c, constant)
      BY <1>1, <1>2, <2>2, ConstantFacts
    <3> QED
      BY <1>5, <3>1, <3>2
  <2>3. CASE q \notin Fills(c)
    <3>1. Carrier(e) \notin pending
      BY <1>1, <1>2, <1>4, <1>10, <2>3, CarrierFacts
    <3>2. HasFilled(e)
      BY <1>1, <3>1 DEF ValueInv
    <3>3. \/ q \in w.sets /\ value'[q] = Left(c, w)
          \/ Again(q) /\ value'[q] = "current"
          \/ value'[q] = value[q]
      BY <1>7, <2>1, <2>3
    <3> QED
      BY <1>6, <1>8, <3>1, <3>2, <3>3 DEF HasFilled
  <2> QED
    BY <2>2, <2>3
<1>11. ASSUME NEW q \in BareOutputs(deck)
       PROVE  /\ q \in Nodes(deck) /\ q \notin Produced(deck)
              /\ q \in w.sets => value'[q] # "stale"
              /\ q \notin w.sets => value'[q] = value[q]
  <2>1. q \in Nodes(deck) /\ q \notin Produced(deck)
    BY <1>1 DEF IsDeck, Suffices, BareOutputs, Nodes, Outputs
  <2>2. q \notin Fills(c) /\ ~Again(q)
    BY <1>2, <1>6, <2>1 DEF Produced
  <2> QED
    BY <1>7, <1>8, <2>1, <2>2
<1>12. ValueInv'
  <2>1. \A e \in Callbacks(deck) : Carrier(e) \notin pending' => HasFilled(e)'
    BY <1>4, <1>10 DEF HasFilled
  <2>2. ASSUME NEW e \in Callbacks(deck), Carrier(e) \notin pending', NEW q \in Leaves(deck, e)
        PROVE  value'[q] # "stale"
    <3>1. q \in BareOutputs(deck)
      BY DEF Leaves
    <3>2. CASE q \in w.sets
      BY <1>11, <3>1, <3>2
    <3>3. CASE q \notin w.sets
      <4>1. e # c
        BY <3>3 DEF Leaves
      <4>2. Carrier(e) \notin pending
        BY <1>1, <1>2, <1>4, <2>2, <4>1, CarrierFacts
      <4>3. HasLeft(e)
        BY <1>1, <4>2 DEF ValueInv
      <4> QED
        BY <1>11, <3>1, <3>3, <4>3 DEF HasLeft
    <3> QED
      BY <3>2, <3>3
  <2>3. \A e \in Callbacks(deck) : Carrier(e) \notin pending' => HasLeft(e)'
    BY <1>4, <2>2 DEF HasLeft
  <2>4. ASSUME NEW q \in HostFilled(deck) PROVE value'[q] # "stale"
    <3>1. q \in BareOutputs(deck) /\ q \notin w.sets
      BY <1>1, <1>2, HostFilledFacts DEF HostFilled
    <3> QED
      BY <1>1, <1>11, <3>1 DEF ValueInv
  <2> QED
    BY <1>4, <1>7, <1>9, <2>1, <2>3, <2>4 DEF ValueInv
<1>13. UpdateInv'
  BY <1>1, <1>4 DEF UpdateInv, Carriers
<1> QED
  BY <1>4, <1>12, <1>13 DEF LibraryInv

LEMMA LibraryInvariant == Spec /\ DeclarationsSuffice => []LibraryInv
<1>1. Init /\ DeclarationsSuffice => LibraryInv
  BY InitInv
<1>2. LibraryInv /\ [Next]_vars => LibraryInv'
  <2> SUFFICES ASSUME LibraryInv, [Next]_vars PROVE LibraryInv'
    OBVIOUS
  <2>1. CASE Update
    BY <2>1, UpdateStep
  <2>2. ASSUME NEW p \in pending, RunCallback(p) PROVE LibraryInv'
    BY <2>2, RunStep
  <2>3. ASSUME NEW m \in deck, SetParameter(m) PROVE LibraryInv'
    BY <2>3, SetParameterStep
  <2>4. CASE UNCHANGED vars
    <3>1. BuildInv' /\ deck' = deck /\ constant' = constant
      BY <2>4, BuildIsKept DEF LibraryInv, vars, buildVars
    <3>2. pending' = pending /\ updates' = updates /\ revised' = revised /\ value' = value
      BY <2>4 DEF vars
    <3>3. ValueInv' /\ UpdateInv'
      BY <3>1, <3>2 DEF LibraryInv, ValueInv, UpdateInv, HasFilled, HasLeft, Carriers
    <3> QED
      BY <3>1, <3>3 DEF LibraryInv
  <2> QED
    BY <2>1, <2>2, <2>3, <2>4 DEF Next
<1> QED
  BY <1>1, <1>2, PTL DEF Spec

-----------------------------------------------------------------------------
(***************************************************************************)
(* The theorems.                                                           *)
(***************************************************************************)
\* Where what the callbacks declare suffices, every output is of the update that has
\* just been done, or cannot change, in every order of callbacks and after every write of a
\* parameter (property_engine::update over the update functions of the materials).
THEOREM UpdateIsCurrentHolds == Spec /\ DeclarationsSuffice => []UpdateIsCurrent
<1>1. LibraryInv => UpdateIsCurrent
  <2> SUFFICES ASSUME LibraryInv, Done, NEW p \in Filled PROVE value[p] # "stale"
    BY DEF UpdateIsCurrent
  <2>1. PICK c \in Callbacks(deck) : p \in Fills(c)
    BY DEF Filled, Fills
  <2>2. HasFilled(c)
    BY DEF LibraryInv, ValueInv, Done
  <2> QED
    BY <2>1, <2>2 DEF HasFilled
<1> QED
  BY <1>1, LibraryInvariant, PTL

\* Where what the callbacks declare suffices, what find_constants folds is what no run
\* can change any more, and all of it (property_engine::find_constants).
THEOREM FoldedIsFixedHolds == Spec /\ DeclarationsSuffice => []FoldedIsFixed
<1>1. LibraryInv => FoldedIsFixed
  <2> SUFFICES ASSUME LibraryInv, Done, NEW p \in Filled PROVE p \in constant <=> value[p] = "fixed"
    BY DEF FoldedIsFixed
  <2>1. PICK c \in Callbacks(deck) : p \in Fills(c)
    BY DEF Filled, Fills
  <2>2. HasFilled(c) /\ p \in Nodes(deck)
    BY <2>1, CarrierFacts DEF LibraryInv, BuildInv, ValueInv, Done
  <2> QED
    BY <2>1, <2>2 DEF HasFilled, LibraryInv, ValueInv
<1> QED
  BY <1>1, LibraryInvariant, PTL
-----------------------------------------------------------------------------
(***************************************************************************)
(* The order.                                                              *)
(***************************************************************************)
\* at is a place for every property of M, and every edge points forward: what the sort
\* leaves of a deck it accepts (OrderIsTopological).
Places(M, at) ==
  /\ at \in [Nodes(M) -> Nat]
  /\ \A e \in E(M) : e[1] \in Nodes(M) /\ e[2] \in Nodes(M) /\ at[e[1]] < at[e[2]]

Accepted(M) == \E at : Places(M, at)

\* What up has upstream of a property lies before it.
GoesUp(M, at, up) ==
  DOMAIN up = Nodes(M) /\ \A p \in Nodes(M) : \A q \in up[p] : q \in Nodes(M) /\ at[q] < at[p]

LEMMA FurtherGoesUp ==
  ASSUME NEW M, NEW at \in [Nodes(M) -> Nat], NEW up, GoesUp(M, at, up)
  PROVE  GoesUp(M, at, Further(up))
<1>1. DOMAIN up = Nodes(M) /\ Further(up) = [p \in Nodes(M) |-> up[p] \cup UNION {up[q] : q \in up[p]}]
  BY DEF Further, GoesUp
<1>2. ASSUME NEW p \in Nodes(M), NEW q \in Further(up)[p]
      PROVE  q \in Nodes(M) /\ at[q] < at[p]
  <2>1. CASE q \in up[p]
    BY <2>1 DEF GoesUp
  <2>2. CASE q \notin up[p]
    <3>1. PICK x \in up[p] : q \in up[x]
      BY <1>1, <1>2, <2>2
    <3>2. x \in Nodes(M) /\ at[x] < at[p]
      BY DEF GoesUp
    <3>3. q \in Nodes(M) /\ at[q] < at[x]
      BY <3>1, <3>2 DEF GoesUp
    <3> QED
      BY <3>2, <3>3
  <2> QED
    BY <2>1, <2>2
<1> QED
  BY <1>1, <1>2 DEF GoesUp

\* What runs before a callback lies before it in every order of the deck.
LEMMA RunsBeforeGoesUp ==
  ASSUME NEW M, NEW at, Places(M, at), NEW p \in Carriers(M), p \in Nodes(M), NEW q \in RunsBefore(M)[p]
  PROVE  q \in Nodes(M) /\ at[q] < at[p]
<1> DEFINE near == [n \in Nodes(M) |-> {e[1] : e \in {e \in E(M) : e[2] = n}}]
           u1 == Further(near)  u2 == Further(u1)  u3 == Further(u2)  u4 == Further(u3)  u5 == Further(u4)
<1>1. Upstream(M, E(M)) = u5
  BY DEF Upstream
<1>2. at \in [Nodes(M) -> Nat]
  BY DEF Places
<1>3. GoesUp(M, at, near)
  BY DEF GoesUp, Places
<1> HIDE DEF near
<1>4. GoesUp(M, at, u1)
  BY <1>2, <1>3, FurtherGoesUp
<1> HIDE DEF u1
<1>5. GoesUp(M, at, u2)
  BY <1>2, <1>4, FurtherGoesUp
<1> HIDE DEF u2
<1>6. GoesUp(M, at, u3)
  BY <1>2, <1>5, FurtherGoesUp
<1> HIDE DEF u3
<1>7. GoesUp(M, at, u4)
  BY <1>2, <1>6, FurtherGoesUp
<1> HIDE DEF u4
<1>8. GoesUp(M, at, u5)
  BY <1>2, <1>7, FurtherGoesUp
<1> HIDE DEF u5
<1>9. q \in u5[p]
  BY <1>1 DEF RunsBefore, E, D
<1> QED
  BY <1>8, <1>9 DEF GoesUp

\* A callback is a property of the deck.
LEMMA CarrierIsNode ==
  ASSUME NEW M \in Decks
  PROVE  Carriers(M) \subseteq Nodes(M)
<1>1. D(M).callback = Carriers(M)
  BY DEF D, DeclaredDeck, Carriers
<1>2. Build(M, {})!Deck(D(M))
  BY DeclarationAssumption DEF D
<1>3. D(M).callback \subseteq Nodes(M)
  BY <1>2 DEF Build!Deck
<1> QED
  BY <1>1, <1>3

\* No callback of a deck the sort accepts waits for itself, over however many properties and
\* however its edges came about (property_engine::compute_execution_order).
THEOREM NothingWaitsHolds ==
  ASSUME NEW M \in Decks, Accepted(M)
  PROVE  Spec /\ deck = M => []NothingWaitsForItself
<1> DEFINE Ordered == deck = M /\ before = RunsBefore(M)
<1>1. Init /\ deck = M => Ordered
  BY DEF Init
<1>2. Ordered /\ [Next]_vars => Ordered'
  <2>1. [Next]_vars => deck' = deck /\ before' = before
    BY DEF Next, Update, RunCallback, SetParameter, vars, buildVars
  <2> QED
    BY <2>1
<1>3. Ordered => NothingWaitsForItself
  <2> SUFFICES ASSUME Ordered, NEW p \in DOMAIN before, p \in before[p]
               PROVE  FALSE
    BY DEF NothingWaitsForItself
  <2>1. PICK at : Places(M, at)
    BY DEF Accepted
  <2>2. p \in Carriers(M)
    BY DEF RunsBefore
  <2>3. p \in Nodes(M)
    BY <2>2, CarrierIsNode
  <2>4. p \in RunsBefore(M)[p]
    OBVIOUS
  <2>5. at[p] < at[p] /\ at[p] \in Nat
    BY <2>1, <2>2, <2>3, <2>4, RunsBeforeGoesUp DEF Places
  <2> QED
    BY <2>5
<1> QED
  BY <1>1, <1>2, <1>3, PTL DEF Spec

\* An update of such a deck never waits: as long as callbacks are pending, one of them has
\* nothing pending before it, so a callback is never skipped (property_engine::update).
THEOREM UpdateGoesOn ==
  ASSUME NEW M \in Decks, Accepted(M)
  PROVE  Spec /\ deck = M => [](pending # {} => \E p \in pending : before[p] \cap pending \subseteq {p})
<1> DEFINE Ordered == deck = M /\ before = RunsBefore(M) /\ pending \subseteq Carriers(M)
<1>1. Init /\ deck = M => Ordered
  BY DEF Init
<1>2. Ordered /\ [Next]_vars => Ordered'
  <2>1. [Next]_vars => deck' = deck /\ before' = before
    BY DEF Next, Update, RunCallback, SetParameter, vars, buildVars
  <2>2. Ordered /\ [Next]_vars => pending' \subseteq Carriers(M)
    BY DEF Next, Update, RunCallback, SetParameter, vars
  <2> QED
    BY <2>1, <2>2
<1>3. Ordered => (pending # {} => \E p \in pending : before[p] \cap pending \subseteq {p})
  <2> SUFFICES ASSUME Ordered, pending # {}
               PROVE  \E p \in pending : before[p] \cap pending \subseteq {p}
    OBVIOUS
  <2>1. PICK at : Places(M, at)
    BY DEF Accepted
  <2>2. pending \subseteq Nodes(M) /\ pending \subseteq Carriers(M)
    BY CarrierIsNode
  <2> DEFINE Taken == {at[p] : p \in pending}
  <2>3. Taken \subseteq Nat /\ Taken # {}
    BY <2>1, <2>2 DEF Places
  <2>4. PICK n \in Taken : \A y \in Taken : ~(<<y, n>> \in OpToRel(<, Nat))
    BY <2>3, NatLessThanWellFounded, WFMin
  <2>5. PICK p \in pending : at[p] = n
    OBVIOUS
  <2>6. ASSUME NEW q \in before[p] \cap pending
        PROVE  FALSE
    <3>1. q \in RunsBefore(M)[p]
      BY <2>6
    <3>2. at[q] < at[p]
      BY <2>1, <2>2, <3>1, RunsBeforeGoesUp
    <3>3. at[q] \in Taken /\ <<at[q], n>> \in OpToRel(<, Nat)
      BY <2>3, <2>5, <2>6, <3>2 DEF OpToRel
    <3> QED
      BY <2>4, <3>3
  <2> QED
    BY <2>6
<1> QED
  BY <1>1, <1>2, <1>3, PTL DEF Spec

-----------------------------------------------------------------------------
(***************************************************************************)
(* The declarations of the library: callback by callback, for whatever     *)
(* inputs a material is wired to.                                          *)
(***************************************************************************)
\* The callbacks that take something from an earlier run without a word: the tangent of a
\* phase over a local input, and the residual of kinematic hardening.
Departs(c) ==
  \/ \E n, tangent, initial : initial # {} /\ c = PhaseTangent(n, tangent, initial)
  \/ \E n, hardening, solver : c = KinematicResidual(n, hardening, solver)

MayKeep(c) == c.kept = {} \/ (Previous(c) # {} /\ Departs(c))

\* A callback c with the states V of its material keeps to what it declares, as far as that
\* does not depend on the rest of the deck.
KeepsAlone(V, c) ==
  /\ MayKeep(c)
  /\ c.fills \in Seq(Fills(c)) \ {<<>>}
  /\ c.reads \subseteq DeclaredBy(c) \X {"global", "local", "driven", "own"}
  /\ ReadsWhatItDeclares(c)
  /\ Fills(c) \cap V # {} <=> ReadBy(c) \cap Fills(c) # {}

\* It drives nobody, and fills nothing but its own outputs.
Feeds(c) == DrivenBy(c) = {} /\ \A w \in c.runs : w.reruns = {} /\ w.sets = {}

\* No input of a callback is wired to what it fills itself, and no two fill the same.
Fed(m) ==
  /\ \A c \in m.callbacks : DeclaredBy(c) \cap Fills(c) = {}
  /\ \A c, e \in m.callbacks : c # e => Fills(c) \cap Fills(e) = {}

\* A material as its author writes it down.
WellFormed(m) ==
  /\ \A p \in m.varying \cup m.bare : p[1] = m.name
  /\ m.callbacks = {} \/ m.bare = {}
  /\ \A c \in m.callbacks : (\A p \in Fills(c) : p[1] = m.name) /\ KeepsAlone(m.varying, c)

FeedsForward(m) == WellFormed(m) /\ m.refs = {} /\ \A c \in m.callbacks : Feeds(c)

\* The properties of some reads, and of some outputs.
Sources(rs) == {r[1] : r \in rs}
Of(n, outputs) == {n} \X ToSet(outputs)
Written(n, outputs) == [i \in DOMAIN outputs |-> <<n, outputs[i]>>]

IsList(outputs) == outputs \in Seq(ToSet(outputs)) /\ Len(outputs) > 0

\* The properties of reads over one kind of input.
LEMMA OverFacts == \A S, v : Sources(Over(S, v)) = S
<1> SUFFICES ASSUME NEW S, NEW v PROVE Sources(Over(S, v)) = S
  OBVIOUS
<1>1. \A p \in S : <<p, v>> \in Over(S, v) /\ <<p, v>>[1] = p
  BY DEF Over
<1>2. \A r \in Over(S, v) : r[1] \in S
  BY DEF Over
<1> QED
  BY <1>1, <1>2 DEF Sources

\* Reads that drive nobody.
Undriven(rs) == \A r \in rs : r \in {r[1]} \X {"global", "local", "own"}

\* Reads over inputs that rerun nothing, and what they reach.
LEMMA UndrivenFacts ==
  /\ \A S : Undriven(Global(S)) /\ Sources(Global(S)) = S
  /\ \A S : Undriven(Local(S)) /\ Sources(Local(S)) = S
  /\ \A S : Undriven(Own(S)) /\ Sources(Own(S)) = S
  /\ \A rs, qs : Undriven(rs) /\ Undriven(qs) => Undriven(rs \cup qs)
  /\ \A rs, qs : Sources(rs \cup qs) = Sources(rs) \cup Sources(qs)
  /\ Undriven({}) /\ Sources({}) = {}
<1>1. \A S, v : v \in {"global", "local", "own"} => Undriven(Over(S, v))
  BY DEF Undriven, Over
<1>2. \A rs, qs : Undriven(rs) /\ Undriven(qs) => Undriven(rs \cup qs)
  BY DEF Undriven
<1>3. \A rs, qs : Sources(rs \cup qs) = Sources(rs) \cup Sources(qs)
  BY DEF Sources
<1>4. Undriven({}) /\ Sources({}) = {}
  BY DEF Undriven, Sources
<1> QED
  BY <1>1, <1>2, <1>3, <1>4, OverFacts DEF Global, Local, Own

\* What reads R, of which it declares reads, and has the states V.
Tells(n, outputs, reads, R, V) ==
  /\ Sources(reads) \subseteq R /\ R \subseteq Sources(reads) \cup Of(n, outputs)
  /\ Of(n, outputs) \cap V # {} <=> R \cap Of(n, outputs) # {}

Plainly(c, n, outputs, reads, R) ==
  /\ c.fills = Written(n, outputs) /\ c.reads = reads /\ ReadBy(c) = R /\ MayKeep(c)
  /\ \A w \in c.runs : w.reruns = {} /\ w.sets = {}

\* A callback written down with its outputs, its reads and what its runs read.
LEMMA TellsKeeps ==
  ASSUME NEW n, NEW outputs, IsList(outputs), NEW reads, NEW R, NEW V, NEW c,
         \A r \in reads : r \in {r[1]} \X {"global", "local", "driven", "own"},
         c.fills = Written(n, outputs), c.reads = reads, ReadBy(c) = R, MayKeep(c),
         Tells(n, outputs, reads, R, V)
  PROVE  /\ KeepsAlone(V, c) /\ Fills(c) = Of(n, outputs) /\ DeclaredBy(c) = Sources(reads)
         /\ \A p \in Fills(c) : p[1] = n
<1>1. Fills(c) = Of(n, outputs)
  <2>1. DOMAIN outputs = 1 .. Len(outputs) /\ DOMAIN c.fills = DOMAIN outputs
    BY DEF Written, IsList
  <2>2. \A i \in DOMAIN outputs : c.fills[i] = <<n, outputs[i]>>
    BY DEF Written
  <2>3. ToSet(c.fills) = {<<n, outputs[i]>> : i \in DOMAIN outputs}
    BY <2>1, <2>2 DEF ToSet
  <2>4. ToSet(outputs) = {outputs[i] : i \in DOMAIN outputs}
    BY DEF ToSet
  <2> QED
    BY <2>3, <2>4 DEF Fills, Of
<1>2. c.fills \in Seq(Fills(c)) \ {<<>>}
  <2>1. Len(outputs) \in Nat /\ Len(outputs) # 0 /\ DOMAIN outputs = 1 .. Len(outputs)
    BY DEF IsList
  <2>2. \A i \in 1 .. Len(outputs) : outputs[i] \in ToSet(outputs)
    BY <2>1 DEF ToSet
  <2>3. c.fills = [i \in 1 .. Len(outputs) |-> <<n, outputs[i]>>]
    BY <2>1 DEF Written
  <2>4. c.fills \in [1 .. Len(outputs) -> Fills(c)]
    BY <2>2, <2>3, <1>1 DEF Of
  <2>5. c.fills \in Seq(Fills(c)) /\ Len(c.fills) = Len(outputs)
    BY <2>1, <2>4
  <2> QED
    BY <2>1, <2>5
<1>3. DeclaredBy(c) = Sources(reads)
  BY DEF DeclaredBy, Sources
<1>4. c.reads \subseteq DeclaredBy(c) \X {"global", "local", "driven", "own"}
  <2> SUFFICES ASSUME NEW r \in reads PROVE r \in DeclaredBy(c) \X {"global", "local", "driven", "own"}
    OBVIOUS
  <2>1. r[1] \in DeclaredBy(c)
    BY <1>3 DEF Sources
  <2> QED
    BY <2>1
<1>5. \A p \in Fills(c) : p[1] = n
  BY <1>1 DEF Of
<1> QED
  BY <1>1, <1>2, <1>3, <1>4, <1>5 DEF KeepsAlone, ReadsWhatItDeclares, Tells

\* One that drives nobody.
LEMMA CallbackKeeps ==
  ASSUME NEW n, NEW outputs, IsList(outputs), NEW reads, Undriven(reads), NEW R, NEW V, NEW c,
         Plainly(c, n, outputs, reads, R), Tells(n, outputs, reads, R, V)
  PROVE  KeepsAlone(V, c) /\ Feeds(c) /\ \A p \in Fills(c) : p[1] = n
<1>1. /\ c.fills = Written(n, outputs) /\ c.reads = reads /\ ReadBy(c) = R /\ MayKeep(c)
      /\ \A w \in c.runs : w.reruns = {} /\ w.sets = {}
  BY DEF Plainly
<1>2. \A r \in reads : r \in {r[1]} \X {"global", "local", "driven", "own"}
  <2> SUFFICES ASSUME NEW r \in reads PROVE r \in {r[1]} \X {"global", "local", "driven", "own"}
    OBVIOUS
  <2>1. r \in {r[1]} \X {"global", "local", "own"}
    BY DEF Undriven
  <2> QED
    BY <2>1
<1>3. KeepsAlone(V, c) /\ \A p \in Fills(c) : p[1] = n
  BY <1>1, <1>2, TellsKeeps
<1>4. DrivenBy(c) = {}
  BY <1>1 DEF DrivenBy, Reached, Undriven
<1> QED
  BY <1>1, <1>3, <1>4 DEF Feeds

\* Filling: one way to run.
LEMMA FillingKeeps ==
  ASSUME NEW n, NEW outputs, IsList(outputs), NEW reads, Undriven(reads), NEW R, NEW V, NEW c,
         c = Filling(n, outputs, reads, R),
         Tells(n, outputs, reads, R, V)
  PROVE  KeepsAlone(V, c) /\ Feeds(c) /\ \A p \in Fills(c) : p[1] = n
<1>1. /\ c.fills = Written(n, outputs) /\ c.reads = reads
      /\ c.runs = {[reads |-> R, reruns |-> {}, sets |-> {}]} /\ MayKeep(c)
  BY DEF Filling, Callback, Reading, Run, Written, MayKeep
<1>2. ReadBy(c) = R /\ \A w \in c.runs : w.reruns = {} /\ w.sets = {}
  BY <1>1 DEF ReadBy
<1>3. Plainly(c, n, outputs, reads, R)
  BY <1>1, <1>2 DEF Plainly
<1> QED
  BY <1>3, CallbackKeeps

\* What such a callback fills and declares.
LEMMA FilledByFilling ==
  ASSUME NEW n, NEW outputs, IsList(outputs), NEW reads, NEW R
  PROVE  /\ Fills(Filling(n, outputs, reads, R)) = Of(n, outputs)
         /\ DeclaredBy(Filling(n, outputs, reads, R)) = Sources(reads)
<1> DEFINE c == Filling(n, outputs, reads, R)
<1>1. c.fills = Written(n, outputs) /\ c.reads = reads
  BY DEF Filling, Callback, Written
<1>2. DOMAIN outputs = 1 .. Len(outputs) /\ DOMAIN c.fills = DOMAIN outputs
  BY <1>1 DEF Written, IsList
<1>3. ToSet(c.fills) = {<<n, outputs[i]>> : i \in DOMAIN outputs}
  BY <1>1, <1>2 DEF ToSet, Written
<1>4. ToSet(outputs) = {outputs[i] : i \in DOMAIN outputs}
  BY DEF ToSet
<1> QED
  BY <1>1, <1>3, <1>4 DEF Fills, DeclaredBy, Of, Sources

\* A material with one callback that reads what it is wired to, and keeps nothing.
LEMMA Pure ==
  ASSUME NEW n, NEW outputs, IsList(outputs), NEW reads, Undriven(reads), NEW m,
         m = Declare(n, {Filling(n, outputs, reads, Sources(reads))}), Fed(m)
  PROVE  FeedsForward(m)
<1> DEFINE S == Sources(reads)  c == Filling(n, outputs, reads, S)
<1>1. /\ m.name = n /\ m.callbacks = {c} /\ m.varying = {} /\ m.bare = {} /\ m.refs = {}
  BY DEF Declare
<1>2. S \cap Of(n, outputs) = {}
  BY <1>1, FilledByFilling DEF Fed
<1>3. KeepsAlone({}, c) /\ Feeds(c) /\ \A p \in Fills(c) : p[1] = n
  <2>1. Tells(n, outputs, reads, S, {})
    BY <1>2 DEF Tells
  <2> QED
    BY <2>1, FillingKeeps
<1> QED
  BY <1>1, <1>3 DEF FeedsForward, WellFormed

\* One that goes on from the last value of its output o.
LEMMA Stateful ==
  ASSUME NEW n, NEW outputs, IsList(outputs), NEW o \in ToSet(outputs), NEW S, NEW m,
         m = Varying(Declare(n, {Filling(n, outputs, Global(S), {<<n, o>>} \cup S)}), {o})
  PROVE  FeedsForward(m)
<1> DEFINE R == {<<n, o>>} \cup S  D1 == Global(S)  c == Filling(n, outputs, D1, R)  V == {n} \X {o}
<1>1. /\ m.name = n /\ m.callbacks = {c} /\ m.varying = V /\ m.bare = {} /\ m.refs = {}
  BY DEF Declare, Varying
<1>2. Undriven(D1) /\ Sources(D1) = S
  BY UndrivenFacts
<1>3. <<n, o>> \in Of(n, outputs) /\ <<n, o>> \in R /\ <<n, o>> \in V
  BY DEF Of
<1>4. \A p \in V : p[1] = n
  OBVIOUS
<1> HIDE DEF V
<1>5. Tells(n, outputs, D1, R, V)
  BY <1>2, <1>3 DEF Tells
<1> HIDE DEF R, D1
<1>6. KeepsAlone(V, c) /\ Feeds(c) /\ \A p \in Fills(c) : p[1] = n
  BY <1>2, <1>5, FillingKeeps
<1> HIDE DEF c
<1> QED
  BY <1>1, <1>4, <1>6 DEF FeedsForward, WellFormed

\* Several callbacks, each written down with what it reads.
LEMMA Fillings ==
  ASSUME NEW m, m.refs = {}, \A p \in m.varying \cup m.bare : p[1] = m.name, m.callbacks = {} \/ m.bare = {},
         \A c \in m.callbacks : \E outputs, reads, R :
            /\ IsList(outputs) /\ c = Filling(m.name, outputs, reads, R) /\ Undriven(reads)
            /\ Tells(m.name, outputs, reads, R, m.varying)
  PROVE  FeedsForward(m)
<1>1. ASSUME NEW c \in m.callbacks
      PROVE  KeepsAlone(m.varying, c) /\ Feeds(c) /\ \A p \in Fills(c) : p[1] = m.name
  <2>1. PICK outputs, reads, R :
            /\ IsList(outputs) /\ c = Filling(m.name, outputs, reads, R) /\ Undriven(reads)
            /\ Tells(m.name, outputs, reads, R, m.varying)
    OBVIOUS
  <2> QED
    BY <2>1, FillingKeeps
<1> QED
  BY <1>1 DEF FeedsForward, WellFormed

\* Where nothing is kept, it is enough to read what is declared.
LEMMA PureTells ==
  ASSUME NEW m, Fed(m), NEW c \in m.callbacks, NEW n, NEW outputs, IsList(outputs), NEW reads, NEW V,
         c = Filling(n, outputs, reads, Sources(reads)), Of(n, outputs) \cap V = {}
  PROVE  Tells(n, outputs, reads, Sources(reads), V)
<1>1. Fills(c) = Of(n, outputs) /\ DeclaredBy(c) = Sources(reads)
  BY FilledByFilling
<1>2. Sources(reads) \cap Of(n, outputs) = {}
  BY <1>1 DEF Fed
<1> QED
  BY <1>2 DEF Tells

\* One callback, over global inputs only, or local ones only.
Single(m, outputs, S) ==
  \/ m = Declare(m.name, {Filling(m.name, outputs, Global(S), S)})
  \/ m = Declare(m.name, {Filling(m.name, outputs, Local(S), S)})

\* A material with one callback and no state keeps to its declarations.
LEMMA SingleFeeds ==
  ASSUME NEW m, NEW outputs, IsList(outputs), NEW S, Single(m, outputs, S), Fed(m)
  PROVE  FeedsForward(m)
<1>1. ASSUME m = Declare(m.name, {Filling(m.name, outputs, Global(S), S)}) PROVE FeedsForward(m)
  <2>1. Undriven(Global(S)) /\ Sources(Global(S)) = S
    BY UndrivenFacts
  <2> QED
    BY <1>1, <2>1, Pure
<1>2. ASSUME m = Declare(m.name, {Filling(m.name, outputs, Local(S), S)}) PROVE FeedsForward(m)
  <2>1. Undriven(Local(S)) /\ Sources(Local(S)) = S
    BY UndrivenFacts
  <2> QED
    BY <1>2, <2>1, Pure
<1> QED
  BY <1>1, <1>2 DEF Single

\* The outputs of most callbacks, in the order of their constructor.
LEMMA Lists ==
  /\ \A a : IsList(<<a>>)
  /\ \A a, b : IsList(<<a, b>>)
  /\ \A a, b, c : IsList(<<a, b, c>>)
<1>1. \A S : \A a \in S : <<a>> \in Seq(S) /\ Len(<<a>>) = 1
  OBVIOUS
<1>2. \A S : \A a, b \in S : <<a, b>> \in Seq(S) /\ Len(<<a, b>>) = 2
  OBVIOUS
<1>3. \A S : \A a, b, c \in S : <<a, b, c>> \in Seq(S) /\ Len(<<a, b, c>>) = 3
  OBVIOUS
<1>4. \A a : a \in ToSet(<<a>>)
  BY DEF ToSet
<1>5. \A a, b : a \in ToSet(<<a, b>>) /\ b \in ToSet(<<a, b>>)
  BY DEF ToSet
<1>6. \A a, b, c : {a, b, c} \subseteq ToSet(<<a, b, c>>)
  BY DEF ToSet
<1>7. \A a : IsList(<<a>>)
  <2> SUFFICES ASSUME NEW a PROVE IsList(<<a>>)
    OBVIOUS
  <2> DEFINE S == ToSet(<<a>>)
  <2>1. a \in S
    BY <1>4
  <2> HIDE DEF S
  <2>2. <<a>> \in Seq(S) /\ Len(<<a>>) = 1
    BY <1>1, <2>1
  <2> QED
    BY <2>2 DEF IsList, S
<1>8. \A a, b : IsList(<<a, b>>)
  <2> SUFFICES ASSUME NEW a, NEW b PROVE IsList(<<a, b>>)
    OBVIOUS
  <2> DEFINE S == ToSet(<<a, b>>)
  <2>1. a \in S /\ b \in S
    BY <1>5
  <2> HIDE DEF S
  <2>2. <<a, b>> \in Seq(S) /\ Len(<<a, b>>) = 2
    BY <1>2, <2>1
  <2> QED
    BY <2>2 DEF IsList, S
<1>9. \A a, b, c : IsList(<<a, b, c>>)
  <2> SUFFICES ASSUME NEW a, NEW b, NEW c PROVE IsList(<<a, b, c>>)
    OBVIOUS
  <2> DEFINE S == ToSet(<<a, b, c>>)
  <2>1. a \in S /\ b \in S /\ c \in S
    BY <1>6
  <2> HIDE DEF S
  <2>2. <<a, b, c>> \in Seq(S) /\ Len(<<a, b, c>>) = 3
    BY <1>3, <2>1
  <2> QED
    BY <2>2 DEF IsList, S
<1> QED
  BY <1>7, <1>8, <1>9

\* The properties of one output, and of two.
LEMMA OfFacts ==
  /\ \A n, a : Of(n, <<a>>) = {<<n, a>>}
  /\ \A n, a, b : Of(n, <<a, b>>) = {<<n, a>>, <<n, b>>}
BY DEF Of, ToSet

\* The same as fills.
LEMMA WrittenFacts ==
  /\ \A n, a : Written(n, <<a>>) = <<<<n, a>>>>
  /\ \A n, a, b : Written(n, <<a, b>>) = <<<<n, a>>, <<n, b>>>>
BY DEF Written

\* Callbacks that may run in several ways.
LEMMA PlainFills ==
  ASSUME NEW c, NEW n, NEW outputs, IsList(outputs), NEW reads, NEW R, Plainly(c, n, outputs, reads, R)
  PROVE  Fills(c) = Of(n, outputs) /\ DeclaredBy(c) = Sources(reads)
<1>1. c.fills = Written(n, outputs) /\ c.reads = reads
  BY DEF Plainly
<1>2. DOMAIN outputs = 1 .. Len(outputs) /\ DOMAIN c.fills = DOMAIN outputs
  BY <1>1 DEF Written, IsList
<1>3. ToSet(c.fills) = {<<n, outputs[i]>> : i \in DOMAIN outputs}
  BY <1>1, <1>2 DEF ToSet, Written
<1>4. ToSet(outputs) = {outputs[i] : i \in DOMAIN outputs}
  BY DEF ToSet
<1> QED
  BY <1>1, <1>3, <1>4 DEF Fills, DeclaredBy, Of, Sources

\* Where nothing is kept, it is enough to read what is declared, in several ways or in one.
LEMMA PlainTells ==
  ASSUME NEW m, Fed(m), NEW c \in m.callbacks, NEW n, NEW outputs, IsList(outputs), NEW reads, NEW V,
         Plainly(c, n, outputs, reads, Sources(reads)), Of(n, outputs) \cap V = {}
  PROVE  Tells(n, outputs, reads, Sources(reads), V)
<1>1. Fills(c) = Of(n, outputs) /\ DeclaredBy(c) = Sources(reads)
  BY PlainFills
<1>2. Sources(reads) \cap Of(n, outputs) = {}
  BY <1>1 DEF Fed
<1> QED
  BY <1>2 DEF Tells

\* A material whose callbacks rerun nothing, each with what it reads, keeps to its declarations.
LEMMA PlainCallbacks ==
  ASSUME NEW m, m.refs = {}, \A p \in m.varying \cup m.bare : p[1] = m.name, m.callbacks = {} \/ m.bare = {},
         \A c \in m.callbacks : \E outputs, reads, R :
            /\ IsList(outputs) /\ Plainly(c, m.name, outputs, reads, R) /\ Undriven(reads)
            /\ Tells(m.name, outputs, reads, R, m.varying)
  PROVE  FeedsForward(m)
<1>1. ASSUME NEW c \in m.callbacks
      PROVE  KeepsAlone(m.varying, c) /\ Feeds(c) /\ \A p \in Fills(c) : p[1] = m.name
  <2>1. PICK outputs, reads, R :
            /\ IsList(outputs) /\ Plainly(c, m.name, outputs, reads, R) /\ Undriven(reads)
            /\ Tells(m.name, outputs, reads, R, m.varying)
    OBVIOUS
  <2> QED
    BY <2>1, CallbackKeeps
<1> QED
  BY <1>1 DEF FeedsForward, WellFormed

\* What is written down with one way to run, or with two.
LEMMA Plain ==
  /\ \A n, outputs, reads, R : Plainly(Filling(n, outputs, reads, R), n, outputs, reads, R)
  /\ \A n, outputs, reads, R, S :
       Plainly(Callback(Written(n, outputs), reads, Reading(R) \cup Reading(S)), n, outputs, reads, R \cup S)
  /\ \A n, outputs, reads, R :
       Plainly(Callback(Written(n, outputs), reads, Reading(R)), n, outputs, reads, R)
<1>1. ASSUME NEW n, NEW outputs, NEW reads, NEW R, NEW S
      PROVE  Plainly(Callback(Written(n, outputs), reads, Reading(R) \cup Reading(S)), n, outputs, reads, R \cup S)
  <2> SUFFICES ASSUME NEW c, c = Callback(Written(n, outputs), reads, Reading(R) \cup Reading(S))
               PROVE  Plainly(c, n, outputs, reads, R \cup S)
    OBVIOUS
  <2> DEFINE a == Run(R, {}, {})  b == Run(S, {}, {})
  <2>1. /\ c.fills = Written(n, outputs) /\ c.reads = reads /\ c.runs = {a} \cup {b} /\ MayKeep(c)
    BY DEF Callback, Reading, MayKeep
  <2>2. a.reads = R /\ b.reads = S /\ a.reruns = {} /\ b.reruns = {} /\ a.sets = {} /\ b.sets = {}
    BY DEF Run
  <2> HIDE DEF a, b
  <2>3. {w.reads : w \in c.runs} = {R, S}
    BY <2>1, <2>2
  <2>4. UNION {R, S} = R \cup S
    OBVIOUS
  <2>5. \A w \in c.runs : w.reruns = {} /\ w.sets = {}
    BY <2>1, <2>2
  <2> QED
    BY <2>1, <2>3, <2>4, <2>5 DEF Plainly, ReadBy
<1>2. ASSUME NEW n, NEW outputs, NEW reads, NEW R
      PROVE  Plainly(Callback(Written(n, outputs), reads, Reading(R)), n, outputs, reads, R)
  <2>1. Reading(R) \cup Reading(R) = Reading(R) /\ R \cup R = R
    OBVIOUS
  <2>2. Plainly(Callback(Written(n, outputs), reads, Reading(R) \cup Reading(R)), n, outputs, reads, R \cup R)
    BY <1>1
  <2> QED
    BY <2>1, <2>2
<1>3. ASSUME NEW n, NEW outputs, NEW reads, NEW R
      PROVE  Plainly(Filling(n, outputs, reads, R), n, outputs, reads, R)
  BY <1>2 DEF Filling, Written
<1> QED
  BY <1>1, <1>2, <1>3

-----------------------------------------------------------------------------
\* Elasticity.
ElasticMaterial(m) ==
  \/ \E strain, eigenstrain : m = LinearElasticity(m.name, strain, eigenstrain)
  \/ \E strain, tangent : m = IncrementalLinearElasticity(m.name, strain, tangent)
  \/ \E tangent, source, eigenstrain : m = HenckyElasticity(m.name, tangent, source, eigenstrain)
  \/ \E source : m = NeoHooke(m.name, source) \/ m = SaintVenantKirchhoff(m.name, source)
  \/ \E K, G : m = IsotropicTangent(m.name, K, G)
  \/ \E tangent : m = IsotropicModuli(m.name, tangent)
  \/ \E tangent, strain : m = LinearStress(m.name, tangent, strain)
  \/ \E alpha, temperature : m = ThermalEigenstrain(m.name, alpha, temperature)

\* The elastic materials keep to their declarations.
LEMMA ElasticFeeds == ASSUME NEW m, ElasticMaterial(m), Fed(m) PROVE FeedsForward(m)
<1> DEFINE n == m.name
<1>1. ASSUME NEW strain, NEW eigenstrain, m = LinearElasticity(n, strain, eigenstrain)
      PROVE  FeedsForward(m)
  <2> DEFINE t == <<n, "tangent">>  r1 == Own({t})  r2 == Global({strain} \cup eigenstrain)
             R == {t, strain} \cup eigenstrain
             c1 == Filling(n, <<"tangent">>, {}, {})  c2 == Filling(n, <<"stress">>, r1 \cup r2, R)
  <2>1. m.callbacks = {c1, c2} /\ m.varying = {} /\ m.bare = {} /\ m.refs = {}
    <3>1. m = Declare(n, {c1, c2})
      BY <1>1 DEF LinearElasticity
    <3> HIDE DEF c1, c2
    <3> QED
      BY <3>1 DEF Declare
  <2>2. Undriven({}) /\ Sources({}) = {} /\ Undriven(r1 \cup r2) /\ Sources(r1 \cup r2) = R
    <3>1. Undriven({}) /\ Sources({}) = {} /\ Undriven(r1) /\ Undriven(r2) /\ Sources(r1) = {t} /\ Sources(r2) = {strain} \cup eigenstrain
      BY UndrivenFacts
    <3> HIDE DEF r1, r2
    <3>2. Undriven(r1 \cup r2) /\ Sources(r1 \cup r2) = Sources(r1) \cup Sources(r2)
      BY <3>1, UndrivenFacts
    <3> QED
      BY <3>1, <3>2
  <2>3. IsList(<<"tangent">>) /\ IsList(<<"stress">>)
    BY Lists
  <2> DEFINE r == r1 \cup r2
  <2> HIDE DEF R, r
  <2>4. Tells(n, <<"tangent">>, {}, {}, m.varying)
    <3>1. c1 = Filling(n, <<"tangent">>, {}, Sources({})) /\ Of(n, <<"tangent">>) \cap m.varying = {}
      BY <2>1, <2>2
    <3>2. Tells(n, <<"tangent">>, {}, Sources({}), m.varying)
      BY <2>1, <2>3, <3>1, PureTells
    <3> QED
      BY <2>2, <3>2
  <2>5. Tells(n, <<"stress">>, r, R, m.varying)
    <3>1. Sources(r) = R /\ c2 = Filling(n, <<"stress">>, r, Sources(r))
      BY <2>2 DEF r
    <3> QED
      BY <2>1, <2>3, <3>1, PureTells
  <2> QED
    BY <2>1, <2>2, <2>3, <2>4, <2>5, Fillings DEF r
<1>2. ASSUME NEW strain, NEW tangent, m = IncrementalLinearElasticity(n, strain, tangent)
      PROVE  FeedsForward(m)
  <2> DEFINE t == <<n, "tangent">>  s == <<n, "stress">>  r1 == Global({strain})  r2 == Own({t})
             R == {s, t, strain}  V == {n} \X {"stress"}
             c1 == Filling(n, <<"tangent">>, Global({tangent}), {tangent})
             c2 == Filling(n, <<"stress">>, r1 \cup r2, R)
  <2>1. m.callbacks = {c1, c2} /\ m.varying = V /\ m.bare = {} /\ m.refs = {}
    BY <1>2 DEF IncrementalLinearElasticity, Declare, Varying
  <2>2. /\ Undriven(Global({tangent})) /\ Sources(Global({tangent})) = {tangent}
        /\ Undriven(r1 \cup r2) /\ Sources(r1 \cup r2) = {t, strain}
    <3>1. /\ Undriven(Global({tangent})) /\ Sources(Global({tangent})) = {tangent}
          /\ Undriven(r1) /\ Undriven(r2) /\ Sources(r1) = {strain} /\ Sources(r2) = {t}
      BY UndrivenFacts
    <3> HIDE DEF r1, r2
    <3>2. Undriven(r1 \cup r2) /\ Sources(r1 \cup r2) = Sources(r1) \cup Sources(r2)
      BY <3>1, UndrivenFacts
    <3> QED
      BY <3>1, <3>2
  <2>3. IsList(<<"tangent">>) /\ IsList(<<"stress">>)
    BY Lists
  <2>4. Of(n, <<"tangent">>) = {t} /\ Of(n, <<"stress">>) = {s} /\ V = {s} /\ t # s
    BY OfFacts
  <2> DEFINE r == r1 \cup r2
  <2> HIDE DEF r
  <2>5. Tells(n, <<"tangent">>, Global({tangent}), {tangent}, m.varying)
    <3>1. Of(n, <<"tangent">>) \cap m.varying = {}
      BY <2>1, <2>4
    <3>2. c1 = Filling(n, <<"tangent">>, Global({tangent}), Sources(Global({tangent})))
      BY <2>2
    <3> QED
      BY <2>1, <2>2, <2>3, <3>1, <3>2, PureTells
  <2>6. Tells(n, <<"stress">>, r, R, m.varying)
    <3>1. Sources(r) = {t, strain}
      BY <2>2 DEF r
    <3> QED
      BY <2>1, <2>4, <3>1 DEF Tells
  <2>7. \A p \in V : p[1] = n
    OBVIOUS
  <2> HIDE DEF V, R
  <2> QED
    BY <2>1, <2>2, <2>3, <2>5, <2>6, <2>7, Fillings DEF r
<1>3. ASSUME NEW tangent, NEW source, NEW eigenstrain, m = HenckyElasticity(n, tangent, source, eigenstrain)
      PROVE  FeedsForward(m)
  <2> DEFINE S == {tangent, F(source), FInv(source)} \cup eigenstrain
  <2>1. m = Declare(n, {Filling(n, <<"stress", "tangent", "log_strain">>, Global(S), S)})
    <3>1. {F(source), FInv(source), tangent} \cup eigenstrain = S
      OBVIOUS
    <3> QED
      BY <1>3, <3>1 DEF HenckyElasticity
  <2> HIDE DEF S
  <2>2. Single(m, <<"stress", "tangent", "log_strain">>, S)
    BY <2>1 DEF Single
  <2> QED
    BY <2>2, Lists, SingleFeeds
<1>4. ASSUME NEW source, m = NeoHooke(n, source) \/ m = SaintVenantKirchhoff(n, source)
      PROVE  FeedsForward(m)
  <2>1. \E S : Single(m, <<"stress", "tangent">>, S)
    BY <1>4 DEF NeoHooke, SaintVenantKirchhoff, Single
  <2> QED
    BY <2>1, Lists, SingleFeeds
<1>5. ASSUME NEW K, NEW G, m = IsotropicTangent(n, K, G) PROVE FeedsForward(m)
  <2>1. Single(m, <<"tangent">>, {K, G})
    BY <1>5 DEF IsotropicTangent, Single
  <2> QED
    BY <2>1, Lists, SingleFeeds
<1>6. ASSUME NEW tangent, m = IsotropicModuli(n, tangent) PROVE FeedsForward(m)
  <2>1. Single(m, <<"K", "G", "poisson_ratio">>, {tangent})
    BY <1>6 DEF IsotropicModuli, Single
  <2> QED
    BY <2>1, Lists, SingleFeeds
<1>7. ASSUME NEW tangent, NEW strain, m = LinearStress(n, tangent, strain) PROVE FeedsForward(m)
  <2>1. Single(m, <<"stress">>, {tangent, strain})
    BY <1>7 DEF LinearStress, Single
  <2> QED
    BY <2>1, Lists, SingleFeeds
<1>8. ASSUME NEW alpha, NEW temperature, m = ThermalEigenstrain(n, alpha, temperature) PROVE FeedsForward(m)
  <2>1. Single(m, <<"eigenstrain">>, {alpha, temperature})
    BY <1>8 DEF ThermalEigenstrain, Single
  <2> QED
    BY <2>1, Lists, SingleFeeds
<1> QED
  BY <1>1, <1>2, <1>3, <1>4, <1>5, <1>6, <1>7, <1>8 DEF ElasticMaterial

-----------------------------------------------------------------------------
\* Isotropic damage.
DamageMaterial(m) ==
  \/ \E strain : m = VonMisesStateFunction(m.name, strain) \/ m = VectorStrainStateFunction(m.name, strain)
  \/ \E strain, tangent : m = StrainEnergyStateFunction(m.name, strain, tangent)
  \/ \E state : m = StrainThresholdYield(m.name, state)
  \/ \E yield : \/ m = LinearDamageLaw(m.name, yield) \/ m = PowerDamageLaw(m.name, yield)
                \/ m = SaturationDamageLaw(m.name, yield) \/ m = ExponentialDamageLaw(m.name, yield)
                \/ m = PeerlingsDamageLaw(m.name, yield)
  \/ \E elastic, tangents, damage, state, yield :
       m = IsotropicDamage(m.name, elastic, tangents, damage, state, yield)

\* So do the materials of isotropic damage.
LEMMA DamageFeeds == ASSUME NEW m, DamageMaterial(m), Fed(m) PROVE FeedsForward(m)
<1> DEFINE n == m.name
<1>1. ASSUME NEW strain, m = VonMisesStateFunction(n, strain) \/ m = VectorStrainStateFunction(n, strain)
      PROVE  FeedsForward(m)
  <2>1. Single(m, <<"equivalent_strain", "d_equivalent_strain">>, {strain})
    BY <1>1 DEF VonMisesStateFunction, VectorStrainStateFunction, Single
  <2> QED
    BY <2>1, Lists, SingleFeeds
<1>2. ASSUME NEW strain, NEW tangent, m = StrainEnergyStateFunction(n, strain, tangent)
      PROVE  FeedsForward(m)
  <2>1. Single(m, <<"equivalent_strain", "d_equivalent_strain">>, {strain, tangent})
    BY <1>2 DEF StrainEnergyStateFunction, Single
  <2> QED
    BY <2>1, Lists, SingleFeeds
<1>3. ASSUME NEW state, m = StrainThresholdYield(n, state) PROVE FeedsForward(m)
  <2> DEFINE S == {<<state, "equivalent_strain">>}  outputs == <<"kappa", "is_yielding">>
  <2>1. {<<n, "kappa">>, <<state, "equivalent_strain">>} = {<<n, "kappa">>} \cup S
    OBVIOUS
  <2>2. m = Varying(Declare(n, {Filling(n, outputs, Global(S), {<<n, "kappa">>} \cup S)}), {"kappa"})
    BY <1>3, <2>1 DEF StrainThresholdYield
  <2>3. IsList(outputs) /\ "kappa" \in ToSet(outputs)
    BY Lists DEF ToSet
  <2> HIDE DEF S, outputs
  <2> QED
    BY <2>2, <2>3, Stateful
<1>4. ASSUME NEW yield, \/ m = LinearDamageLaw(n, yield) \/ m = PowerDamageLaw(n, yield)
                        \/ m = SaturationDamageLaw(n, yield) \/ m = ExponentialDamageLaw(n, yield)
                        \/ m = PeerlingsDamageLaw(n, yield)
      PROVE  FeedsForward(m)
  <2>1. m = ScalarDamageLaw(n, yield)
    BY <1>4 DEF LinearDamageLaw, PowerDamageLaw, SaturationDamageLaw, ExponentialDamageLaw, PeerlingsDamageLaw
  <2>2. Single(m, <<"damage", "d_damage">>, {<<yield, "kappa">>})
    BY <2>1 DEF ScalarDamageLaw, Single
  <2> QED
    BY <2>2, Lists, SingleFeeds
<1>5. ASSUME NEW elastic, NEW tangents, NEW damage, NEW state, NEW yield,
             m = IsotropicDamage(n, elastic, tangents, damage, state, yield)
      PROVE  FeedsForward(m)
  <2> DEFINE elasticity == {<<elastic, "stress">>}
                      \cup (IF tangents = {} THEN {<<elastic, "tangent">>} ELSE tangents)
             always == elasticity \cup {<<damage, "damage">>, <<yield, "is_yielding">>}
             slopes == {<<damage, "d_damage">>, <<state, "d_equivalent_strain">>}
             R == always \cup slopes  outputs == <<"damaged_stress", "damaged_tangent">>  reads == Global(R)
             c == Callback(Written(n, outputs), reads, Reading(always) \cup Reading(R))
  <2>1. m = Declare(n, {c})
    <3>1. Written(n, outputs) = << <<n, "damaged_stress">>, <<n, "damaged_tangent">> >>
      BY WrittenFacts
    <3>2. m = Declare(n, {Callback(<< <<n, "damaged_stress">>, <<n, "damaged_tangent">> >>,
                            Global(always \cup slopes), Reading(always) \cup Reading(always \cup slopes))})
      BY <1>5 DEF IsotropicDamage
    <3> QED
      BY <3>1, <3>2
  <2>2. m.callbacks = {c} /\ m.varying = {} /\ m.bare = {} /\ m.refs = {}
    <3> HIDE DEF c
    <3> QED
      BY <2>1 DEF Declare
  <2>3. Plainly(c, n, outputs, reads, R)
    <3>1. always \cup R = R
      OBVIOUS
    <3> HIDE DEF always, R, outputs, reads
    <3>2. Plainly(c, n, outputs, reads, always \cup R)
      BY Plain
    <3> QED
      BY <3>1, <3>2
  <2>4. IsList(outputs)
    BY Lists
  <2>5. Undriven(reads) /\ Sources(reads) = R
    BY UndrivenFacts
  <2> HIDE DEF R, reads, outputs, c
  <2>6. Tells(n, outputs, reads, R, m.varying)
    BY <2>2, <2>3, <2>4, <2>5, PlainTells
  <2> QED
    BY <2>2, <2>3, <2>4, <2>5, <2>6, PlainCallbacks
<1> QED
  BY <1>1, <1>2, <1>3, <1>4, <1>5 DEF DamageMaterial

-----------------------------------------------------------------------------
\* Scalars, and what the host fills and records.
ScalarMaterial(m) ==
  \/ m = ConstantScalar(m.name) \/ m = PoissonRatioFromModuli(m.name) \/ m = PropsScalar(m.name)
  \/ m = ScalarStepper(m.name) \/ m = TensorComponentStepper(m.name)
  \/ \E source, parts : IsList(parts) /\ m = ScalarSplit(m.name, source, parts)
  \/ \E source : m = ScalarComplementWeight(m.name, source) \/ m = ScalarIdentityWeight(m.name, source)

HostMaterial(m) ==
  \/ m = ExternalStrainSource(m.name) \/ m = ExternalDeformationGradientSource(m.name)
  \/ m = ExternalScalarSource(m.name)
  \/ \E sources : m = PropertyRecorder(m.name, sources) \/ m = PropertyConsoleLogger(m.name, sources)
  \/ \E x, ys : m = PropertyPlot(m.name, x, ys)

\* A callback without inputs.
LEMMA EmptyReads == Global({}) = {} /\ Sources({}) = {}
BY DEF Global, Over, Sources

\* Outputs that no callback of the material fills.
LEMMA BareFeeds ==
  ASSUME NEW m, NEW n, NEW a, m.name = n, m.callbacks = {}, m.refs = {}, m.bare = {n} \X a, m.varying \subseteq m.bare
  PROVE  FeedsForward(m)
BY DEF FeedsForward, WellFormed

\* So do scalars, their splits and weights, and the steppers.
LEMMA ScalarFeeds == ASSUME NEW m, ScalarMaterial(m), Fed(m) PROVE FeedsForward(m)
<1> DEFINE n == m.name
<1>1. ASSUME m = ConstantScalar(n) \/ m = PoissonRatioFromModuli(n) PROVE FeedsForward(m)
  <2>1. Single(m, <<"value">>, {})
    BY <1>1, EmptyReads DEF ConstantScalar, PoissonRatioFromModuli, Single
  <2> QED
    BY <2>1, Lists, SingleFeeds
<1>2. ASSUME m = PropsScalar(n) PROVE FeedsForward(m)
  <2>1. m.callbacks = {} /\ m.refs = {} /\ m.bare = {n} \X {"value"} /\ m.varying = {}
    BY <1>2 DEF PropsScalar, Declare, Bare
  <2> QED
    BY <2>1, BareFeeds
<1>3. ASSUME m = ScalarStepper(n) \/ m = TensorComponentStepper(n) PROVE FeedsForward(m)
  <2>1. PICK o \in {"state", "strain"} : m = Varying(Declare(n, {Filling(n, <<o>>, {}, {<<n, o>>})}), {o})
    BY <1>3 DEF ScalarStepper, TensorComponentStepper
  <2>2. m = Varying(Declare(n, {Filling(n, <<o>>, Global({}), {<<n, o>>} \cup {})}), {o})
    <3>1. {<<n, o>>} \cup {} = {<<n, o>>} /\ Global({}) = {}
      BY EmptyReads
    <3> QED
      BY <2>1, <3>1
  <2>3. IsList(<<o>>) /\ o \in ToSet(<<o>>)
    BY Lists DEF ToSet
  <2> QED
    BY <2>2, <2>3, Stateful
<1>4. ASSUME NEW source, NEW parts, IsList(parts), m = ScalarSplit(n, source, parts) PROVE FeedsForward(m)
  <2>1. Single(m, parts, {source})
    BY <1>4 DEF ScalarSplit, Single
  <2> QED
    BY <1>4, <2>1, SingleFeeds
<1>5. ASSUME NEW source, m = ScalarComplementWeight(n, source) \/ m = ScalarIdentityWeight(n, source)
      PROVE  FeedsForward(m)
  <2>1. Single(m, <<"value">>, {source})
    BY <1>5 DEF ScalarComplementWeight, ScalarIdentityWeight, Single
  <2> QED
    BY <2>1, Lists, SingleFeeds
<1> QED
  BY <1>1, <1>2, <1>3, <1>4, <1>5 DEF ScalarMaterial

\* So do the sources the host fills, recorders, loggers and plots.
LEMMA HostFeeds == ASSUME NEW m, HostMaterial(m), Fed(m) PROVE FeedsForward(m)
<1> DEFINE n == m.name
<1>1. ASSUME m = ExternalStrainSource(n) PROVE FeedsForward(m)
  <2>1. m.callbacks = {} /\ m.refs = {} /\ m.bare = {n} \X {"strain"} /\ m.varying = {n} \X {"strain"}
    BY <1>1 DEF ExternalStrainSource, Declare, Bare, Varying
  <2> QED
    BY <2>1, BareFeeds
<1>2. ASSUME m = ExternalDeformationGradientSource(n) PROVE FeedsForward(m)
  <2>1. /\ m.callbacks = {} /\ m.refs = {} /\ m.bare = {n} \X {"deformation_gradient", "inverse", "determinant"}
        /\ m.varying = {n} \X {"deformation_gradient"}
    BY <1>2 DEF ExternalDeformationGradientSource, Declare, Bare, Varying
  <2>2. m.varying \subseteq m.bare
    BY <2>1
  <2> QED
    BY <2>1, <2>2, BareFeeds
<1>3. ASSUME m = ExternalScalarSource(n) PROVE FeedsForward(m)
  <2>1. m.callbacks = {} /\ m.refs = {} /\ m.bare = {n} \X {"state"} /\ m.varying = {n} \X {"state"}
    BY <1>3 DEF ExternalScalarSource, Declare, Bare, Varying
  <2> QED
    BY <2>1, BareFeeds
<1>4. ASSUME NEW sources, m = PropertyRecorder(n, sources) \/ m = PropertyConsoleLogger(n, sources)
      PROVE  FeedsForward(m)
  <2>1. PICK o \in {"_record_tick", "tick"} :
          m = Varying(Declare(n, {Filling(n, <<o>>, Global(sources), {<<n, o>>} \cup sources)}), {o})
    BY <1>4 DEF PropertyRecorder, PropertyConsoleLogger
  <2>2. IsList(<<o>>) /\ o \in ToSet(<<o>>)
    BY Lists DEF ToSet
  <2> QED
    BY <2>1, <2>2, Stateful
<1>5. ASSUME NEW x, NEW ys, m = PropertyPlot(n, x, ys) PROVE FeedsForward(m)
  <2> DEFINE o == "_plot_tick"  S == {x} \cup ys  R == {<<n, o>>, x} \cup ys  outputs == <<o>>  reads == Global(S)
             V == {n} \X {o}  c == Callback(Written(n, outputs), reads, Reading({}) \cup Reading(R))
  <2>1. m = Varying(Declare(n, {c}), {o})
    <3>1. Written(n, outputs) = << <<n, o>> >>
      BY WrittenFacts
    <3>2. m = Varying(Declare(n, {Callback(<< <<n, o>> >>, Global({x} \cup ys), Reading({}) \cup Reading(R))}), {o})
      BY <1>5 DEF PropertyPlot
    <3> QED
      BY <3>1, <3>2
  <2>2. m.callbacks = {c} /\ m.varying = V /\ m.bare = {} /\ m.refs = {}
    <3> HIDE DEF c
    <3> QED
      BY <2>1 DEF Declare, Varying
  <2>3. Plainly(c, n, outputs, reads, R)
    <3>1. {} \cup R = R
      OBVIOUS
    <3> HIDE DEF R, outputs, reads
    <3>2. Plainly(c, n, outputs, reads, {} \cup R)
      BY Plain
    <3> QED
      BY <3>1, <3>2
  <2>4. IsList(outputs) /\ Undriven(reads) /\ Sources(reads) = S
    BY Lists, UndrivenFacts
  <2>5. Tells(n, outputs, reads, R, V)
    <3>1. <<n, o>> \in Of(n, outputs) /\ <<n, o>> \in R /\ <<n, o>> \in V
      BY OfFacts
    <3>2. Sources(reads) \subseteq R /\ R \subseteq Sources(reads) \cup Of(n, outputs)
      BY <2>4, <3>1
    <3> HIDE DEF R, outputs, reads, V
    <3> QED
      BY <3>1, <3>2 DEF Tells
  <2>6. \A p \in V : p[1] = n
    OBVIOUS
  <2> HIDE DEF R, reads, outputs, c, V
  <2> QED
    BY <2>2, <2>3, <2>4, <2>5, <2>6, PlainCallbacks
<1> QED
  BY <1>1, <1>2, <1>3, <1>4, <1>5 DEF HostMaterial

-----------------------------------------------------------------------------
\* Mean-field homogenization.  The phases of a composite are a list of names.
MeanFieldMaterial(m) ==
  \/ \/ m = DepolarisationSphere(m.name) \/ m = DepolarisationCylinder(m.name)
     \/ m = DepolarisationSpheroid(m.name) \/ m = DepolarisationEllipsoid(m.name)
  \/ \E nu : \/ m = EshelbySphere(m.name, nu) \/ m = EshelbyCylinder(m.name, nu)
             \/ m = EshelbySpheroid(m.name, nu) \/ m = EshelbyEllipsoid(m.name, nu)
  \/ \E tangent, initial, fraction, eshelby, depolarisation :
       m = Phase(m.name, tangent, initial, fraction, eshelby, depolarisation)
  \/ \E kernel \in Kernels : \E strain, phases :
       IsList(phases) /\ m = MeanFieldStrain(m.name, kernel, strain, phases)
  \/ \E kernel \in Kernels : \E phases :
       IsList(phases) /\ m = MeanFieldCompositeGlobal(m.name, kernel, phases)
  \/ \E phases : \/ m = MeanFieldCompositeLocalLinear(m.name, phases)
                 \/ m = MeanFieldCompositeLocalNonlinear(m.name, phases)
  \/ \E matrix, fibre : m = ShortFibreComposite(m.name, matrix, fibre)
  \/ \E terms : m = WeightedSum(m.name, terms)

\* What PlainCallbacks asks of a callback of m.
Says(m, c) ==
  \E outputs, reads, R :
    /\ IsList(outputs) /\ Plainly(c, m.name, outputs, reads, R) /\ Undriven(reads)
    /\ Tells(m.name, outputs, reads, R, m.varying)

\* A callback that reads what it declares, in a material without states.
LEMMA PureSays ==
  ASSUME NEW m, Fed(m), NEW c \in m.callbacks, m.varying = {}, NEW outputs, IsList(outputs),
         NEW reads, Undriven(reads), Plainly(c, m.name, outputs, reads, Sources(reads))
  PROVE  Says(m, c)
<1>1. Tells(m.name, outputs, reads, Sources(reads), m.varying)
  BY PlainTells
<1> QED
  BY <1>1 DEF Says

\* The same over global inputs.
LEMMA PureGlobal ==
  ASSUME NEW m, Fed(m), NEW c \in m.callbacks, m.varying = {}, NEW outputs, IsList(outputs), NEW S,
         c = Filling(m.name, outputs, Global(S), S)
  PROVE  Says(m, c)
<1>1. Undriven(Global(S)) /\ Sources(Global(S)) = S
  BY UndrivenFacts
<1>2. Plainly(c, m.name, outputs, Global(S), Sources(Global(S)))
  BY <1>1, Plain
<1> QED
  BY <1>1, <1>2, PureSays

\* A material all of whose callbacks say what they read.
LEMMA AllSay ==
  ASSUME NEW m, m.refs = {}, \A p \in m.varying \cup m.bare : p[1] = m.name, m.callbacks = {} \/ m.bare = {},
         \A c \in m.callbacks : Says(m, c)
  PROVE  FeedsForward(m)
BY PlainCallbacks DEF Says

\* A phase, whose tangent is of an earlier run where an initial one is given.
LEMMA PhaseFeeds ==
  ASSUME NEW m, Fed(m), NEW tangent, NEW initial, NEW fraction, NEW eshelby, NEW depolarisation,
         m = Phase(m.name, tangent, initial, fraction, eshelby, depolarisation)
  PROVE  FeedsForward(m)
<1> DEFINE n == m.name
           callbacks == {PhaseTangent(n, tangent, initial), Relay(n, "volume_fraction", fraction)}
                          \cup {Relay(n, "eshelby", e) : e \in eshelby}
                          \cup {Relay(n, "depolarisation", d) : d \in depolarisation}
<1>1. m.callbacks = callbacks /\ m.varying = {} /\ m.bare = {} /\ m.refs = {}
  <2>1. m = Declare(n, callbacks)
    BY DEF Phase
  <2> HIDE DEF callbacks
  <2> QED
    BY <2>1 DEF Declare
<1>2. ASSUME NEW c \in m.callbacks, NEW output, NEW source, c = Relay(n, output, source) PROVE Says(m, c)
  <2>1. c = Filling(n, <<output>>, Global({source}), {source}) /\ IsList(<<output>>)
    BY <1>2, Lists DEF Relay
  <2> QED
    BY <1>1, <2>1, PureGlobal
<1>3. ASSUME NEW c \in m.callbacks, c = PhaseTangent(n, tangent, initial) PROVE Says(m, c)
  <2>1. CASE initial = {}
    <3>1. c = Filling(n, <<"tangent">>, Global({tangent}), {tangent}) /\ IsList(<<"tangent">>)
      BY <1>3, <2>1, Lists DEF PhaseTangent
    <3> QED
      BY <1>1, <3>1, PureGlobal
  <2>2. CASE initial # {}
    <3> DEFINE reads == Local({tangent}) \cup Global(initial)  outputs == <<"tangent">>
    <3>1. /\ Undriven(Local({tangent})) /\ Undriven(Global(initial))
          /\ Sources(Local({tangent})) = {tangent} /\ Sources(Global(initial)) = initial
      BY UndrivenFacts
    <3>2. Undriven(reads) /\ Sources(reads) = {tangent} \cup initial
      BY <3>1, UndrivenFacts
    <3> DEFINE b == Callback(Written(n, outputs), reads, Reading(initial) \cup Reading({tangent}))
    <3>3. c = Keeping(b, {<<n, "m_first">>})
      BY <1>3, <2>2, WrittenFacts DEF PhaseTangent
    <3>4. initial \cup {tangent} = {tangent} \cup initial /\ IsList(outputs)
      BY Lists
    <3>5. Plainly(c, n, outputs, reads, initial \cup {tangent})
      <4>1. c.fills = b.fills /\ c.reads = b.reads /\ c.runs = b.runs
        BY <3>3 DEF Keeping, Callback
      <4>2. ReadBy(c) = ReadBy(b)
        BY <4>1 DEF ReadBy
      <4>3. <<tangent, "local">> \in c.reads
        BY <4>1 DEF Callback, Local, Over
      <4>4. MayKeep(c)
        BY <1>3, <2>2, <4>3 DEF MayKeep, Departs, Previous
      <4> HIDE DEF reads, outputs
      <4>5. Plainly(b, n, outputs, reads, initial \cup {tangent})
        BY Plain
      <4> QED
        BY <4>1, <4>2, <4>4, <4>5 DEF Plainly
    <3> HIDE DEF reads, outputs, b
    <3>6. Plainly(c, n, outputs, reads, Sources(reads))
      BY <3>2, <3>4, <3>5
    <3> QED
      BY <1>1, <3>2, <3>4, <3>6, PureSays
  <2> QED
    BY <2>1, <2>2
<1>4. ASSUME NEW c \in m.callbacks PROVE Says(m, c)
  <2>1. \/ c = PhaseTangent(n, tangent, initial) \/ c = Relay(n, "volume_fraction", fraction)
        \/ \E e \in eshelby : c = Relay(n, "eshelby", e)
        \/ \E d \in depolarisation : c = Relay(n, "depolarisation", d)
    BY <1>1
  <2> QED
    BY <1>2, <1>3, <2>1
<1> QED
  BY <1>1, <1>4, AllSay

\* The kernels use what they ask for.
LEMMA KernelUses ==
  ASSUME NEW kernel \in Kernels, NEW phases
  PROVE  KernelInputs(kernel, phases) = Localised(phases, kernel)
<1>1. ASSUME NEW p
      PROVE  PhaseInputs(phases, p, NeedsTangents(kernel), NeedsEshelby(kernel))
               = {Fraction(p)} \cup UsedByKernel(kernel, p, p = Head(phases))
  BY DEF PhaseInputs, NeedsTangents, NeedsEshelby, UsedByKernel, Kernels
<1> QED
  BY <1>1 DEF KernelInputs, Localised

\* The reads of a composite with several phases.
LEMMA GlobalUses ==
  ASSUME NEW kernel \in Kernels, NEW phases
  PROVE  UNION {PhaseInputs(phases, p, TRUE, NeedsEshelby(kernel)) : p \in ToSet(phases)}
           = Localised(phases, kernel) \cup (ToSet(phases) \X {"tangent"})
<1>1. ASSUME NEW p
      PROVE  PhaseInputs(phases, p, TRUE, NeedsEshelby(kernel))
               = ({Fraction(p)} \cup UsedByKernel(kernel, p, p = Head(phases))) \cup {<<p, "tangent">>}
  BY DEF PhaseInputs, NeedsEshelby, UsedByKernel, Kernels
<1>2. ASSUME NEW x
      PROVE  x \in UNION {PhaseInputs(phases, p, TRUE, NeedsEshelby(kernel)) : p \in ToSet(phases)}
               <=> x \in Localised(phases, kernel) \cup (ToSet(phases) \X {"tangent"})
  <2>1. x \in UNION {PhaseInputs(phases, p, TRUE, NeedsEshelby(kernel)) : p \in ToSet(phases)}
          <=> \E p \in ToSet(phases) : x \in PhaseInputs(phases, p, TRUE, NeedsEshelby(kernel))
    OBVIOUS
  <2>2. x \in Localised(phases, kernel)
          <=> \E p \in ToSet(phases) : x \in {Fraction(p)} \cup UsedByKernel(kernel, p, p = Head(phases))
    BY DEF Localised
  <2>3. x \in ToSet(phases) \X {"tangent"} <=> \E p \in ToSet(phases) : x = <<p, "tangent">>
    OBVIOUS
  <2>4. \A p : x \in PhaseInputs(phases, p, TRUE, NeedsEshelby(kernel))
              <=> x \in {Fraction(p)} \cup UsedByKernel(kernel, p, p = Head(phases)) \/ x = <<p, "tangent">>
    <3> TAKE p
    <3>1. PhaseInputs(phases, p, TRUE, NeedsEshelby(kernel))
            = ({Fraction(p)} \cup UsedByKernel(kernel, p, p = Head(phases))) \cup {<<p, "tangent">>}
      BY <1>1
    <3> QED
      BY <3>1
  <2> QED
    BY <2>1, <2>2, <2>3, <2>4
<1> QED
  BY <1>2

\* A list of outputs, one for each phase.
LEMMA PerPhase ==
  ASSUME NEW phases, IsList(phases), NEW f, f = [i \in DOMAIN phases |-> f[i]]
  PROVE  IsList(f)
<1>1. phases \in Seq(ToSet(phases)) /\ Len(phases) \in Nat /\ Len(phases) > 0 /\ DOMAIN phases = 1 .. Len(phases)
  BY DEF IsList
<1>2. \A i \in DOMAIN f : f[i] \in ToSet(f)
  BY DEF ToSet
<1>3. f \in [1 .. Len(phases) -> ToSet(f)]
  BY <1>1, <1>2
<1>4. f \in Seq(ToSet(f)) /\ Len(f) = Len(phases)
  BY <1>1, <1>3
<1> QED
  BY <1>1, <1>4 DEF IsList

\* The strains of the phases, by any of the kernels.
LEMMA StrainFeeds ==
  ASSUME NEW m, Fed(m), NEW kernel \in Kernels, NEW strain, NEW phases, IsList(phases),
         m = MeanFieldStrain(m.name, kernel, strain, phases)
  PROVE  FeedsForward(m)
<1> DEFINE n == m.name
           a == [i \in DOMAIN phases |-> "concentration_" \o phases[i]]
           e == [i \in DOMAIN phases |-> "strain_" \o phases[i]]
           A == Written(n, a)  eps == Written(n, e)
           S == KernelInputs(kernel, phases)
           c1 == Callback(A, Global(S), Reading(S))
           reads == Global({strain}) \cup Own(ToSet(A))
           R == {strain} \cup ToSet(A) \cup ToSet(eps)
           c2 == Callback(eps, reads, Reading(R))
<1>1. A = [i \in DOMAIN phases |-> Concentration(n, phases[i])] /\ eps = [i \in DOMAIN phases |-> PhaseStrain(n, phases[i])]
  BY DEF Written, Concentration, PhaseStrain
<1>2. m = [Declare(n, {c1, c2}) EXCEPT !.varying = ToSet(eps)]
  <2>1. S = Localised(phases, kernel)
    BY KernelUses
  <2> QED
    BY <1>1, <2>1 DEF MeanFieldStrain
<1>3. IsList(a) /\ IsList(e)
  BY PerPhase
<1>4. \A n1, f : IsList(f) => ToSet(Written(n1, f)) = Of(n1, f) /\ Of(n1, f) # {}
  <2> SUFFICES ASSUME NEW n1, NEW f, IsList(f) PROVE ToSet(Written(n1, f)) = Of(n1, f) /\ Of(n1, f) # {}
    OBVIOUS
  <2>1. DOMAIN f = 1 .. Len(f) /\ DOMAIN Written(n1, f) = DOMAIN f /\ 1 \in 1 .. Len(f)
    BY DEF Written, IsList
  <2>2. ToSet(Written(n1, f)) = {<<n1, f[i]>> : i \in DOMAIN f}
    BY <2>1 DEF ToSet, Written
  <2>3. ToSet(f) = {f[i] : i \in DOMAIN f} /\ f[1] \in ToSet(f)
    BY <2>1 DEF ToSet
  <2> QED
    <3>1. ToSet(Written(n1, f)) \subseteq Of(n1, f)
      BY <2>2, <2>3 DEF Of
    <3>2. Of(n1, f) \subseteq ToSet(Written(n1, f))
      BY <2>2, <2>3 DEF Of
    <3>3. <<n1, f[1]>> \in Of(n1, f)
      BY <2>3 DEF Of
    <3> QED
      BY <3>1, <3>2, <3>3
<1>5. ToSet(A) = Of(n, a) /\ ToSet(eps) = Of(n, e) /\ Of(n, a) # {} /\ Of(n, e) # {}
  BY <1>3, <1>4
<1>6. c1.fills = A /\ c2.fills = eps /\ c1.reads = Global(S) /\ c2.reads = reads
  BY DEF Callback
<1> HIDE DEF a, e, S, R, reads, c1, c2
<1>7. m.callbacks = {c1, c2} /\ m.varying = Of(n, e) /\ m.bare = {} /\ m.refs = {}
  BY <1>2, <1>5 DEF Declare
<1>8. Plainly(c1, n, a, Global(S), S) /\ Plainly(c2, n, e, reads, R)
  BY Plain DEF c1, c2
<1>9. Undriven(Global(S)) /\ Sources(Global(S)) = S /\ Undriven(reads) /\ Sources(reads) = {strain} \cup ToSet(A)
  BY UndrivenFacts DEF reads
<1>10. Of(n, a) \cap Of(n, e) = {}
  <2>1. c1 # c2
    <3>1. PICK p : p \in ToSet(A)
      BY <1>5
    <3>2. <<p, "own">> \in c2.reads
      BY <1>6, <3>1 DEF reads, Own, Over
    <3>3. <<p, "own">> \notin c1.reads
      BY <1>6 DEF Global, Over
    <3> QED
      BY <3>2, <3>3
  <2>2. Fills(c1) \cap Fills(c2) = {}
    BY <1>7, <2>1 DEF Fed
  <2> QED
    BY <1>5, <1>6, <2>2 DEF Fills
<1>11. Says(m, c1)
  <2>1. Tells(n, a, Global(S), S, m.varying)
    BY <1>3, <1>7, <1>8, <1>9, <1>10, PlainTells
  <2> QED
    BY <1>3, <1>8, <1>9, <2>1 DEF Says
<1>12. Says(m, c2)
  <2>1. Tells(n, e, reads, R, m.varying)
    BY <1>5, <1>7, <1>9 DEF Tells, R
  <2> QED
    BY <1>3, <1>8, <1>9, <2>1 DEF Says
<1>13. \A p \in Of(n, e) : p[1] = n
  BY DEF Of
<1> QED
  BY <1>7, <1>11, <1>12, <1>13, AllSay

\* One output before a list of them.
LEMMA Prepend ==
  ASSUME NEW U, NEW x \in U, NEW f \in Seq(U)
  PROVE  /\ <<x>> \o f \in Seq(U) /\ Len(<<x>> \o f) = Len(f) + 1
         /\ \A i \in 1 .. Len(f) + 1 : (<<x>> \o f)[i] = IF i = 1 THEN x ELSE f[i - 1]
         /\ <<x>> \o f = [i \in 1 .. Len(f) + 1 |-> IF i = 1 THEN x ELSE f[i - 1]]
<1>1. <<x>> \in Seq(U) /\ Len(<<x>>) = 1 /\ <<x>>[1] = x /\ Len(f) \in Nat
  OBVIOUS
<1> DEFINE L == <<x>>
<1> HIDE DEF L
<1>2. L \in Seq(U) /\ Len(L) = 1 /\ L[1] = x
  BY <1>1 DEF L
<1> DEFINE s == L \o f
<1>3. /\ s \in Seq(U) /\ Len(s) = Len(L) + Len(f)
      /\ \A i \in 1 .. Len(L) + Len(f) : s[i] = IF i <= Len(L) THEN L[i] ELSE f[i - Len(L)]
  BY <1>2, ConcatProperties
<1> HIDE DEF s
<1>4. Len(s) = Len(f) + 1 /\ \A i \in 1 .. Len(f) + 1 : s[i] = IF i = 1 THEN x ELSE f[i - 1]
  BY <1>1, <1>2, <1>3
<1>5. s = [i \in 1 .. Len(f) + 1 |-> IF i = 1 THEN x ELSE f[i - 1]]
  <2>1. s = [i \in 1 .. Len(s) |-> s[i]]
    BY <1>3
  <2> QED
    BY <1>4, <2>1
<1> QED
  BY <1>3, <1>4, <1>5 DEF L, s

\* The effective tangent of any number of phases.
LEMMA GlobalCompositeFeeds ==
  ASSUME NEW m, Fed(m), NEW kernel \in Kernels, NEW phases, IsList(phases),
         m = MeanFieldCompositeGlobal(m.name, kernel, phases)
  PROVE  FeedsForward(m)
<1> DEFINE n == m.name
           a == [i \in DOMAIN phases |-> "concentration_" \o phases[i]]
           A == [i \in DOMAIN phases |-> Concentration(n, phases[i])]
           outputs == <<"tangent">> \o a
           S == UNION {PhaseInputs(phases, p, TRUE, NeedsEshelby(kernel)) : p \in ToSet(phases)}
           c == Callback(Written(n, outputs), Global(S), Reading(S))
<1>1. IsList(a) /\ Len(a) = Len(phases)
  <2>1. IsList(a)
    BY PerPhase
  <2>2. DOMAIN a = DOMAIN phases /\ DOMAIN phases = 1 .. Len(phases) /\ Len(phases) \in Nat
    BY DEF IsList
  <2>3. DOMAIN a = 1 .. Len(a) /\ Len(a) \in Nat
    BY <2>1 DEF IsList
  <2> QED
    BY <2>1, <2>2, <2>3
<1>2. IsList(outputs) /\ Len(outputs) = Len(a) + 1 /\ \A i \in 1 .. Len(outputs) : outputs[i] = IF i = 1 THEN "tangent" ELSE a[i - 1]
  <2> DEFINE T == ToSet(a) \cup {"tangent"}
  <2> HIDE DEF a
  <2>1. a \in Seq(ToSet(a)) /\ Len(a) \in Nat
    BY <1>1 DEF IsList
  <2>2. a \in Seq(T)
    <3>1. DOMAIN a = 1 .. Len(a) /\ \A i \in 1 .. Len(a) : a[i] \in T
      BY <2>1 DEF ToSet
    <3> HIDE DEF T
    <3>2. a \in [1 .. Len(a) -> T]
      BY <2>1, <3>1
    <3> QED
      BY <2>1, <3>2
  <2>3. "tangent" \in T
    OBVIOUS
  <2> HIDE DEF T
  <2>4. outputs \in Seq(T) /\ Len(outputs) = Len(a) + 1
    BY <2>2, <2>3, Prepend
  <2>5. \A i \in 1 .. Len(outputs) : outputs[i] = IF i = 1 THEN "tangent" ELSE a[i - 1]
    BY <2>2, <2>3, <2>4, Prepend
  <2> HIDE DEF outputs
  <2>6. IsList(outputs)
    <3>1. \A i \in 1 .. Len(outputs) : outputs[i] \in ToSet(outputs)
      BY <2>4 DEF ToSet
    <3>2. outputs \in [1 .. Len(outputs) -> ToSet(outputs)] /\ Len(outputs) \in Nat
      BY <2>4, <3>1
    <3> QED
      BY <2>1, <2>4, <3>2 DEF IsList
  <2> QED
    BY <2>4, <2>5, <2>6
<1>3. Written(n, outputs) = << <<n, "tangent">> >> \o A
  <2> DEFINE L == << <<n, "tangent">> >>  U == ToSet(A) \cup {<<n, "tangent">>}
  <2>1. DOMAIN phases = 1 .. Len(phases) /\ Len(phases) \in Nat /\ Len(phases) = Len(a)
    BY <1>1 DEF IsList
  <2>2. DOMAIN A = 1 .. Len(phases) /\ \A i \in 1 .. Len(phases) : A[i] \in U
    BY <2>1 DEF ToSet
  <2>3. A \in Seq(U) /\ Len(A) = Len(phases)
    <3> HIDE DEF U
    <3>1. A \in [1 .. Len(phases) -> U]
      BY <2>2
    <3> HIDE DEF A
    <3> QED
      BY <2>1, <3>1
  <2>4. L \in Seq(U) /\ Len(L) = 1 /\ L[1] = <<n, "tangent">>
    OBVIOUS
  <2>5. \A i \in 1 .. Len(phases) : A[i] = <<n, a[i]>>
    BY <2>1 DEF Concentration
  <2> HIDE DEF L, U, A, a
  <2>6. L \o A = [i \in 1 .. Len(phases) + 1 |-> IF i = 1 THEN L[1] ELSE A[i - 1]]
    <3>1. L = <<L[1]>> /\ L[1] \in U
      BY DEF L, U
    <3>2. <<L[1]>> \o A = [i \in 1 .. Len(A) + 1 |-> IF i = 1 THEN L[1] ELSE A[i - 1]]
      BY <2>3, <3>1, Prepend
    <3> QED
      BY <2>3, <3>1, <3>2
  <2>7. DOMAIN outputs = 1 .. Len(phases) + 1
    BY <1>2, <2>1 DEF IsList
  <2> HIDE DEF outputs
  <2>8. Written(n, outputs) = [i \in 1 .. Len(phases) + 1 |-> <<n, outputs[i]>>]
    BY <2>7 DEF Written
  <2>9. \A i \in 1 .. Len(phases) + 1 : <<n, outputs[i]>> = IF i = 1 THEN L[1] ELSE A[i - 1]
    <3> SUFFICES ASSUME NEW i \in 1 .. Len(phases) + 1 PROVE <<n, outputs[i]>> = IF i = 1 THEN L[1] ELSE A[i - 1]
      OBVIOUS
    <3>1. outputs[i] = IF i = 1 THEN "tangent" ELSE a[i - 1]
      BY <1>2, <2>1
    <3>2. i # 1 => i - 1 \in 1 .. Len(phases)
      BY <2>1
    <3> QED
      BY <2>4, <2>5, <3>1, <3>2
  <2> QED
    BY <2>6, <2>8, <2>9 DEF L
<1>4. m = Declare(n, {c})
  <2>1. m = Declare(n, {Callback(<< <<n, "tangent">> >> \o A, Global(S),
                                 Reading(Localised(phases, kernel) \cup (ToSet(phases) \X {"tangent"})))})
    BY DEF MeanFieldCompositeGlobal
  <2>2. Localised(phases, kernel) \cup (ToSet(phases) \X {"tangent"}) = S
    BY GlobalUses
  <2> QED
    BY <1>3, <2>1, <2>2
<1> HIDE DEF outputs, S
<1>5. Plainly(c, n, outputs, Global(S), S)
  BY Plain
<1>6. Undriven(Global(S)) /\ Sources(Global(S)) = S
  BY UndrivenFacts
<1> HIDE DEF c
<1>7. m.callbacks = {c} /\ m.varying = {} /\ m.bare = {} /\ m.refs = {}
  BY <1>4 DEF Declare
<1>8. Says(m, c)
  BY <1>2, <1>5, <1>6, <1>7, PureSays
<1> QED
  BY <1>7, <1>8, AllSay

\* The materials of mean-field homogenization keep to their declarations.
LEMMA MeanFieldFeeds == ASSUME NEW m, MeanFieldMaterial(m), Fed(m) PROVE FeedsForward(m)
<1> DEFINE n == m.name
<1>1. ASSUME \/ m = DepolarisationSphere(n) \/ m = DepolarisationCylinder(n)
             \/ m = DepolarisationSpheroid(n) \/ m = DepolarisationEllipsoid(n)
      PROVE  FeedsForward(m)
  <2>1. m = DepolarisationTensor(n)
    BY <1>1 DEF DepolarisationSphere, DepolarisationCylinder, DepolarisationSpheroid, DepolarisationEllipsoid
  <2>2. Single(m, <<"tensor">>, {})
    BY <2>1, EmptyReads DEF DepolarisationTensor, Single
  <2> QED
    BY <2>2, Lists, SingleFeeds
<1>2. ASSUME NEW nu, \/ m = EshelbySphere(n, nu) \/ m = EshelbyCylinder(n, nu)
                     \/ m = EshelbySpheroid(n, nu) \/ m = EshelbyEllipsoid(n, nu)
      PROVE  FeedsForward(m)
  <2>1. m = EshelbyTensor(n, nu)
    BY <1>2 DEF EshelbySphere, EshelbyCylinder, EshelbySpheroid, EshelbyEllipsoid
  <2>2. Single(m, <<"tensor">>, {nu})
    BY <2>1 DEF EshelbyTensor, Single
  <2> QED
    BY <2>2, Lists, SingleFeeds
<1>3. ASSUME NEW phases, \/ m = MeanFieldCompositeLocalLinear(n, phases)
                         \/ m = MeanFieldCompositeLocalNonlinear(n, phases)
      PROVE  FeedsForward(m)
  <2>1. CASE m = MeanFieldCompositeLocalLinear(n, phases)
    <3>1. Single(m, <<"stress", "tangent">>, Averaged(phases))
      BY <2>1 DEF MeanFieldCompositeLocalLinear, Single
    <3> QED
      BY <3>1, Lists, SingleFeeds
  <2>2. CASE m = MeanFieldCompositeLocalNonlinear(n, phases)
    <3> DEFINE S == Averaged(phases) \cup UNION {p.used : p \in phases}
    <3>1. m = Declare(n, {Filling(n, <<"stress", "tangent", "residual">>, Global(S), S)})
      BY <2>2 DEF MeanFieldCompositeLocalNonlinear
    <3> HIDE DEF S
    <3>2. Single(m, <<"stress", "tangent", "residual">>, S)
      BY <3>1 DEF Single
    <3> QED
      BY <3>2, Lists, SingleFeeds
  <2> QED
    BY <1>3, <2>1, <2>2
<1>4. ASSUME NEW matrix, NEW fibre, m = ShortFibreComposite(n, matrix, fibre) PROVE FeedsForward(m)
  <2> DEFINE S == {<<matrix, "tangent">>, Fraction(matrix), <<fibre, "tangent">>, Fraction(fibre),
                   <<fibre, "eshelby">>}
             outputs == <<"tangent", "concentration_matrix", "concentration_fibre">>
  <2>1. m = Declare(n, {Filling(n, outputs, Global(S), S)})
    BY <1>4 DEF ShortFibreComposite
  <2>2. IsList(outputs)
    BY Lists
  <2> HIDE DEF S, outputs
  <2>3. Single(m, outputs, S)
    BY <2>1 DEF Single
  <2> QED
    BY <2>2, <2>3, SingleFeeds
<1>5. ASSUME NEW terms, m = WeightedSum(n, terms) PROVE FeedsForward(m)
  <2> DEFINE all(k) == {t[k] : t \in terms}
             S1 == all("weight") \cup all("stress")  S2 == all("weight") \cup all("tangent")
             c1 == Filling(n, <<"stress">>, Global(S1), S1)  c2 == Filling(n, <<"tangent">>, Global(S2), S2)
  <2>1. m = Declare(n, {c1, c2})
    BY <1>5 DEF WeightedSum
  <2> HIDE DEF S1, S2
  <2>2. m.callbacks = {c1, c2} /\ m.varying = {} /\ m.bare = {} /\ m.refs = {}
    <3> HIDE DEF c1, c2
    <3> QED
      BY <2>1 DEF Declare
  <2>3. Says(m, c1)
    <3>1. IsList(<<"stress">>) /\ c1 \in m.callbacks
      BY <2>2, Lists
    <3> QED
      BY <2>2, <3>1, PureGlobal
  <2>4. Says(m, c2)
    <3>1. IsList(<<"tangent">>) /\ c2 \in m.callbacks
      BY <2>2, Lists
    <3> QED
      BY <2>2, <3>1, PureGlobal
  <2> HIDE DEF c1, c2
  <2> QED
    BY <2>2, <2>3, <2>4, AllSay
<1> QED
  BY <1>1, <1>2, <1>3, <1>4, <1>5, PhaseFeeds, StrainFeeds, GlobalCompositeFeeds DEF MeanFieldMaterial

-----------------------------------------------------------------------------
\* Materials that serve a local solve, and do not solve themselves.
ServingMaterial(m) ==
  \/ \E source : m = LinearIsotropicHardening(m.name, source) \/ m = ExponentialIsotropicHardening(m.name, source)
  \/ \E temperature, integrator : \/ m = CuringRate(m.name, temperature, integrator)
                                  \/ m = KamalSourourRate(m.name, temperature, integrator)
  \/ \E temperature, time, solver : m = AutocatalyticReaction(m.name, temperature, time, solver)
  \/ m = LocalNewton(m.name)
  \/ \E function : m = VectorNewton(m.name, function)

\* A reaction, which reads its own state in three of its four callbacks.
LEMMA ReactionFeeds ==
  ASSUME NEW m, Fed(m), NEW temperature, NEW time, NEW solver,
         m = AutocatalyticReaction(m.name, temperature, time, solver)
  PROVE  FeedsForward(m)
<1> DEFINE n == m.name  theta == <<temperature, "state">>  dz == <<solver, "delta">>  z == <<n, "current_state">>
           t == <<time, "state">>  V == {n} \X {"current_state"}
           c1 == Filling(n, <<"current_state">>, Global({theta, dz}), {z, dz, theta})
           c2 == AutocatalyticSystem(n, "residual", theta, t, dz)
           c3 == AutocatalyticSystem(n, "jacobian", theta, t, dz)
           c4 == Filling(n, <<"rate", "rate_derivative">>, Global({theta}) \cup Own({z}), {theta, z})
<1>1. m.callbacks = {c1, c2, c3, c4} /\ m.varying = V /\ m.bare = {} /\ m.refs = {}
  <2>1. m = Varying(Declare(n, {c1, c2, c3, c4}), {"current_state"})
    BY DEF AutocatalyticReaction
  <2> HIDE DEF c1, c2, c3, c4
  <2> QED
    BY <2>1 DEF Declare, Varying
<1>2. ASSUME NEW c \in m.callbacks, NEW outputs, IsList(outputs), NEW reads, Undriven(reads),
             c = Filling(n, outputs, reads, Sources(reads)), Of(n, outputs) \cap V = {}
      PROVE  Says(m, c)
  <2>1. Plainly(c, n, outputs, reads, Sources(reads))
    BY <1>2, Plain
  <2>2. Tells(n, outputs, reads, Sources(reads), V)
    BY <1>2, <2>1, PlainTells
  <2> QED
    BY <1>1, <1>2, <2>1, <2>2 DEF Says
<1>3. Of(n, <<"current_state">>) = {z} /\ V = {z}
  BY OfFacts
<1>4. Says(m, c1)
  <2> DEFINE reads == Global({theta, dz})  R == {z, dz, theta}
  <2>1. Undriven(reads) /\ Sources(reads) = {theta, dz}
    BY UndrivenFacts
  <2>2. Tells(n, <<"current_state">>, reads, R, V)
    <3>1. Sources(reads) \subseteq R /\ R \subseteq Sources(reads) \cup {z} /\ z \in R
      BY <2>1
    <3> HIDE DEF reads, R, V, z
    <3> QED
      BY <1>3, <3>1 DEF Tells
  <2>3. Plainly(c1, n, <<"current_state">>, reads, R)
    BY Plain
  <2>4. IsList(<<"current_state">>)
    BY Lists
  <2> HIDE DEF reads, R, c1, V, n
  <2> QED
    BY <1>1, <2>1, <2>2, <2>3, <2>4 DEF Says, n
<1>5. ASSUME NEW o \in {"residual", "jacobian"}, NEW c \in m.callbacks, c = AutocatalyticSystem(n, o, theta, t, dz)
      PROVE  Says(m, c)
  <2> DEFINE r1 == Global({theta, t, dz})  r2 == Own({z})  reads == r1 \cup r2
  <2>1. Undriven(r1) /\ Undriven(r2) /\ Sources(r1) = {theta, t, dz} /\ Sources(r2) = {z}
    BY UndrivenFacts
  <2>2. Undriven(reads) /\ Sources(reads) = Sources(r1) \cup Sources(r2)
    BY <2>1, UndrivenFacts
  <2>3. {theta, t, dz, z} = Sources(reads)
    BY <2>1, <2>2
  <2>4. c = Filling(n, <<o>>, reads, Sources(reads))
    BY <1>5, <2>3 DEF AutocatalyticSystem
  <2>5. Of(n, <<o>>) \cap V = {}
    <3>1. Of(n, <<o>>) = {<<n, o>>} /\ o # "current_state"
      BY OfFacts
    <3> QED
      BY <3>1
  <2> HIDE DEF reads
  <2> QED
    BY <1>2, <2>2, <2>4, <2>5, Lists
<1>6. Says(m, c4)
  <2> DEFINE r1 == Global({theta})  r2 == Own({z})  reads == r1 \cup r2  outputs == <<"rate", "rate_derivative">>
  <2>1. Undriven(r1) /\ Undriven(r2) /\ Sources(r1) = {theta} /\ Sources(r2) = {z}
    BY UndrivenFacts
  <2>2. Undriven(reads) /\ Sources(reads) = Sources(r1) \cup Sources(r2)
    BY <2>1, UndrivenFacts
  <2>3. {theta, z} = Sources(reads)
    BY <2>1, <2>2
  <2>4. c4 = Filling(n, outputs, reads, Sources(reads)) /\ c4 \in m.callbacks
    BY <1>1, <2>3
  <2>5. Of(n, outputs) \cap V = {} /\ IsList(outputs)
    <3>1. Of(n, outputs) = {<<n, "rate">>, <<n, "rate_derivative">>}
      BY OfFacts
    <3> QED
      BY <3>1, Lists
  <2> HIDE DEF reads, outputs, c4
  <2> QED
    BY <1>2, <2>2, <2>4, <2>5
<1>7. \A c \in m.callbacks : Says(m, c)
  <2>1. Says(m, c2) /\ Says(m, c3)
    BY <1>1, <1>5
  <2> HIDE DEF c1, c2, c3, c4
  <2> QED
    BY <1>1, <1>4, <1>6, <2>1
<1>8. \A p \in V : p[1] = n
  OBVIOUS
<1> QED
  BY <1>1, <1>7, <1>8, AllSay

\* Hardening, rate laws, reactions and solvers keep to their declarations.
LEMMA ServingFeeds == ASSUME NEW m, ServingMaterial(m), Fed(m) PROVE FeedsForward(m)
<1> DEFINE n == m.name
<1>1. ASSUME NEW source, m = LinearIsotropicHardening(n, source) \/ m = ExponentialIsotropicHardening(n, source)
      PROVE  FeedsForward(m)
  <2>1. Single(m, <<"hardening_stress", "hardening_modulus">>, {<<source, "equivalent_plastic_strain">>})
    BY <1>1 DEF LinearIsotropicHardening, ExponentialIsotropicHardening, HardeningCurve, Single
  <2> QED
    BY <2>1, Lists, SingleFeeds
<1>2. ASSUME NEW temperature, NEW integrator,
             m = CuringRate(n, temperature, integrator) \/ m = KamalSourourRate(n, temperature, integrator)
      PROVE  FeedsForward(m)
  <2> DEFINE r1 == Global({<<temperature, "state">>})  r2 == Local({<<integrator, "state">>})  reads == r1 \cup r2
  <2>1. /\ Undriven(r1) /\ Undriven(r2) /\ Sources(r1) = {<<temperature, "state">>}
        /\ Sources(r2) = {<<integrator, "state">>}
    BY UndrivenFacts
  <2>2. Undriven(reads) /\ Sources(reads) = Sources(r1) \cup Sources(r2)
    BY <2>1, UndrivenFacts
  <2>3. {<<temperature, "state">>, <<integrator, "state">>} = Sources(reads)
    BY <2>1, <2>2
  <2>4. m = Declare(n, {Filling(n, <<"rate", "rate_derivative">>, reads, Sources(reads))})
    BY <1>2, <2>3 DEF CuringRate, KamalSourourRate, RateLaw
  <2> HIDE DEF reads
  <2> QED
    BY <2>2, <2>4, Lists, Pure
<1>3. ASSUME m = LocalNewton(n) PROVE FeedsForward(m)
  <2>1. m.callbacks = {} /\ m.refs = {} /\ m.bare = {n} \X {"iterations"} /\ m.varying = {}
    BY <1>3 DEF LocalNewton, Declare, Bare
  <2> QED
    BY <2>1, BareFeeds
<1>4. ASSUME NEW function, m = VectorNewton(n, function) PROVE FeedsForward(m)
  <2> DEFINE outs == {p[2] : p \in Solution(n)}
  <2>1. m.callbacks = {} /\ m.refs = {} /\ m.bare = {n} \X outs /\ m.varying = {}
    <3> HIDE DEF outs
    <3>1. m = [Bare(Declare(n, {}), outs) EXCEPT !.wires = Local({<<function, r>> : r \in ToSet(ResidualOutputs)})]
      BY <1>4 DEF VectorNewton, outs
    <3> QED
      BY <3>1 DEF Declare, Bare
  <2> HIDE DEF outs
  <2> QED
    BY <2>1, BareFeeds
<1> QED
  BY <1>1, <1>2, <1>3, <1>4, ReactionFeeds DEF ServingMaterial

-----------------------------------------------------------------------------
(***************************************************************************)
(* A deck.                                                                 *)
(***************************************************************************)
LEMMA WiredFed ==
  ASSUME NEW M \in Decks, Wired(M), NEW m \in M
  PROVE  Fed(m)
<1>1. m.callbacks \subseteq Callbacks(M)
  BY DEF Callbacks
<1>2. \A c, e \in Callbacks(M) : c # e => ToSet(c.fills) \cap ToSet(e.fills) = {}
  BY DeclarationAssumption
<1> QED
  BY <1>1, <1>2 DEF Wired, Fed, Fills

\* The callback behind a property is the one that fills it.
LEMMA BehindIn ==
  ASSUME NEW M \in Decks, NEW c \in Callbacks(M), NEW p \in Fills(c)
  PROVE  BehindIt(M, p) = c
<1>1. BehindIt(M, p) \in Callbacks(M) /\ p \in ToSet(BehindIt(M, p).fills)
  BY DEF BehindIt, Fills
<1>2. \A b, e \in Callbacks(M) : b # e => ToSet(b.fills) \cap ToSet(e.fills) = {}
  BY DeclarationAssumption
<1> QED
  BY <1>1, <1>2 DEF Fills

\* The properties of a deck are filled by a callback or bare.
LEMMA NodesAre ==
  ASSUME NEW M
  PROVE  Nodes(M) = Produced(M) \cup BareOutputs(M)
<1>1. \A m \in M : Outputs(m) = m.bare \cup UNION {Fills(c) : c \in m.callbacks}
  BY DEF Outputs, Fills
<1>2. Nodes(M) = UNION {m.bare \cup UNION {Fills(c) : c \in m.callbacks} : m \in M}
  BY <1>1 DEF Nodes
<1>3. Produced(M) = UNION {Fills(c) : c \in UNION {m.callbacks : m \in M}}
  BY DEF Produced, Callbacks
<1>4. \A x : x \in Produced(M) <=> \E m \in M : \E c \in m.callbacks : x \in Fills(c)
  BY <1>3
<1>5. \A x : x \in Nodes(M) <=> \E m \in M : x \in m.bare \/ \E c \in m.callbacks : x \in Fills(c)
  BY <1>2
<1> QED
  BY <1>4, <1>5 DEF BareOutputs

\* The declarations of well-formed materials in a deck that is wired.
LEMMA FormedKeeps ==
  ASSUME NEW M \in Decks, Wired(M), \A m \in M : WellFormed(m), NEW m \in M, NEW c \in m.callbacks,
         DrivenBy(c) \subseteq Produced(M)
  PROVE  /\ c.fills \in Seq(Nodes(M)) \ {<<>>} /\ \A p \in Fills(c) : p[1] = m.name
         /\ c.reads \subseteq Nodes(M) \X {"global", "local", "driven", "own"}
         /\ ReadsWhatItDeclares(c) /\ KeptIsNotFolded(M, c) /\ AwaitsWhatIsFilled(M, c)
         /\ HasState(M, c) <=> ReadBy(c) \cap Fills(c) # {}
<1>1. KeepsAlone(m.varying, c) /\ (\A p \in Fills(c) : p[1] = m.name) /\ c \in Callbacks(M)
  BY DEF WellFormed, Callbacks
<1>2. Fills(c) \subseteq Nodes(M)
  BY <1>1, NodesAre DEF Produced
<1>3. c.fills \in Seq(Nodes(M)) \ {<<>>}
  <2>1. c.fills \in Seq(Fills(c)) /\ c.fills # <<>>
    BY <1>1 DEF KeepsAlone
  <2>2. \A i \in 1 .. Len(c.fills) : c.fills[i] \in Fills(c)
    BY <2>1
  <2>3. c.fills \in [1 .. Len(c.fills) -> Nodes(M)] /\ Len(c.fills) \in Nat
    BY <1>2, <2>1, <2>2
  <2> QED
    BY <2>1, <2>3
<1>4. c.reads \subseteq Nodes(M) \X {"global", "local", "driven", "own"}
  <2>1. c.reads \subseteq DeclaredBy(c) \X {"global", "local", "driven", "own"}
    BY <1>1 DEF KeepsAlone
  <2>2. DeclaredBy(c) \subseteq Nodes(M)
    BY <1>1 DEF Wired
  <2> QED
    BY <2>1, <2>2
<1>5. KeptIsNotFolded(M, c) /\ (HasState(M, c) <=> ReadBy(c) \cap Fills(c) # {})
  <2>1. \A o \in M : o.name = m.name => o = m
    BY DeclarationAssumption
  <2>2. \A o \in M : \A p \in o.varying : p[1] = o.name
    BY DEF WellFormed
  <2>3. Fills(c) \cap UNION {o.varying : o \in M} = Fills(c) \cap m.varying
    BY <1>1, <2>1, <2>2
  <2> QED
    BY <1>1, <2>3 DEF KeptIsNotFolded, Keeps, HasState, KeepsAlone, MayKeep
<1>6. \A e \in Callbacks(M) : Awaited(e) \subseteq Produced(M) \cup HostFilled(M)
  <2> SUFFICES ASSUME NEW e \in Callbacks(M), NEW p \in Awaited(e) PROVE p \in Produced(M) \cup HostFilled(M)
    OBVIOUS
  <2>1. p \in DeclaredBy(e)
    BY DEF Awaited, Reached, DeclaredBy
  <2>2. p \in Produced(M) \cup BareOutputs(M)
    BY <2>1, NodesAre DEF Wired
  <2>3. p \in BareOutputs(M) => \A g \in Callbacks(M) : \A w \in g.runs : p \notin w.sets
    BY DEF Wired
  <2>4. p \in BareOutputs(M) => p \notin UNION {w.sets : w \in UNION {g.runs : g \in Callbacks(M)}}
    BY <2>3
  <2> QED
    BY <2>2, <2>4 DEF HostFilled
<1>7. AwaitedThrough(M, c) \subseteq Produced(M) \cup HostFilled(M)
  <2> SUFFICES ASSUME NEW p \in AwaitedThrough(M, c) PROVE p \in Produced(M) \cup HostFilled(M)
    OBVIOUS
  <2>1. PICK d \in DrivenBy(c) : p \in {r[1] : r \in Reached(BehindIt(M, d).reads, "global")}
    BY DEF AwaitedThrough
  <2>2. PICK e \in Callbacks(M) : d \in Fills(e)
    BY <2>1 DEF Produced
  <2>3. BehindIt(M, d) = e
    BY <2>2, BehindIn
  <2>4. p \in Awaited(e)
    BY <2>1, <2>3 DEF Awaited
  <2> QED
    BY <1>6, <2>4
<1> QED
  BY <1>1, <1>3, <1>4, <1>5, <1>6, <1>7 DEF AwaitsWhatIsFilled, KeepsAlone

\* What a callback takes from the rest of its deck, and what it writes there.
Settles(M, m, c) ==
  /\ DrivenBy(c) \subseteq Produced(M)
  /\ UsesItsReferences(M, m, c) /\ WritesAgree(M, m, c) /\ RerunsWhatItDrives(M, c)
  /\ (\A w \in c.runs : w.sets \subseteq BareOutputs(M)) \/ Departs(c)

\* A material that reruns nothing asks nothing of the others.
LEMMA FeedingKeeps ==
  ASSUME NEW M \in Decks, NEW m \in M, FeedsForward(m), NEW c \in m.callbacks
  PROVE  Settles(M, m, c)
<1>1. m.refs = {} /\ DrivenBy(c) = {} /\ \A w \in c.runs : w.reruns = {} /\ w.sets = {}
  BY DEF FeedsForward, Feeds
<1>2. RerunBy(M, c) = {}
  BY <1>1 DEF RerunBy
<1> QED
  BY <1>1, <1>2 DEF Settles, UsesItsReferences, WritesAgree, RerunsWhatItDrives

\* No callback fills a bare output.
LEMMA BareApart ==
  ASSUME NEW M \in Decks, \A m \in M : WellFormed(m)
  PROVE  Produced(M) \cap BareOutputs(M) = {}
<1> SUFFICES ASSUME NEW p, p \in Produced(M), NEW o \in M, p \in o.bare PROVE FALSE
  BY DEF BareOutputs
<1>1. PICK m \in M : \E c \in m.callbacks : p \in Fills(c)
  BY DEF Produced, Callbacks
<1>2. p[1] = m.name /\ p[1] = o.name /\ m.callbacks # {} /\ o.bare # {}
  BY <1>1 DEF WellFormed
<1>3. m = o
  BY <1>2, DeclarationAssumption
<1> QED
  BY <1>2, <1>3 DEF WellFormed

-----------------------------------------------------------------------------
(***************************************************************************)
(* The materials with a local solve, which rerun what others declare.      *)
(***************************************************************************)
Hardens(M, h) == \E source : HardeningCurve(h, source) \in M

\* Every sequence that is not empty is a list of outputs.
LEMMA SomeList ==
  ASSUME NEW S, NEW s \in Seq(S), s # <<>>
  PROVE  IsList(s)
<1>1. DOMAIN s = 1 .. Len(s) /\ Len(s) \in Nat /\ Len(s) # 0
  OBVIOUS
<1>2. \A i \in 1 .. Len(s) : s[i] \in ToSet(s)
  BY <1>1 DEF ToSet
<1>3. s \in [1 .. Len(s) -> ToSet(s)]
  BY <1>1, <1>2
<1> QED
  BY <1>1, <1>3 DEF IsList

\* The outputs of a return map, among them its two histories.
LEMMA Outputs4 ==
  /\ ReturnMapOutputs \in Seq({"stress", "tangent", "plastic_strain", "equivalent_plastic_strain"})
  /\ Len(ReturnMapOutputs) = 4
  /\ ReturnMapOutputs[3] = "plastic_strain" /\ ReturnMapOutputs[4] = "equivalent_plastic_strain"
BY DEF ReturnMapOutputs

\* Its histories are among its outputs.
LEMMA ReturnMapLists ==
  IsList(ReturnMapOutputs) /\ {"plastic_strain", "equivalent_plastic_strain"} \subseteq ToSet(ReturnMapOutputs)
<1>1. ReturnMapOutputs # <<>>
  BY Outputs4
<1>2. IsList(ReturnMapOutputs)
  BY <1>1, Outputs4, SomeList
<1>3. 3 \in DOMAIN ReturnMapOutputs /\ 4 \in DOMAIN ReturnMapOutputs
  BY Outputs4
<1>4. "plastic_strain" \in ToSet(ReturnMapOutputs) /\ "equivalent_plastic_strain" \in ToSet(ReturnMapOutputs)
  BY <1>3, Outputs4 DEF ToSet
<1> QED
  BY <1>2, <1>4

\* So are the three of kinematic hardening.
LEMMA KinematicLists ==
  /\ IsList(KinematicOutputs)
  /\ {"plastic_strain", "equivalent_plastic_strain", "back_stress"} \subseteq ToSet(KinematicOutputs)
<1> DEFINE S == {"stress", "tangent", "plastic_strain", "equivalent_plastic_strain", "back_stress"}
           a == ReturnMapOutputs  b == <<"back_stress">>
<1>1. a \in Seq(S) /\ Len(a) = 4 /\ a[3] = "plastic_strain" /\ a[4] = "equivalent_plastic_strain"
  BY DEF ReturnMapOutputs
<1>2. b \in Seq(S) /\ Len(b) = 1 /\ b[1] = "back_stress"
  OBVIOUS
<1>3. KinematicOutputs = a \o b
  BY DEF KinematicOutputs
<1> HIDE DEF S, a, b
<1>4. /\ a \o b \in Seq(S) /\ Len(a \o b) = 5
      /\ (a \o b)[3] = "plastic_strain" /\ (a \o b)[4] = "equivalent_plastic_strain"
      /\ (a \o b)[5] = "back_stress"
  <2>1. a \o b \in Seq(S) /\ Len(a \o b) = Len(a) + Len(b)
    BY <1>1, <1>2, ConcatProperties
  <2>2. \A i \in 1 .. Len(a) + Len(b) : (a \o b)[i] = IF i <= Len(a) THEN a[i] ELSE b[i - Len(a)]
    BY <1>1, <1>2, ConcatProperties
  <2>3. Len(a) = 4 /\ Len(b) = 1
    BY <1>1, <1>2
  <2>4. (a \o b)[3] = a[3] /\ (a \o b)[4] = a[4]
    <3>1. 3 \in 1 .. Len(a) + Len(b) /\ 4 \in 1 .. Len(a) + Len(b) /\ 3 <= Len(a) /\ 4 <= Len(a)
      BY <2>3
    <3> HIDE <2>3
    <3> QED
      BY <2>2, <3>1, Zenon
  <2>5. (a \o b)[5] = b[1]
    <3>1. 5 \in 1 .. Len(a) + Len(b) /\ ~(5 <= Len(a)) /\ 5 - Len(a) = 1
      BY <2>3
    <3>2. (a \o b)[5] = b[5 - Len(a)]
      BY <2>2, <3>1, Zenon
    <3> QED
      BY <3>1, <3>2, Zenon
  <2>6. Len(a \o b) = 5
    BY <1>1, <1>2, <2>1
  <2> QED
    BY <1>1, <1>2, <2>1, <2>4, <2>5, <2>6
<1>5. /\ KinematicOutputs \in Seq(S) /\ Len(KinematicOutputs) = 5
      /\ KinematicOutputs[3] = "plastic_strain" /\ KinematicOutputs[4] = "equivalent_plastic_strain"
      /\ KinematicOutputs[5] = "back_stress"
  BY <1>3, <1>4
<1>6. IsList(KinematicOutputs)
  BY <1>5, SomeList
<1>7. DOMAIN KinematicOutputs = 1 .. 5
  BY <1>5
<1>8. ToSet(KinematicOutputs) = {KinematicOutputs[i] : i \in 1 .. 5}
  BY <1>7 DEF ToSet
<1> QED
  BY <1>5, <1>6, <1>8

\* No history is among the outputs of the residual.
LEMMA ResidualLists ==
  /\ IsList(ResidualOutputs) /\ "residual_dlambda" \in ToSet(ResidualOutputs)
  /\ \A o \in {"plastic_strain", "equivalent_plastic_strain", "back_stress"} : o \notin ToSet(ResidualOutputs)
<1> DEFINE S == {"residual_dlambda", "residual_dbeta", "jacobian_dlambda_dlambda", "jacobian_dlambda_dbeta",
                  "jacobian_dbeta_dlambda", "jacobian_dbeta_dbeta", "d_residual_dlambda_d_strain",
                  "d_residual_dbeta_d_strain"}
<1>1. ResidualOutputs \in Seq(S) /\ Len(ResidualOutputs) = 8 /\ ResidualOutputs[1] = "residual_dlambda"
  BY DEF ResidualOutputs
<1>2. \A o \in {"plastic_strain", "equivalent_plastic_strain", "back_stress"} : o \notin S
  OBVIOUS
<1> HIDE DEF S
<1>3. IsList(ResidualOutputs)
  BY <1>1, SomeList
<1>4. DOMAIN ResidualOutputs = 1 .. 8
  BY <1>1
<1>5. ToSet(ResidualOutputs) = {ResidualOutputs[i] : i \in 1 .. 8}
  BY <1>4 DEF ToSet
<1>6. ToSet(ResidualOutputs) \subseteq S
  <2>1. \A i \in 1 .. Len(ResidualOutputs) : ResidualOutputs[i] \in S
    BY <1>1, ElementOfSeq
  <2>2. \A i \in 1 .. 8 : ResidualOutputs[i] \in S
    BY <1>1, <2>1, Zenon
  <2> QED
    BY <1>5, <2>2
<1> QED
  BY <1>1, <1>2, <1>3, <1>5, <1>6

\* Reads of any kind.
Reads(rs) == \A r \in rs : r \in {r[1]} \X {"global", "local", "driven", "own"}

\* Reads of each kind, and what they reach.
LEMMA ReadsFacts ==
  /\ \A S : Reads(Global(S)) /\ Sources(Global(S)) = S
  /\ \A S : Reads(Local(S)) /\ Sources(Local(S)) = S
  /\ \A S : Reads(Drives(S)) /\ Sources(Drives(S)) = S
  /\ \A rs, qs : Reads(rs) /\ Reads(qs) => Reads(rs \cup qs)
  /\ \A rs, qs : Sources(rs \cup qs) = Sources(rs) \cup Sources(qs)
<1>1. \A S, v : v \in {"global", "local", "driven"} => Reads(Over(S, v))
  BY DEF Reads, Over
<1>2. \A rs, qs : Reads(rs) /\ Reads(qs) => Reads(rs \cup qs)
  BY DEF Reads
<1>3. \A rs, qs : Sources(rs \cup qs) = Sources(rs) \cup Sources(qs)
  BY DEF Sources
<1> QED
  BY <1>1, <1>2, <1>3, OverFacts DEF Global, Local, Drives

\* Which way a property is read.
LEMMA Ways ==
  ASSUME NEW c, NEW S, NEW T, NEW U, c.reads = (Global(S) \cup Drives(T)) \cup Local(U)
  PROVE  DrivenBy(c) = T /\ Previous(c) = T \cup U /\ S \subseteq Awaited(c)
<1>1. \A r \in c.reads : \/ r[1] \in S /\ r[2] = "global"
                         \/ r[1] \in T /\ r[2] = "driven"
                         \/ r[1] \in U /\ r[2] = "local"
  BY DEF Global, Drives, Local, Over
<1>2. ASSUME NEW p \in S PROVE p \in Awaited(c)
  <2> DEFINE r == <<p, "global">>
  <2>1. r \in c.reads /\ r[1] = p /\ r[2] = "global"
    BY <1>2 DEF Global, Over
  <2> HIDE DEF r
  <2>2. r \in Reached(c.reads, "global")
    BY <2>1 DEF Reached
  <2> QED
    BY <2>1, <2>2 DEF Awaited
<1>3. ASSUME NEW p \in T PROVE p \in DrivenBy(c) /\ p \in Previous(c)
  <2> DEFINE r == <<p, "driven">>
  <2>1. r \in c.reads /\ r[1] = p /\ r[2] = "driven"
    BY <1>3 DEF Drives, Over
  <2> HIDE DEF r
  <2>2. r \in Reached(c.reads, "driven") /\ r \in {q \in c.reads : q[2] \in {"local", "driven"}}
    BY <2>1 DEF Reached
  <2> QED
    BY <2>1, <2>2 DEF DrivenBy, Previous
<1>4. ASSUME NEW p \in U PROVE p \in Previous(c)
  <2> DEFINE r == <<p, "local">>
  <2>1. r \in c.reads /\ r[1] = p /\ r[2] = "local"
    BY <1>4 DEF Local, Over
  <2> HIDE DEF r
  <2>2. r \in {q \in c.reads : q[2] \in {"local", "driven"}}
    BY <2>1
  <2> QED
    BY <2>1, <2>2 DEF Previous
<1>5. DrivenBy(c) \subseteq T
  BY <1>1 DEF DrivenBy, Reached
<1>6. Previous(c) \subseteq T \cup U
  BY <1>1 DEF Previous
<1> QED
  BY <1>2, <1>3, <1>4, <1>5, <1>6

\* The callback behind a curve over the last plastic strain.
LEMMA Curve ==
  ASSUME NEW M \in Decks, NEW h, Hardens(M, h)
  PROVE  /\ Hardening(h) \subseteq Produced(M)
         /\ \E e \in Callbacks(M) :
               /\ BehindIt(M, <<h, "hardening_stress">>) = e /\ Fills(e) = Hardening(h)
               /\ Previous(e) # {} /\ ReadBy(e) \subseteq Previous(e) /\ \A w \in e.runs : w.sets = {}
<1>1. PICK source : HardeningCurve(h, source) \in M
  BY DEF Hardens
<1> DEFINE kappa == <<source, "equivalent_plastic_strain">>
           outputs == <<"hardening_stress", "hardening_modulus">>
           e == Filling(h, outputs, Local({kappa}), {kappa})
<1>2. e \in Callbacks(M)
  <2>1. HardeningCurve(h, source).callbacks = {e}
    BY DEF HardeningCurve, Declare
  <2> HIDE DEF e
  <2> QED
    BY <1>1, <2>1 DEF Callbacks
<1>3. Fills(e) = Hardening(h)
  <2>1. IsList(outputs) /\ Of(h, outputs) = Hardening(h)
    BY Lists, OfFacts DEF Hardening
  <2> HIDE DEF outputs
  <2> QED
    BY <2>1, FilledByFilling
<1>4. ReadBy(e) = {kappa} /\ e.reads = Local({kappa}) /\ \A w \in e.runs : w.sets = {}
  BY DEF Filling, Callback, Reading, Run, ReadBy
<1>5. <<kappa, "local">> \in e.reads
  BY <1>4 DEF Local, Over
<1> HIDE DEF e, kappa
<1>6. kappa \in Previous(e)
  BY <1>5 DEF Previous
<1>7. BehindIt(M, <<h, "hardening_stress">>) = e
  BY <1>2, <1>3, BehindIn DEF Hardening
<1>8. Hardening(h) \subseteq Produced(M)
  BY <1>2, <1>3 DEF Produced
<1> QED
  BY <1>2, <1>3, <1>4, <1>6, <1>7, <1>8

\* What a callback reruns for itself depends on earlier runs, and writes into what it fills.
Reruns(M, c) ==
  \A e \in RerunBy(M, c) :
    /\ e \in Callbacks(M) /\ Previous(e) # {} /\ ReadBy(e) \subseteq Previous(e)
    /\ \A w \in e.runs : w.sets \subseteq Fills(c)

\* It fills what a referenced material lends, and takes over nothing.
Lends(M, m, c) ==
  \A w \in c.runs : w.sets # {} => m.refs # {} /\ w.sets \subseteq BareOutputs(M) /\ Found(M, c, w) = {}

\* One that reruns only what depends on earlier runs.
LEMMA Settling ==
  ASSUME NEW M \in Decks, NEW m \in M, NEW c, DrivenBy(c) \subseteq Produced(M), Previous(c) # {},
         Lends(M, m, c), Reruns(M, c)
  PROVE  Settles(M, m, c)
<1>1. UsesItsReferences(M, m, c) /\ RerunsWhatItDrives(M, c)
  BY DEF Reruns, UsesItsReferences, RerunsWhatItDrives
<1>2. WritesAgree(M, m, c) /\ \A w \in c.runs : w.sets \subseteq BareOutputs(M)
  BY DEF Lends, WritesAgree
<1> QED
  BY <1>1, <1>2 DEF Settles

\* A return map that goes through a solver, or through none.
ReturnMaterial(m, strain, hardening, iterations) ==
  /\ m.callbacks = {ReturnMap(m.name, strain, hardening, iterations)}
  /\ m.varying = {m.name} \X {"plastic_strain", "equivalent_plastic_strain"} /\ m.bare = {}

\* A return map reruns the hardening alone, which depends on no callback of this update.
LEMMA ReturnSettles ==
  ASSUME NEW M \in Decks, NEW m \in M, NEW strain, NEW hardening, NEW iterations,
         ReturnMaterial(m, strain, hardening, iterations), Hardens(M, hardening),
         iterations # {} => m.refs # {} /\ iterations \subseteq BareOutputs(M)
  PROVE  WellFormed(m) /\ \A c \in m.callbacks : Settles(M, m, c)
<1> DEFINE n == m.name
           c == ReturnMap(n, strain, hardening, iterations)
           reads == Global({strain}) \cup Drives(Hardening(hardening))
           state == ReturnMapState(n)
           R == state \cup {strain} \cup Hardening(hardening)
           V == {n} \X {"plastic_strain", "equivalent_plastic_strain"}
           stress == <<hardening, "hardening_stress">>
           elastic == state \cup {strain, stress}
           first == Run(elastic, {stress}, {})
           second == Run(elastic \cup Hardening(hardening), {stress}, iterations)
<1>1. /\ c.fills = Written(n, ReturnMapOutputs) /\ c.reads = reads /\ c.runs = {first, second} /\ c.kept = {}
  BY DEF ReturnMap, Callback, Written
<1>2. /\ first.reads = elastic /\ first.reruns = {stress} /\ first.sets = {}
      /\ second.reads = elastic \cup Hardening(hardening) /\ second.reruns = {stress}
      /\ second.sets = iterations
  BY DEF Run
<1>3. ReadBy(c) = R
  <2>1. ReadBy(c) = elastic \cup (elastic \cup Hardening(hardening))
    BY <1>1, <1>2 DEF ReadBy
  <2> QED
    BY <2>1 DEF Hardening
<1>4. Sources(reads) = {strain} \cup Hardening(hardening) /\ Reads(reads)
  BY ReadsFacts
<1>5. state = V /\ <<n, "plastic_strain">> \in state /\ state \subseteq Of(n, ReturnMapOutputs)
  BY ReturnMapLists DEF ReturnMapState, Of
<1>6. \A p \in V : p[1] = n
  OBVIOUS
<1>7. m.callbacks = {c} /\ m.varying = V /\ m.bare = {}
  BY DEF ReturnMaterial
<1>8. Drives(Hardening(hardening)) = Drives(Hardening(hardening)) \cup Local({})
  BY DEF Local, Over
<1>9. c.reads = (Global({strain}) \cup Drives(Hardening(hardening))) \cup Local({})
  BY <1>1, <1>8
<1> HIDE DEF V, state, elastic
<1>10. Tells(n, ReturnMapOutputs, reads, R, V)
  BY <1>4, <1>5 DEF Tells
<1> HIDE DEF R, reads, c, first, second
<1>11. KeepsAlone(V, c) /\ \A p \in Fills(c) : p[1] = n
  BY <1>1, <1>3, <1>4, <1>10, TellsKeeps, ReturnMapLists DEF Reads, MayKeep
<1>12. WellFormed(m)
  BY <1>6, <1>7, <1>11 DEF WellFormed
<1>13. DrivenBy(c) = Hardening(hardening) /\ Previous(c) = Hardening(hardening)
  <2> DEFINE S == {strain}  T == Hardening(hardening)  U == {}
  <2>1. c.reads = (Global(S) \cup Drives(T)) \cup Local(U)
    BY <1>9
  <2>2. T \cup U = T
    OBVIOUS
  <2> HIDE DEF S, T, U
  <2>3. DrivenBy(c) = T /\ Previous(c) = T \cup U
    BY <2>1, Ways
  <2> QED
    BY <2>2, <2>3 DEF T
<1>14. Hardening(hardening) # {}
  BY DEF Hardening
<1>15. RerunBy(M, c) = {BehindIt(M, stress)}
  BY <1>1, <1>2 DEF RerunBy
<1>16. PICK e \in Callbacks(M) :
         /\ BehindIt(M, stress) = e /\ Fills(e) = Hardening(hardening)
         /\ Previous(e) # {} /\ ReadBy(e) \subseteq Previous(e) /\ \A w \in e.runs : w.sets = {}
  BY Curve
<1>17. Settles(M, m, c)
  <2>1. Hardening(hardening) \subseteq Produced(M)
    BY Curve
  <2>2. Reruns(M, c)
    BY <1>15, <1>16 DEF Reruns
  <2>3. \A w \in c.runs : stress \in w.reruns /\ (w.sets # {} => w.sets = iterations)
    BY <1>1, <1>2
  <2>4. \A w \in c.runs : Found(M, c, w) = {}
    BY <1>13, <1>16, <2>3 DEF Found, Fills
  <2>5. Lends(M, m, c)
    BY <2>3, <2>4 DEF Lends
  <2> QED
    BY <1>13, <1>14, <2>1, <2>2, <2>5, Settling
<1> QED
  BY <1>7, <1>12, <1>17

\* What a solver with bare outputs lends.
LEMMA NewtonLends ==
  ASSUME NEW M, NEW solver, LocalNewton(solver) \in M
  PROVE  {<<solver, "iterations">>} \subseteq BareOutputs(M)
<1>1. LocalNewton(solver).bare = {solver} \X {"iterations"}
  BY DEF LocalNewton, Bare, Declare
<1> QED
  BY <1>1 DEF BareOutputs

\* The solution a vector_newton leaves is bare.
LEMMA VectorLends ==
  ASSUME NEW M, NEW solver, NEW function, VectorNewton(solver, function) \in M
  PROVE  Solution(solver) \subseteq BareOutputs(M)
<1> DEFINE names == {p[2] : p \in Solution(solver)}
<1>1. VectorNewton(solver, function).bare = {solver} \X names
  BY DEF VectorNewton, Bare, Declare
<1>2. \A p \in Solution(solver) : p = <<solver, p[2]>> /\ p[2] \in names
  BY DEF Solution
<1> HIDE DEF names
<1>3. Solution(solver) \subseteq {solver} \X names
  BY <1>2
<1> QED
  BY <1>1, <1>3 DEF BareOutputs

PlasticMaterial(M, m) ==
  \/ \E strain, hardening, solver :
       /\ Hardens(M, hardening) /\ LocalNewton(solver) \in M
       /\ \/ m = J2Plasticity(m.name, strain, hardening, solver)
          \/ m = DruckerPragerPlasticity(m.name, strain, hardening, solver)
  \/ \E strain, hardening :
       Hardens(M, hardening) /\ m = J2RkPlasticity(m.name, strain, hardening)

\* Plasticity with isotropic hardening and the cone keep to their declarations.
LEMMA PlasticSettles ==
  ASSUME NEW M \in Decks, NEW m \in M, PlasticMaterial(M, m)
  PROVE  WellFormed(m) /\ \A c \in m.callbacks : Settles(M, m, c)
<1>1. ASSUME NEW strain, NEW hardening, NEW solver, Hardens(M, hardening), LocalNewton(solver) \in M,
             \/ m = J2Plasticity(m.name, strain, hardening, solver)
             \/ m = DruckerPragerPlasticity(m.name, strain, hardening, solver)
      PROVE  WellFormed(m) /\ \A c \in m.callbacks : Settles(M, m, c)
  <2> DEFINE iterations == {<<solver, "iterations">>}
             c == ReturnMap(m.name, strain, hardening, iterations)
  <2>1. m = Referring(Plastic(m.name, {c}), {solver})
    BY <1>1 DEF J2Plasticity, DruckerPragerPlasticity
  <2> HIDE DEF c
  <2>2. /\ m.callbacks = {c} /\ m.varying = {m.name} \X {"plastic_strain", "equivalent_plastic_strain"}
        /\ m.bare = {} /\ m.refs = {solver}
    BY <2>1 DEF Referring, Plastic, Varying, Declare
  <2>3. ReturnMaterial(m, strain, hardening, iterations)
    BY <2>2 DEF ReturnMaterial, c
  <2>4. iterations \subseteq BareOutputs(M)
    BY <1>1, NewtonLends
  <2> QED
    BY <1>1, <2>2, <2>3, <2>4, ReturnSettles
<1>2. ASSUME NEW strain, NEW hardening, Hardens(M, hardening), m = J2RkPlasticity(m.name, strain, hardening)
      PROVE  WellFormed(m) /\ \A c \in m.callbacks : Settles(M, m, c)
  <2> DEFINE c == ReturnMap(m.name, strain, hardening, {})
  <2>1. m = Plastic(m.name, {c})
    BY <1>2 DEF J2RkPlasticity
  <2> HIDE DEF c
  <2>2. /\ m.callbacks = {c} /\ m.varying = {m.name} \X {"plastic_strain", "equivalent_plastic_strain"}
        /\ m.bare = {}
    BY <2>1 DEF Plastic, Varying, Declare
  <2>3. ReturnMaterial(m, strain, hardening, {})
    BY <2>2 DEF ReturnMaterial, c
  <2> QED
    BY <1>2, <2>3, ReturnSettles
<1> QED
  BY <1>1, <1>2 DEF PlasticMaterial

\* Kinematic hardening, and the residual its solver reruns.
KinematicMaterial(M, m) ==
  \E strain, hardening, solver :
    /\ Hardens(M, hardening) /\ \E function : VectorNewton(solver, function) \in M
    /\ m = J2KinematicPlasticity(m.name, strain, hardening, solver)

ReturnTold(n, hardening, solver, V, c) ==
  /\ KeepsAlone(V, c) /\ \A p \in Fills(c) : p[1] = n
  /\ DrivenBy(c) = Hardening(hardening) /\ Previous(c) = Hardening(hardening) \cup Solution(solver)
  /\ c.runs # {} /\ \A w \in c.runs : w.sets = Solution(solver) /\ <<hardening, "hardening_stress">> \in w.reruns
  /\ UNION {w.reruns : w \in c.runs} = {<<hardening, "hardening_stress">>, <<n, "residual_dlambda">>}
  /\ <<n, "equivalent_plastic_strain">> \in Fills(c) \cap V

ResidualTold(n, hardening, solver, V, c) ==
  /\ KeepsAlone(V, c) /\ \A p \in Fills(c) : p[1] = n
  /\ DrivenBy(c) = Hardening(hardening) /\ Previous(c) # {} /\ ReadBy(c) \subseteq Previous(c)
  /\ \A w \in c.runs : /\ w.sets = {<<n, "equivalent_plastic_strain">>}
                       /\ w.reads \subseteq Solution(solver) \cup Hardening(hardening)
                       /\ <<hardening, "hardening_stress">> \in w.reruns
  /\ UNION {w.reruns : w \in c.runs} = {<<hardening, "hardening_stress">>}
  /\ <<n, "residual_dlambda">> \in Fills(c) /\ <<n, "equivalent_plastic_strain">> \notin Fills(c)
  /\ Departs(c)

\* What the return declares is what its two runs read.
LEMMA ReturnKeeps ==
  ASSUME NEW n, NEW strain, NEW hardening, NEW solver, NEW c, NEW V,
         c = KinematicReturn(n, strain, hardening, solver),
         V = {n} \X {"plastic_strain", "equivalent_plastic_strain", "back_stress"}
  PROVE  ReturnTold(n, hardening, solver, V, c)
<1> DEFINE reads == (Global({strain}) \cup Drives(Hardening(hardening))) \cup Local(Solution(solver))
           state == ReturnMapState(n) \cup {<<n, "back_stress">>}
           R == state \cup {strain} \cup Hardening(hardening) \cup Solution(solver)
           stress == <<hardening, "hardening_stress">>
           elastic == state \cup {strain, stress}
           first == Run(elastic, {stress}, Solution(solver))
           second == Run(elastic \cup Hardening(hardening) \cup Solution(solver),
                         {stress, <<n, "residual_dlambda">>}, Solution(solver))
<1>1. /\ c.fills = Written(n, KinematicOutputs) /\ c.reads = reads /\ c.runs = {first, second}
      /\ c.kept = {}
  BY DEF KinematicReturn, Callback, Written
<1>2. /\ first.reads = elastic /\ first.reruns = {stress} /\ first.sets = Solution(solver)
      /\ second.reads = elastic \cup Hardening(hardening) \cup Solution(solver)
      /\ second.reruns = {stress, <<n, "residual_dlambda">>} /\ second.sets = Solution(solver)
  BY DEF Run
<1> HIDE DEF first, second
<1>3. ReadBy(c) = R
  <2>1. ReadBy(c) = elastic \cup (elastic \cup Hardening(hardening) \cup Solution(solver))
    BY <1>1, <1>2 DEF ReadBy
  <2>2. stress \in Hardening(hardening)
    BY DEF Hardening
  <2> QED
    BY <2>1, <2>2
<1>4. Sources(reads) = {strain} \cup Hardening(hardening) \cup Solution(solver) /\ Reads(reads)
  <2> DEFINE S == {strain}  T == Hardening(hardening)  U == Solution(solver)
             s == Global(S)  t == Drives(T)  u == Local(U)
  <2>1. Sources(s) = S /\ Sources(t) = T /\ Sources(u) = U /\ Reads(s) /\ Reads(t) /\ Reads(u)
    BY ReadsFacts
  <2>2. reads = (s \cup t) \cup u
    OBVIOUS
  <2> HIDE DEF s, t, u, S, T, U, reads
  <2>3. Sources(s \cup t) = S \cup T /\ Reads(s \cup t)
    BY <2>1, ReadsFacts
  <2> DEFINE v == s \cup t
  <2> HIDE DEF v
  <2>4. Sources(v \cup u) = (S \cup T) \cup U /\ Reads(v \cup u)
    BY <2>1, <2>3, ReadsFacts DEF v
  <2> QED
    BY <2>2, <2>4 DEF v, S, T, U
<1>5. state = V /\ <<n, "plastic_strain">> \in state /\ state \subseteq Of(n, KinematicOutputs)
  BY KinematicLists DEF ReturnMapState, Of
<1>6. stress \in Hardening(hardening)
  BY DEF Hardening
<1>7. UNION {w.reruns : w \in c.runs} = {stress, <<n, "residual_dlambda">>}
  BY <1>1, <1>2
<1>8. c.runs # {} /\ \A w \in c.runs : w.sets = Solution(solver) /\ stress \in w.reruns
  BY <1>1, <1>2
<1>9. DrivenBy(c) = Hardening(hardening) /\ Previous(c) = Hardening(hardening) \cup Solution(solver)
  <2> DEFINE S == {strain}  T == Hardening(hardening)  U == Solution(solver)
  <2>1. c.reads = (Global(S) \cup Drives(T)) \cup Local(U)
    BY <1>1
  <2> HIDE DEF S, T, U
  <2>2. DrivenBy(c) = T /\ Previous(c) = T \cup U
    BY <2>1, Ways
  <2> QED
    BY <2>2 DEF T, U
<1> HIDE DEF state, elastic
<1>10. Tells(n, KinematicOutputs, reads, R, V)
  BY <1>4, <1>5 DEF Tells
<1> HIDE DEF R, reads, first, second
<1>11. KeepsAlone(V, c) /\ \A p \in Fills(c) : p[1] = n
  BY <1>1, <1>3, <1>4, <1>10, TellsKeeps, KinematicLists DEF Reads, MayKeep
<1>12. <<n, "equivalent_plastic_strain">> \in Fills(c) \cap V
  <2>1. Fills(c) = Of(n, KinematicOutputs)
    BY <1>1, <1>3, <1>4, <1>10, TellsKeeps, KinematicLists DEF Reads, MayKeep
  <2> QED
    BY <2>1, KinematicLists DEF Of
<1> QED
  BY <1>7, <1>8, <1>9, <1>11, <1>12 DEF ReturnTold

\* What the residual declares is what it reads of outputs, and it has no state.
LEMMA ResidualKeeps ==
  ASSUME NEW n, NEW hardening, NEW solver, NEW c, NEW V, DeclaredBy(c) \cap Fills(c) = {},
         c = KinematicResidual(n, hardening, solver),
         V = {n} \X {"plastic_strain", "equivalent_plastic_strain", "back_stress"}
  PROVE  ResidualTold(n, hardening, solver, V, c)
<1> DEFINE unknowns == {solver} \X Unknowns
           reads == Local(unknowns) \cup Drives(Hardening(hardening))
           R == unknowns \cup Hardening(hardening)
           stress == <<hardening, "hardening_stress">>
           kappa == <<n, "equivalent_plastic_strain">>
           only == Run(R, {stress}, {kappa})
<1>1. c.fills = Written(n, ResidualOutputs) /\ c.reads = reads /\ c.runs = {only}
  BY DEF KinematicResidual, Keeping, Callback, Written
<1>2. only.reads = R /\ only.reruns = {stress} /\ only.sets = {kappa}
  BY DEF Run
<1> HIDE DEF only
<1>3. ReadBy(c) = R
  BY <1>1, <1>2 DEF ReadBy
<1>4. Sources(reads) = R /\ Reads(reads)
  BY ReadsFacts
<1>5. stress \in Hardening(hardening)
  BY DEF Hardening
<1>6. /\ UNION {w.reruns : w \in c.runs} = {stress}
      /\ \A w \in c.runs : w.sets = {kappa} /\ w.reads = R /\ stress \in w.reruns
  BY <1>1, <1>2
<1>7. reads = (Global({}) \cup Drives(Hardening(hardening))) \cup Local(unknowns)
  BY DEF Global, Over
<1>8. DrivenBy(c) = Hardening(hardening) /\ Previous(c) = Hardening(hardening) \cup unknowns
  <2> DEFINE S == {}  T == Hardening(hardening)  U == unknowns
  <2>1. c.reads = (Global(S) \cup Drives(T)) \cup Local(U)
    BY <1>1, <1>7
  <2> HIDE DEF S, T, U
  <2>2. DrivenBy(c) = T /\ Previous(c) = T \cup U
    BY <2>1, Ways
  <2> QED
    BY <2>2 DEF T, U
<1>9. Fills(c) = Of(n, ResidualOutputs)
  <2>1. DOMAIN ResidualOutputs = 1 .. Len(ResidualOutputs) /\ DOMAIN c.fills = DOMAIN ResidualOutputs
    BY <1>1, ResidualLists DEF Written, IsList
  <2>2. \A i \in DOMAIN ResidualOutputs : c.fills[i] = <<n, ResidualOutputs[i]>>
    BY <1>1 DEF Written
  <2>3. ToSet(c.fills) = {<<n, ResidualOutputs[i]>> : i \in DOMAIN ResidualOutputs}
    BY <2>1, <2>2 DEF ToSet
  <2>4. ToSet(ResidualOutputs) = {ResidualOutputs[i] : i \in DOMAIN ResidualOutputs}
    BY DEF ToSet
  <2> QED
    BY <2>3, <2>4 DEF Fills, Of
<1>10. DeclaredBy(c) = Sources(reads)
  BY <1>1 DEF DeclaredBy, Sources
<1>11. R \cap Of(n, ResidualOutputs) = {}
  BY <1>4, <1>9, <1>10
<1>12. Of(n, ResidualOutputs) \cap V = {} /\ <<n, "residual_dlambda">> \in Of(n, ResidualOutputs)
  BY ResidualLists DEF Of
<1> HIDE DEF unknowns, only
<1>13. Tells(n, ResidualOutputs, reads, R, V)
  BY <1>4, <1>11, <1>12 DEF Tells
<1>14. ReadBy(c) \subseteq Previous(c) /\ Previous(c) # {}
  BY <1>3, <1>5, <1>8
<1>15. Departs(c)
  BY DEF Departs
<1>16. kappa \notin Fills(c) /\ unknowns \subseteq Solution(solver)
  <2>1. unknowns \subseteq Solution(solver)
    BY DEF unknowns, Unknowns, Solution
  <2> QED
    BY <1>9, <2>1, ResidualLists DEF Of
<1>17. \A w \in c.runs : w.reads \subseteq Solution(solver) \cup Hardening(hardening)
  BY <1>6, <1>16
<1> HIDE DEF R, reads, kappa, stress
<1>18. KeepsAlone(V, c) /\ \A p \in Fills(c) : p[1] = n
  BY <1>1, <1>3, <1>4, <1>13, <1>14, <1>15, TellsKeeps, ResidualLists DEF Reads, MayKeep
<1> QED
  BY <1>6, <1>8, <1>9, <1>12, <1>14, <1>15, <1>16, <1>17, <1>18 DEF ResidualTold, kappa, stress

\* The return reruns the residual and the hardening, the residual the hardening.
LEMMA KinematicSettles ==
  ASSUME NEW M \in Decks, NEW m \in M, KinematicMaterial(M, m), Fed(m)
  PROVE  WellFormed(m) /\ \A c \in m.callbacks : Settles(M, m, c)
<1>1. PICK strain, hardening, solver :
        /\ Hardens(M, hardening) /\ \E function : VectorNewton(solver, function) \in M
        /\ m = J2KinematicPlasticity(m.name, strain, hardening, solver)
  BY DEF KinematicMaterial
<1> DEFINE n == m.name
           b == KinematicReturn(n, strain, hardening, solver)
           r == KinematicResidual(n, hardening, solver)
           V == {n} \X {"plastic_strain", "equivalent_plastic_strain", "back_stress"}
           stress == <<hardening, "hardening_stress">>
           residual == <<n, "residual_dlambda">>
<1>2. m = Referring(Varying(Declare(n, {b, r}),
                            {"plastic_strain", "equivalent_plastic_strain", "back_stress"}), {solver})
  BY <1>1 DEF J2KinematicPlasticity
<1> HIDE DEF b, r
<1>3. m.callbacks = {b, r} /\ m.varying = V /\ m.bare = {} /\ m.refs = {solver}
  BY <1>2 DEF Referring, Varying, Declare
<1>4. ReturnTold(n, hardening, solver, V, b)
  <2>1. V = {n} \X {"plastic_strain", "equivalent_plastic_strain", "back_stress"}
    OBVIOUS
  <2>2. b = KinematicReturn(n, strain, hardening, solver)
    BY DEF b
  <2> HIDE DEF V
  <2> QED
    BY <2>1, <2>2, ReturnKeeps
<1>5. ResidualTold(n, hardening, solver, V, r)
  <2>1. DeclaredBy(r) \cap Fills(r) = {}
    BY <1>3 DEF Fed
  <2>2. V = {n} \X {"plastic_strain", "equivalent_plastic_strain", "back_stress"}
    OBVIOUS
  <2>3. r = KinematicResidual(n, hardening, solver)
    BY DEF r
  <2> HIDE DEF V
  <2> QED
    BY <2>1, <2>2, <2>3, ResidualKeeps
<1>6. \A p \in V : p[1] = n
  OBVIOUS
<1> DEFINE kappa == <<n, "equivalent_plastic_strain">>
<1> HIDE DEF V, stress, residual, kappa
<1>7. WellFormed(m)
  BY <1>3, <1>4, <1>5, <1>6 DEF WellFormed, ReturnTold, ResidualTold
<1>8. Hardening(hardening) \subseteq Produced(M)
  BY <1>1, Curve
<1>9. BehindIt(M, residual) = r /\ r \in Callbacks(M) /\ b \in Callbacks(M)
  <2>1. r \in Callbacks(M) /\ b \in Callbacks(M)
    BY <1>3 DEF Callbacks
  <2> QED
    BY <1>5, <2>1, BehindIn DEF ResidualTold, residual
<1>10. PICK e \in Callbacks(M) :
         /\ BehindIt(M, stress) = e /\ Fills(e) = Hardening(hardening)
         /\ Previous(e) # {} /\ ReadBy(e) \subseteq Previous(e) /\ \A w \in e.runs : w.sets = {}
  BY <1>1, Curve DEF stress
<1>11. Solution(solver) \subseteq BareOutputs(M)
  BY <1>1, VectorLends
<1>12. /\ kappa \in Fills(b) /\ kappa \in V /\ kappa \notin Fills(r) /\ b # r
       /\ \A w \in r.runs : w.sets = {kappa}
  BY <1>4, <1>5 DEF ReturnTold, ResidualTold, kappa
<1>13. Settles(M, m, b)
  <2>1. RerunBy(M, b) = {e, r}
    BY <1>4, <1>9, <1>10 DEF RerunBy, ReturnTold, stress, residual
  <2>2. Reruns(M, b)
    BY <1>5, <1>9, <1>10, <1>12, <2>1 DEF ResidualTold, Reruns
  <2>3. ASSUME NEW w \in b.runs PROVE Found(M, b, w) = {} /\ w.sets \subseteq BareOutputs(M)
    <3>1. w.sets = Solution(solver) /\ stress \in w.reruns
      BY <1>4 DEF ReturnTold, stress
    <3>2. Previous(b) = Hardening(hardening) \cup Solution(solver)
      BY <1>4 DEF ReturnTold
    <3> QED
      BY <1>10, <1>11, <3>1, <3>2 DEF Found, Fills
  <2>4. Lends(M, m, b)
    BY <1>3, <2>3 DEF Lends
  <2>5. Previous(b) # {}
    BY <1>4 DEF ReturnTold, Hardening
  <2> QED
    BY <1>4, <1>8, <2>2, <2>4, <2>5, Settling DEF ReturnTold
<1>14. Settles(M, m, r)
  <2>1. RerunBy(M, r) = {e}
    BY <1>5, <1>10 DEF RerunBy, ResidualTold, stress
  <2>2. RerunsWhatItDrives(M, r) /\ UsesItsReferences(M, m, r)
    BY <1>5, <1>10, <2>1 DEF ResidualTold, RerunsWhatItDrives, UsesItsReferences
  <2>3. HasState(M, b)
    BY <1>3, <1>12 DEF HasState
  <2>4. Solution(solver) \subseteq Leaves(M, b)
    BY <1>4, <1>11 DEF ReturnTold, Leaves
  <2>5. ASSUME NEW w \in r.runs PROVE Found(M, r, w) \subseteq Leaves(M, b) /\ w.sets \subseteq Fills(b)
    <3>1. w.reads \subseteq Solution(solver) \cup Hardening(hardening) /\ stress \in w.reruns
      BY <1>5 DEF ResidualTold, stress
    <3>2. Found(M, r, w) \subseteq Solution(solver)
      BY <1>10, <3>1 DEF Found, Fills
    <3> QED
      BY <1>12, <2>4, <3>2
  <2>6. b \in m.callbacks \ {r}
    BY <1>3, <1>12
  <2>7. WritesAgree(M, m, r)
    BY <2>3, <2>5, <2>6 DEF WritesAgree
  <2> QED
    BY <1>5, <1>8, <2>2, <2>7 DEF Settles, ResidualTold
<1> QED
  BY <1>3, <1>7, <1>13, <1>14

\* A rate integrated by a scheme that goes on from its own last state.
IntegratedMaterial(M, m) ==
  \E function, implicit :
    /\ \E temperature, integrator : RateLaw(function, temperature, integrator) \in M
    /\ m = RkIntegrator(m.name, function, implicit)

\* The callback of a rate law, which awaits a temperature.
LEMMA RateCallback ==
  ASSUME NEW M \in Decks, NEW function, NEW temperature, NEW integrator,
         RateLaw(function, temperature, integrator) \in M
  PROVE  \E e \in Callbacks(M) :
           /\ Fills(e) = {<<function, "rate">>, <<function, "rate_derivative">>}
           /\ \A p \in Fills(e) : BehindIt(M, p) = e
           /\ <<integrator, "state">> \in Previous(e)
           /\ ReadBy(e) = {<<temperature, "state">>, <<integrator, "state">>}
           /\ <<temperature, "state">> \in {r[1] : r \in Reached(e.reads, "global")}
           /\ \A w \in e.runs : w.sets = {}
<1> DEFINE outputs == <<"rate", "rate_derivative">>
           theta == <<temperature, "state">>
           z == <<integrator, "state">>
           reads == Global({theta}) \cup Local({z})
           e == Filling(function, outputs, reads, {theta, z})
<1>1. e \in Callbacks(M)
  <2>1. RateLaw(function, temperature, integrator).callbacks = {e}
    BY DEF RateLaw, Declare
  <2> HIDE DEF e
  <2> QED
    BY <2>1 DEF Callbacks
<1>2. Fills(e) = {<<function, "rate">>, <<function, "rate_derivative">>}
  <2>1. IsList(outputs) /\ Of(function, outputs) = {<<function, "rate">>, <<function, "rate_derivative">>}
    BY Lists, OfFacts
  <2> HIDE DEF outputs
  <2> QED
    BY <2>1, FilledByFilling
<1>3. ReadBy(e) = {theta, z} /\ e.reads = reads /\ \A w \in e.runs : w.sets = {}
  BY DEF Filling, Callback, Reading, Run, ReadBy
<1> HIDE DEF e, theta, z
<1>4. <<theta, "global">> \in e.reads /\ <<z, "local">> \in e.reads
  BY <1>3 DEF Global, Local, Over
<1>5. z \in Previous(e)
  BY <1>4 DEF Previous
<1>6. theta \in {r[1] : r \in Reached(e.reads, "global")}
  BY <1>4 DEF Reached
<1>7. \A p \in Fills(e) : BehindIt(M, p) = e
  BY <1>1, BehindIn
<1> QED
  BY <1>1, <1>2, <1>3, <1>5, <1>6, <1>7 DEF theta, z

\* An integrator reruns a rate, and waits for the temperature the rate awaits.
LEMMA IntegratedSettles ==
  ASSUME NEW M \in Decks, NEW m \in M, IntegratedMaterial(M, m)
  PROVE  WellFormed(m) /\ \A c \in m.callbacks : Settles(M, m, c)
<1>1. PICK function, implicit :
         /\ \E temperature, integrator : RateLaw(function, temperature, integrator) \in M
         /\ m = RkIntegrator(m.name, function, implicit)
  BY DEF IntegratedMaterial
<1>2. PICK temperature, integrator : RateLaw(function, temperature, integrator) \in M
  BY <1>1
<1> DEFINE n == m.name
           own == <<n, "state">>
           rate == <<function, "rate">>
           slope == IF implicit THEN {<<function, "rate_derivative">>} ELSE {}
           T == {rate} \cup slope
           reads == Drives(T)
           R == {own, rate} \cup slope
           only == Run(R, {rate}, {})
           c == Callback(<<own>>, reads, {only})
           V == {n} \X {"state"}
           theta == <<temperature, "state">>
<1>3. PICK e \in Callbacks(M) :
           /\ Fills(e) = {<<function, "rate">>, <<function, "rate_derivative">>}
           /\ \A p \in Fills(e) : BehindIt(M, p) = e
           /\ <<integrator, "state">> \in Previous(e)
           /\ ReadBy(e) = {theta, <<integrator, "state">>}
           /\ theta \in {r[1] : r \in Reached(e.reads, "global")}
           /\ \A w \in e.runs : w.sets = {}
  BY <1>2, RateCallback
<1>4. m = Varying(Declare(n, {c}), {"state"})
  BY <1>1 DEF RkIntegrator
<1>5. c.fills = <<own>> /\ c.reads = reads /\ c.runs = {only} /\ c.kept = {}
  BY DEF Callback
<1>6. only.reads = R /\ only.reruns = {rate} /\ only.sets = {}
  BY DEF Run
<1>7. Written(n, <<"state">>) = <<own>> /\ Of(n, <<"state">>) = {own} /\ IsList(<<"state">>)
  BY WrittenFacts, OfFacts, Lists
<1>8. V = {own} /\ \A p \in V : p[1] = n
  OBVIOUS
<1>9. T \subseteq Fills(e) /\ rate \in T
  BY <1>3
<1>10. R = T \cup {own}
  OBVIOUS
<1> HIDE DEF c, only, V, R, slope
<1>11. m.callbacks = {c} /\ m.varying = V /\ m.bare = {} /\ m.refs = {}
  BY <1>4 DEF Varying, Declare, V
<1> HIDE DEF T, own, theta, rate
<1>12. ReadBy(c) = R
  BY <1>5, <1>6 DEF ReadBy
<1>13. Sources(reads) = T /\ Reads(reads)
  BY ReadsFacts
<1>14. Tells(n, <<"state">>, reads, R, V)
  BY <1>7, <1>8, <1>10, <1>13 DEF Tells
<1>15. KeepsAlone(V, c) /\ Fills(c) = {own} /\ \A p \in Fills(c) : p[1] = n
  <2> DEFINE outputs == <<"state">>
  <2>1. IsList(outputs) /\ c.fills = Written(n, outputs) /\ Tells(n, outputs, reads, R, V) /\ Of(n, outputs) = {own}
    BY <1>5, <1>7, <1>14
  <2> HIDE DEF outputs, reads
  <2> QED
    BY <1>5, <1>12, <1>13, <2>1, TellsKeeps DEF Reads, MayKeep
<1>16. WellFormed(m)
  BY <1>8, <1>11, <1>15 DEF WellFormed
<1>17. DrivenBy(c) = T /\ rate \in Previous(c)
  <2> DEFINE S == {}  U == {}
  <2>1. c.reads = (Global(S) \cup Drives(T)) \cup Local(U)
    BY <1>5 DEF Global, Local, Over
  <2> HIDE DEF S, U
  <2>2. DrivenBy(c) = T /\ Previous(c) = T \cup U
    BY <2>1, Ways
  <2> QED
    BY <1>9, <2>2
<1>18. DrivenBy(c) \subseteq Produced(M)
  BY <1>3, <1>9, <1>17 DEF Produced
<1>19. UsesItsReferences(M, m, c) /\ WritesAgree(M, m, c) /\ \A w \in c.runs : w.sets \subseteq BareOutputs(M)
  BY <1>5, <1>6, <1>11 DEF UsesItsReferences, WritesAgree
<1>20. RerunBy(M, c) = {e}
  <2>1. BehindIt(M, rate) = e
    BY <1>3, <1>9
  <2> QED
    BY <1>5, <1>6, <2>1 DEF RerunBy
<1>21. theta \in AwaitedThrough(M, c) \cup FilledWith(M, c)
  <2>1. Carrier(c) = own /\ own[1] = n /\ theta[1] = temperature
    BY <1>5 DEF Carrier, own, theta
  <2>2. CASE temperature = n
    <3>1. theta = own
      BY <2>2 DEF theta, own
    <3> QED
      BY <1>15, <3>1 DEF FilledWith, Fills
  <2>3. CASE temperature # n
    <3>1. rate \in DrivenBy(c) /\ BehindIt(M, rate) = e
      BY <1>3, <1>9, <1>17
    <3>2. theta \in {r[1] : r \in Reached(BehindIt(M, rate).reads, "global")}
      BY <1>3, <3>1
    <3>3. theta \in UNION {{r[1] : r \in Reached(BehindIt(M, d).reads, "global")} : d \in DrivenBy(c)}
      BY <3>1, <3>2
    <3> QED
      BY <2>1, <2>3, <3>3 DEF AwaitedThrough
  <2> QED
    BY <2>2, <2>3
<1>22. ReadBy(e) \ (FilledWith(M, c) \cup Previous(e) \cup Fills(e)) \subseteq Awaited(c) \cup AwaitedThrough(M, c)
  BY <1>3, <1>21
<1>23. RerunsWhatItDrives(M, c)
  BY <1>3, <1>17, <1>20, <1>22 DEF RerunsWhatItDrives
<1> QED
  BY <1>11, <1>16, <1>18, <1>19, <1>23 DEF Settles

\* An increment that solves a reaction's equation for one step of time.
StepMaterial(M, m) ==
  \E function, temperature, time :
    /\ AutocatalyticReaction(function, temperature, time, m.name) \in M
    /\ m = BackwardEuler(m.name, function)

GlobalOf(c) == {r[1] : r \in Reached(c.reads, "global")}

\* The callback of a residual or a jacobian, which awaits the increment among others.
LEMMA SystemCallback ==
  ASSUME NEW M \in Decks, NEW function, NEW temperature, NEW time, NEW solver,
         AutocatalyticReaction(function, temperature, time, solver) \in M,
         NEW output, output \in {"residual", "jacobian"}
  PROVE  \E e \in Callbacks(M) :
           /\ <<function, output>> \in Fills(e) /\ BehindIt(M, <<function, output>>) = e
           /\ ReadBy(e) = {<<temperature, "state">>, <<time, "state">>, <<solver, "delta">>,
                           <<function, "current_state">>}
           /\ {<<temperature, "state">>, <<time, "state">>, <<solver, "delta">>} \subseteq GlobalOf(e)
           /\ \A w \in e.runs : w.sets = {}
<1> DEFINE theta == <<temperature, "state">>
           t == <<time, "state">>
           dz == <<solver, "delta">>
           z == <<function, "current_state">>
           outputs == <<output>>
           reads == Global({theta, t, dz}) \cup Own({z})
           R == {theta, t, dz, z}
           e == Filling(function, outputs, reads, R)
<1>1. e = AutocatalyticSystem(function, output, theta, t, dz)
  BY DEF AutocatalyticSystem
<1>2. e \in Callbacks(M)
  <2>1. /\ AutocatalyticSystem(function, "residual", theta, t, dz) \in
               AutocatalyticReaction(function, temperature, time, solver).callbacks
        /\ AutocatalyticSystem(function, "jacobian", theta, t, dz) \in
               AutocatalyticReaction(function, temperature, time, solver).callbacks
    BY DEF AutocatalyticReaction, Varying, Declare
  <2> HIDE DEF e, theta, t, dz
  <2>2. e \in AutocatalyticReaction(function, temperature, time, solver).callbacks
    BY <1>1, <2>1
  <2> QED
    BY <2>2 DEF Callbacks
<1>3. Fills(e) = {<<function, output>>}
  <2>1. IsList(outputs) /\ Of(function, outputs) = {<<function, output>>}
    BY Lists, OfFacts
  <2> HIDE DEF outputs
  <2> QED
    BY <2>1, FilledByFilling
<1>4. ReadBy(e) = R /\ e.reads = reads /\ \A w \in e.runs : w.sets = {}
  BY DEF Filling, Callback, Reading, Run, ReadBy
<1> HIDE DEF e, theta, t, dz, z
<1>5. \A p \in {theta, t, dz} : <<p, "global">> \in e.reads
  BY <1>4 DEF Global, Over
<1>6. {theta, t, dz} \subseteq GlobalOf(e)
  BY <1>5 DEF GlobalOf, Reached
<1>7. BehindIt(M, <<function, output>>) = e
  BY <1>2, <1>3, BehindIn
<1> QED
  BY <1>2, <1>3, <1>4, <1>6, <1>7 DEF theta, t, dz, z

\* The callback that updates the state once the increment is there.
LEMMA StateCallback ==
  ASSUME NEW M \in Decks, NEW function, NEW temperature, NEW time, NEW solver,
         AutocatalyticReaction(function, temperature, time, solver) \in M
  PROVE  \E g \in Callbacks(M) :
           <<function, "current_state">> \in Fills(g) /\ <<<<solver, "delta">>, "global">> \in g.reads
<1> DEFINE theta == <<temperature, "state">>
           dz == <<solver, "delta">>
           z == <<function, "current_state">>
           outputs == <<"current_state">>
           reads == Global({theta, dz})
           g == Filling(function, outputs, reads, {z, dz, theta})
<1>1. g \in Callbacks(M)
  <2>1. g \in AutocatalyticReaction(function, temperature, time, solver).callbacks
    BY DEF AutocatalyticReaction, Varying, Declare
  <2> QED
    BY <2>1 DEF Callbacks
<1>2. Fills(g) = {z}
  <2>1. IsList(outputs) /\ Of(function, outputs) = {z}
    BY Lists, OfFacts
  <2> HIDE DEF outputs
  <2> QED
    BY <2>1, FilledByFilling
<1>3. g.reads = reads
  BY DEF Filling, Callback
<1>4. <<dz, "global">> \in reads
  BY DEF Global, Over
<1> HIDE DEF g, reads
<1> QED
  BY <1>1, <1>2, <1>3, <1>4

\* What the solver of a reaction declares and reruns.
LEMMA StepForms ==
  ASSUME NEW m, NEW function, m = BackwardEuler(m.name, function), Fed(m)
  PROVE  /\ WellFormed(m) /\ m.bare = {} /\ m.refs = {}
         /\ \A c \in m.callbacks :
               /\ Fills(c) = {<<m.name, "delta">>} /\ c.fills = <<<<m.name, "delta">>>>
               /\ DrivenBy(c) = {<<function, "residual">>, <<function, "jacobian">>}
               /\ Previous(c) # {}
               /\ \A w \in c.runs : w.sets = {}
               /\ UNION {w.reruns : w \in c.runs} = {<<function, "residual">>, <<function, "jacobian">>}
<1> DEFINE n == m.name
           own == <<n, "delta">>
           residual == <<function, "residual">>
           T == {residual, <<function, "jacobian">>}
           reads == Drives(T)
           only == Run(T, T, {})
           c == Callback(<<own>>, reads, {only})
           outputs == <<"delta">>
<1>1. m = Declare(n, {c})
  BY DEF BackwardEuler
<1>2. c.fills = <<own>> /\ c.reads = reads /\ c.runs = {only} /\ c.kept = {}
  BY DEF Callback
<1>3. only.reads = T /\ only.reruns = T /\ only.sets = {}
  BY DEF Run
<1>4. Written(n, outputs) = <<own>> /\ Of(n, outputs) = {own} /\ IsList(outputs)
  BY WrittenFacts, OfFacts, Lists
<1>5. residual \in T
  OBVIOUS
<1> HIDE DEF c, only
<1>6. m.callbacks = {c} /\ m.varying = {} /\ m.bare = {} /\ m.refs = {}
  BY <1>1 DEF Declare
<1> HIDE DEF T, own, residual
<1>7. ReadBy(c) = T /\ UNION {w.reruns : w \in c.runs} = T
  BY <1>2, <1>3 DEF ReadBy
<1>8. Sources(reads) = T /\ Reads(reads)
  BY ReadsFacts
<1>9. Fills(c) = {own}
  BY <1>2 DEF Fills, ToSet
<1>10. DeclaredBy(c) = T
  BY <1>2, <1>8 DEF DeclaredBy, Sources
<1>11. own \notin T
  BY <1>6, <1>9, <1>10 DEF Fed
<1>12. Tells(n, outputs, reads, T, {})
  BY <1>4, <1>8, <1>11 DEF Tells
<1>13. KeepsAlone({}, c) /\ \A p \in Fills(c) : p[1] = n
  <2>1. c.fills = Written(n, outputs)
    BY <1>2, <1>4
  <2> DEFINE V == {}
  <2>2. c.reads = reads /\ ReadBy(c) = T /\ Tells(n, outputs, reads, T, V) /\ MayKeep(c)
    BY <1>2, <1>7, <1>12 DEF MayKeep
  <2>3. \A r \in reads : r \in {r[1]} \X {"global", "local", "driven", "own"}
    BY <1>8 DEF Reads
  <2>4. IsList(outputs)
    BY <1>4
  <2> HIDE DEF outputs, reads, V
  <2>5. KeepsAlone(V, c) /\ \A p \in Fills(c) : p[1] = n
    BY <2>1, <2>2, <2>3, <2>4, TellsKeeps
  <2> QED
    BY <2>5 DEF V
<1>14. WellFormed(m)
  BY <1>6, <1>13 DEF WellFormed
<1>15. DrivenBy(c) = T /\ residual \in Previous(c)
  <2> DEFINE S == {}  U == {}
  <2>1. c.reads = (Global(S) \cup Drives(T)) \cup Local(U)
    BY <1>2 DEF Global, Local, Over
  <2> HIDE DEF S, U
  <2>2. DrivenBy(c) = T /\ Previous(c) = T \cup U
    BY <2>1, Ways
  <2> QED
    BY <1>5, <2>2
<1> QED
  BY <1>2, <1>3, <1>6, <1>7, <1>9, <1>14, <1>15 DEF own, T, residual

\* What the system of a reaction needs is filled by the solver, follows from what it fills, or is awaited.
LEMMA StepSettles ==
  ASSUME NEW M \in Decks, Wired(M), \A o \in M : WellFormed(o), NEW m \in M, StepMaterial(M, m)
  PROVE  \A c \in m.callbacks : Settles(M, m, c)
<1>1. PICK function, temperature, time :
         AutocatalyticReaction(function, temperature, time, m.name) \in M /\ m = BackwardEuler(m.name, function)
  BY DEF StepMaterial
<1> SUFFICES ASSUME NEW c \in m.callbacks PROVE Settles(M, m, c)
  OBVIOUS
<1> DEFINE n == m.name
           own == <<n, "delta">>
           z == <<function, "current_state">>
           theta == <<temperature, "state">>
           t == <<time, "state">>
           residual == <<function, "residual">>
           jacobian == <<function, "jacobian">>
           T == {residual, jacobian}
<1>2. /\ WellFormed(m) /\ m.bare = {} /\ m.refs = {}
      /\ \A b \in m.callbacks : Fills(b) = {own}
      /\ Fills(c) = {own} /\ c.fills = <<own>>
      /\ DrivenBy(c) = T /\ Previous(c) # {}
      /\ \A w \in c.runs : w.sets = {}
      /\ UNION {w.reruns : w \in c.runs} = T
  BY <1>1, WiredFed, StepForms
<1>3. PICK e \in Callbacks(M) :
        /\ residual \in Fills(e) /\ BehindIt(M, residual) = e
        /\ ReadBy(e) = {theta, t, own, z} /\ {theta, t, own} \subseteq GlobalOf(e)
        /\ \A w \in e.runs : w.sets = {}
  BY <1>1, SystemCallback
<1>4. PICK f \in Callbacks(M) :
        /\ jacobian \in Fills(f) /\ BehindIt(M, jacobian) = f
        /\ ReadBy(f) = {theta, t, own, z} /\ {theta, t, own} \subseteq GlobalOf(f)
        /\ \A w \in f.runs : w.sets = {}
  <2>1. "jacobian" \in {"residual", "jacobian"}
    OBVIOUS
  <2> DEFINE output == "jacobian"
  <2>2. jacobian = <<function, output>>
    BY DEF jacobian
  <2> HIDE DEF output
  <2>3. output \in {"residual", "jacobian"}
    BY <2>1 DEF output
  <2> QED
    BY <1>1, <2>2, <2>3, SystemCallback DEF theta, t, own, z
<1>5. PICK g \in Callbacks(M) : z \in Fills(g) /\ <<own, "global">> \in g.reads
  BY <1>1, StateCallback
<1>6. own[1] = n /\ own[2] = "delta" /\ theta[2] = "state" /\ t[2] = "state"
  OBVIOUS
<1> HIDE DEF own, z, theta, t, residual, jacobian
<1>7. z \in FilledWith(M, c)
  <2>1. <<own, "global">> \in Global(ToSet(c.fills))
    BY <1>2 DEF Global, Over, Fills
  <2>2. g.reads \cap Global(ToSet(c.fills)) # {}
    BY <1>5, <2>1
  <2> QED
    BY <1>5, <2>2 DEF FilledWith, Fills
<1>8. own \in FilledWith(M, c)
  BY <1>2 DEF FilledWith, Fills
<1>9. ASSUME NEW p \in {theta, t} PROVE p[1] # n
  <2>1. p \in DeclaredBy(e)
    BY <1>3 DEF GlobalOf, Reached, DeclaredBy
  <2>2. p \in Nodes(M)
    BY <2>1 DEF Wired
  <2>3. PICK o \in M : p \in Outputs(o)
    BY <2>2 DEF Nodes
  <2>4. p[1] = o.name
    BY <2>3 DEF Outputs, WellFormed, Fills
  <2>5. p \notin Outputs(m)
    <3>1. Outputs(m) \subseteq {own}
      BY <1>2 DEF Outputs, Fills
    <3>2. p # own
      BY <1>6
    <3> QED
      BY <3>1, <3>2
  <2> QED
    BY <2>3, <2>4, <2>5, DeclarationAssumption
<1>10. {theta, t} \subseteq AwaitedThrough(M, c)
  <2> SUFFICES ASSUME NEW p \in {theta, t} PROVE p \in AwaitedThrough(M, c)
    OBVIOUS
  <2>1. Carrier(c)[1] = n
    BY <1>2, <1>6 DEF Carrier
  <2>2. residual \in DrivenBy(c)
    BY <1>2
  <2>3. p \in {r[1] : r \in Reached(BehindIt(M, residual).reads, "global")}
    BY <1>3 DEF GlobalOf
  <2>4. p \in UNION {{r[1] : r \in Reached(BehindIt(M, d).reads, "global")} : d \in DrivenBy(c)}
    BY <2>2, <2>3
  <2> QED
    BY <1>9, <2>1, <2>4 DEF AwaitedThrough
<1>11. DrivenBy(c) \subseteq Produced(M)
  BY <1>2, <1>3, <1>4 DEF Produced
<1>12. UsesItsReferences(M, m, c) /\ WritesAgree(M, m, c) /\ \A w \in c.runs : w.sets \subseteq BareOutputs(M)
  BY <1>2 DEF UsesItsReferences, WritesAgree
<1>13. RerunBy(M, c) = {e, f}
  BY <1>2, <1>3, <1>4 DEF RerunBy
<1>14. ASSUME NEW x \in {e, f}
       PROVE  /\ x \in Callbacks(M) /\ Awaited(x) \cap Fills(c) # {} /\ \A w \in x.runs : w.sets \subseteq Fills(c)
              /\ ReadBy(x) \ (FilledWith(M, c) \cup Previous(x) \cup Fills(x)) \subseteq Awaited(c) \cup AwaitedThrough(M, c)
  <2>1. x \in Callbacks(M) /\ ReadBy(x) = {theta, t, own, z} /\ own \in GlobalOf(x) /\ \A w \in x.runs : w.sets = {}
    BY <1>3, <1>4
  <2>2. own \in Awaited(x)
    BY <2>1 DEF GlobalOf, Awaited
  <2> QED
    BY <1>2, <1>7, <1>8, <1>10, <2>1, <2>2
<1>15. RerunsWhatItDrives(M, c)
  BY <1>2, <1>13, <1>14 DEF RerunsWhatItDrives
<1> QED
  BY <1>11, <1>12, <1>15 DEF Settles

-----------------------------------------------------------------------------
(***************************************************************************)
(* Decks of the library.                                                   *)
(***************************************************************************)
OfLibrary(M, m) ==
  \/ ElasticMaterial(m) \/ DamageMaterial(m) \/ ScalarMaterial(m) \/ HostMaterial(m)
  \/ MeanFieldMaterial(m) \/ ServingMaterial(m)
  \/ PlasticMaterial(M, m) \/ KinematicMaterial(M, m) \/ IntegratedMaterial(M, m) \/ StepMaterial(M, m)

IsLibraryDeck(M) == Wired(M) /\ \A m \in M : OfLibrary(M, m)

\* The two kinds keep something, and read no output that they do not declare.
LEMMA DepartsFacts ==
  ASSUME NEW c, Departs(c)
  PROVE  c.kept # {} /\ ReadBy(c) \subseteq DeclaredBy(c)
<1>1. ASSUME NEW n, NEW tangent, NEW initial, initial # {}, c = PhaseTangent(n, tangent, initial)
      PROVE  c.kept # {} /\ ReadBy(c) \subseteq DeclaredBy(c)
  <2> DEFINE reads == Local({tangent}) \cup Global(initial)
  <2>1. /\ c.kept # {} /\ c.reads = reads
        /\ c.runs = {Run(initial, {}, {})} \cup {Run({tangent}, {}, {})}
    BY <1>1 DEF PhaseTangent, Keeping, Callback, Reading
  <2>2. Sources(reads) = {tangent} \cup initial
    <3> DEFINE u == Local({tangent})  g == Global(initial)
    <3>1. Sources(u) = {tangent} /\ Sources(g) = initial
      BY ReadsFacts
    <3> HIDE DEF u, g
    <3>2. Sources(u \cup g) = Sources(u) \cup Sources(g)
      BY ReadsFacts
    <3> QED
      BY <3>1, <3>2 DEF u, g
  <2> HIDE DEF reads
  <2>3. ReadBy(c) \subseteq {tangent} \cup initial
    BY <2>1 DEF ReadBy, Run
  <2> QED
    BY <2>1, <2>2, <2>3 DEF DeclaredBy, Sources
<1>2. ASSUME NEW n, NEW hardening, NEW solver, c = KinematicResidual(n, hardening, solver)
      PROVE  c.kept # {} /\ ReadBy(c) \subseteq DeclaredBy(c)
  <2> DEFINE U == {solver} \X Unknowns
             T == Hardening(hardening)
             reads == Local(U) \cup Drives(T)
  <2>1. /\ c.kept # {} /\ c.reads = reads
        /\ \A w \in c.runs : w.reads = U \cup T
    <3> DEFINE only == Run(U \cup T, {<<hardening, "hardening_stress">>}, {<<n, "equivalent_plastic_strain">>})
    <3>1. c.kept # {} /\ c.reads = reads /\ c.runs = {only}
      BY <1>2 DEF KinematicResidual, Keeping, Callback
    <3>2. only.reads = U \cup T
      BY DEF Run
    <3> HIDE DEF only, U, T
    <3> QED
      BY <3>1, <3>2
  <2>2. Sources(reads) = U \cup T
    <3> DEFINE u == Local(U)  d == Drives(T)
    <3>1. Sources(u) = U /\ Sources(d) = T
      BY ReadsFacts
    <3> HIDE DEF u, d, U, T
    <3>2. Sources(u \cup d) = Sources(u) \cup Sources(d)
      BY ReadsFacts
    <3> QED
      BY <3>1, <3>2 DEF u, d
  <2> HIDE DEF reads, U, T
  <2> QED
    BY <2>1, <2>2 DEF DeclaredBy, Sources, ReadBy
<1> QED
  BY <1>1, <1>2 DEF Departs

\* In a deck of materials of the library what the callbacks declare suffices: each reads the
\* outputs it declares, what it keeps is never folded, what it writes elsewhere does not depend
\* on which run is the last, and it reruns only what depends on its own solve.  All of them
\* keep to the guide for authors but two, and those two do not: the tangent of a phase over a
\* local input has an undeclared member, and the residual of kinematic hardening undeclared
\* histories and an undeclared write (the constructors of the materials, next to their update
\* functions; docs/writing_a_material.md).
THEOREM LibraryKeeps ==
  ASSUME NEW M \in Decks, IsLibraryDeck(M)
  PROVE  Suffices(M) /\ \A c \in Callbacks(M) : KeepsToGuide(M, c) <=> ~Departs(c)
<1>1. \A m \in M : Fed(m)
  BY WiredFed DEF IsLibraryDeck
<1>2. ASSUME NEW m \in M PROVE FeedsForward(m) \/ StepMaterial(M, m) \/
                               (WellFormed(m) /\ \A c \in m.callbacks : Settles(M, m, c))
  BY <1>1, ElasticFeeds, DamageFeeds, ScalarFeeds, HostFeeds, MeanFieldFeeds, ServingFeeds,
     PlasticSettles, KinematicSettles, IntegratedSettles DEF IsLibraryDeck, OfLibrary
<1>3. ASSUME NEW m \in M PROVE WellFormed(m)
  BY <1>1, <1>2, StepForms DEF FeedsForward, StepMaterial
<1>4. ASSUME NEW m \in M, NEW c \in m.callbacks PROVE Settles(M, m, c)
  BY <1>2, <1>3, <1>4, FeedingKeeps, StepSettles DEF IsLibraryDeck
<1>5. IsFiniteSet(Nodes(M))
  BY DEF IsLibraryDeck, Wired
<1>6. Produced(M) \cap BareOutputs(M) = {}
  BY <1>3, BareApart
<1>7. ASSUME NEW m \in M, NEW c \in m.callbacks
      PROVE  /\ c.fills \in Seq(Nodes(M)) \ {<<>>} /\ \A p \in Fills(c) : p[1] = m.name
             /\ c.reads \subseteq Nodes(M) \X {"global", "local", "driven", "own"}
             /\ ReadsWhatItDeclares(c) /\ KeptIsNotFolded(M, c) /\ AwaitsWhatIsFilled(M, c)
             /\ HasState(M, c) <=> ReadBy(c) \cap Fills(c) # {}
  <2>1. DrivenBy(c) \subseteq Produced(M)
    BY <1>4, <1>7 DEF Settles
  <2> QED
    BY <1>3, <1>7, <2>1, FormedKeeps DEF IsLibraryDeck
<1>8. Suffices(M)
  BY <1>4, <1>5, <1>6, <1>7 DEF Suffices, Settles
<1>9. ASSUME NEW m \in M, NEW c \in m.callbacks
      PROVE  KeepsToGuide(M, c) <=> ~Departs(c)
  <2>1. CASE ~Departs(c)
    <3>1. c.kept = {}
      BY <1>3, <1>9, <2>1 DEF WellFormed, KeepsAlone, MayKeep
    <3>2. Keeps(c) => HasState(M, c)
      BY <1>7, <1>9, <3>1 DEF Keeps
    <3>3. \A w \in c.runs : w.sets \subseteq BareOutputs(M)
      BY <1>4, <1>9, <2>1 DEF Settles
    <3> QED
      BY <2>1, <3>2, <3>3 DEF KeepsToGuide
  <2>2. CASE Departs(c)
    <3>1. c.kept # {} /\ ReadBy(c) \subseteq DeclaredBy(c)
      BY <2>2, DepartsFacts
    <3>2. DeclaredBy(c) \cap Fills(c) = {}
      BY <1>1, <1>9 DEF Fed
    <3>3. ~HasState(M, c) /\ Keeps(c)
      BY <1>7, <1>9, <3>1, <3>2 DEF Keeps
    <3> QED
      BY <2>2, <3>3 DEF KeepsToGuide
  <2> QED
    BY <2>1, <2>2
<1> QED
  BY <1>8, <1>9 DEF Callbacks

\* So does every deck in every behaviour, where all decks are of the library.
THEOREM DeclarationsSufficeHolds ==
  ASSUME \A M \in Decks : IsLibraryDeck(M)
  PROVE  Spec => []DeclarationsSuffice
<1>1. Init => DeclarationsSuffice /\ deck \in Decks
  BY LibraryKeeps DEF Init, DeclarationsSuffice
<1>2. DeclarationsSuffice /\ [Next]_vars => DeclarationsSuffice'
  <2> SUFFICES ASSUME DeclarationsSuffice, [Next]_vars PROVE DeclarationsSuffice'
    OBVIOUS
  <2>1. deck' = deck
    BY DEF Next, Update, RunCallback, SetParameter, buildVars, vars
  <2> QED
    BY <2>1 DEF DeclarationsSuffice
<1> QED
  BY <1>1, <1>2, PTL DEF Spec

\* No update of such a deck leaves an output of an earlier one behind, and what the build folds
\* is what cannot change: without a condition on its callbacks (property_engine::update and
\* find_constants over the materials of the library).
THEOREM LibraryIsCurrent ==
  ASSUME \A M \in Decks : IsLibraryDeck(M)
  PROVE  Spec => []UpdateIsCurrent /\ []FoldedIsFixed
BY DeclarationsSufficeHolds, UpdateIsCurrentHolds, FoldedIsFixedHolds, PTL
=============================================================================
