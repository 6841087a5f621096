----------------------- MODULE MaterialContextProofs -----------------------
(***************************************************************************)
(* For every set of blueprints: the names and the wires of a context are   *)
(* sound, its history is of one step unless it is spoilt, and the context  *)
(* with its checkpoint implements DurableHistory.                          *)
(***************************************************************************)
EXTENDS MaterialContext, TLAPS

-----------------------------------------------------------------------------
(***************************************************************************)
(* The graph.                                                              *)
(***************************************************************************)
LEMMA BlueprintFacts ==
  ASSUME NEW b \in Blueprint
  PROVE  /\ b.name \in Names
         /\ \A o \in DOMAIN b.outputs : o \in STRING /\ b.outputs[o] \in Nat
         /\ b.inputs \in Seq([owner : Names, output : STRING])
         /\ \A r \in b.refs : r.name \in Names
BY ContextAssumption DEF Blueprints, Names

LEMMA KeysFacts ==
  ASSUME NEW b \in Blueprint, NEW k \in Keys(b)
  PROVE  /\ k \in Key /\ k.owner = b.name
         /\ k.output \in DOMAIN b.outputs /\ b.outputs[k.output] \in Nat
BY BlueprintFacts DEF Keys, Key

\* A material of a free name has no output in common with any other.
LEMMA FreeNameIsApart ==
  ASSUME TypeOK, NEW b \in Blueprint, CheckNameAvailable(b)
  PROVE  \A i \in DOMAIN objects :
           /\ objects[i] \in Blueprint
           /\ objects[i].name # b.name
           /\ Keys(objects[i]) \cap Keys(b) = {}
<1>1. \A i \in DOMAIN objects : objects[i] \in Blueprint
  BY DEF TypeOK
<1>2. \A i \in DOMAIN objects : objects[i].name # b.name
  BY DEF CheckNameAvailable, Find
<1>3. \A i \in DOMAIN objects : Keys(objects[i]) \cap Keys(b) = {}
  BY <1>1, <1>2, KeysFacts
<1> QED  BY <1>1, <1>2, <1>3

LEMMA AddTyped ==
  ASSUME TypeOK, NEW b \in Blueprint
  PROVE  /\ DOMAIN AddProperties(b) = DOMAIN registry \cup Keys(b)
         /\ \A k \in DOMAIN registry : AddProperties(b)[k] = registry[k]
         /\ \A k \in DOMAIN AddProperties(b) :
              /\ k \in Key
              /\ AddProperties(b)[k] \in [bytes : Nat, filler : {"none", "object", "gone"}]
         /\ DOMAIN AddHistories(b) = {k \in DOMAIN AddProperties(b) : AddProperties(b)[k].bytes > 0}
         /\ \A k \in DOMAIN AddHistories(b) : AddHistories(b)[k] \in [old : Age, new : Age]
<1>1. \A k \in Keys(b) : k \in Key /\ b.outputs[k.output] \in Nat
  BY KeysFacts
<1>2. \A k \in DOMAIN AddProperties(b) :
        /\ k \in Key
        /\ AddProperties(b)[k] \in [bytes : Nat, filler : {"none", "object", "gone"}]
  BY <1>1 DEF AddProperties, TypeOK
<1>3. DOMAIN AddHistories(b) = {k \in DOMAIN AddProperties(b) : AddProperties(b)[k].bytes > 0}
  BY <1>1 DEF AddProperties, AddHistories, Histories, TypeOK
<1>4. \A k \in DOMAIN AddHistories(b) : AddHistories(b)[k] \in [old : Age, new : Age]
  BY DEF AddHistories, Histories, TypeOK, Age
<1> QED  BY <1>2, <1>3, <1>4 DEF AddProperties

LEMMA BindTyped ==
  ASSUME TypeOK, NEW b \in Blueprint, NEW who \in {"object", "gone"}
  PROVE  /\ DOMAIN BindCallback(b, who) = DOMAIN registry \cup Keys(b)
         /\ \A k \in Keys(b) : BindCallback(b, who)[k].filler = who
         /\ \A k \in DOMAIN registry : k \notin Keys(b) => BindCallback(b, who)[k] = registry[k]
         /\ \A k \in DOMAIN BindCallback(b, who) :
              /\ k \in Key
              /\ BindCallback(b, who)[k] \in [bytes : Nat, filler : {"none", "object", "gone"}]
         /\ DOMAIN AddHistories(b) =
              {k \in DOMAIN BindCallback(b, who) : BindCallback(b, who)[k].bytes > 0}
<1> DEFINE P == AddProperties(b)
<1> DEFINE Q == BindCallback(b, who)
<1>1. /\ DOMAIN P = DOMAIN registry \cup Keys(b)
      /\ \A k \in DOMAIN registry : P[k] = registry[k]
      /\ \A k \in DOMAIN P :
           k \in Key /\ P[k] \in [bytes : Nat, filler : {"none", "object", "gone"}]
      /\ DOMAIN AddHistories(b) = {k \in DOMAIN P : P[k].bytes > 0}
  BY AddTyped
<1>2. Q = [k \in DOMAIN P |->
             IF k \in Keys(b) THEN [P[k] EXCEPT !.filler = who] ELSE registry[k]]
  BY DEF BindCallback
<1> HIDE DEF P, Q
<1>3. \A k \in DOMAIN P :
        /\ Q[k] \in [bytes : Nat, filler : {"none", "object", "gone"}]
        /\ Q[k].bytes = P[k].bytes
        /\ k \in Keys(b) => Q[k].filler = who
        /\ k \notin Keys(b) => Q[k] = registry[k]
  BY <1>1, <1>2
<1>4. DOMAIN Q = DOMAIN P
  BY <1>2
<1> QED  BY <1>1, <1>3, <1>4 DEF Q

-----------------------------------------------------------------------------
LEMMA CreateKeepsContext ==
  ASSUME ContextInv, NEW b \in Blueprint, Create(b)
  PROVE  ContextInv'
<1> USE DEF ContextInv
<1>1. /\ refsWired' = refsWired /\ inputsWired' = inputsWired
      /\ finalized' = FALSE /\ failed' = failed /\ behind' = behind /\ spoilt' = spoilt
  BY DEF Create, TypeOK
<1>2. /\ \A i \in DOMAIN objects : Keys(objects[i]) \cap Keys(b) = {}
      /\ \A i \in DOMAIN objects : objects[i].name # b.name
      /\ \A i \in DOMAIN objects : objects[i] \in Blueprint
  BY FreeNameIsApart DEF Create
<1>3. FinalizedIsWired'
  BY <1>1 DEF FinalizedIsWired
<1>4. CASE Adopt(b)
  <2>1. /\ registry' = BindCallback(b, "object")
        /\ hist' = AddHistories(b)
        /\ objects' = Append(objects, b)
    BY <1>4 DEF Adopt
  <2>2. TypeOK'
    <3>1. objects' \in Seq(Blueprint)
      BY <2>1 DEF TypeOK
    <3>2. /\ DOMAIN registry' \subseteq Key
          /\ \A k \in DOMAIN registry' :
               registry'[k] \in [bytes : Nat, filler : {"none", "object", "gone"}]
          /\ DOMAIN hist' = {k \in DOMAIN registry' : registry'[k].bytes > 0}
      BY <2>1, BindTyped
    <3>3. \A k \in DOMAIN hist' : hist'[k] \in [old : Age, new : Age]
      BY <2>1, AddTyped
    <3> QED  BY <1>1, <3>1, <3>2, <3>3 DEF TypeOK
  <2>3. /\ DOMAIN objects' = DOMAIN objects \cup {Len(objects) + 1}
        /\ Len(objects) + 1 \notin DOMAIN objects
        /\ objects'[Len(objects) + 1] = b
        /\ \A i \in DOMAIN objects : objects'[i] = objects[i]
    BY <2>1 DEF TypeOK
  <2>4. /\ DOMAIN registry' = DOMAIN registry \cup Keys(b)
        /\ \A k \in Keys(b) : registry'[k].filler = "object"
        /\ \A k \in DOMAIN registry : k \notin Keys(b) => registry'[k] = registry[k]
    <3> DEFINE Q == BindCallback(b, "object")
    <3>1. /\ DOMAIN Q = DOMAIN registry \cup Keys(b)
          /\ \A k \in Keys(b) : Q[k].filler = "object"
          /\ \A k \in DOMAIN registry : k \notin Keys(b) => Q[k] = registry[k]
      BY BindTyped
    <3>2. registry' = Q
      BY <2>1
    <3> HIDE DEF Q
    <3> QED  BY <3>1, <3>2
  <2>5. \A i, j \in DOMAIN objects' : objects'[i].name = objects'[j].name => i = j
    BY <1>2, <2>3 DEF NamesAreUnique
  <2>6. \A i \in DOMAIN objects' : \A k \in Keys(objects'[i]) :
          k \in DOMAIN registry' /\ registry'[k].filler = "object"
    <3>1. ASSUME NEW i \in DOMAIN objects, NEW k \in Keys(objects'[i])
          PROVE  k \in DOMAIN registry' /\ registry'[k].filler = "object"
      <4>1. k \in Keys(objects[i])
        BY <2>3
      <4>2. k \in DOMAIN registry /\ k \notin Keys(b) /\ registry[k].filler = "object"
        BY <1>2, <4>1 DEF NamesAreUnique
      <4> QED  BY <2>4, <4>2
    <3>2. \A k \in Keys(objects'[Len(objects) + 1]) :
            k \in DOMAIN registry' /\ registry'[k].filler = "object"
      BY <2>3, <2>4
    <3> QED  BY <2>3, <3>1, <3>2
  <2>7. \A k \in DOMAIN registry' :
          registry'[k].filler = "object" => \E i \in DOMAIN objects' : k \in Keys(objects'[i])
    <3> SUFFICES ASSUME NEW k \in DOMAIN registry', registry'[k].filler = "object"
                 PROVE  \E i \in DOMAIN objects' : k \in Keys(objects'[i])
      OBVIOUS
    <3>1. CASE k \in Keys(b)
      BY <2>3, <3>1
    <3>2. CASE k \notin Keys(b)
      <4>1. PICK i \in DOMAIN objects : k \in Keys(objects[i])
        BY <2>4, <3>2 DEF NamesAreUnique
      <4> QED  BY <2>3, <4>1
    <3> QED  BY <3>1, <3>2
  <2>8. NamesAreUnique'
    BY <2>5, <2>6, <2>7 DEF NamesAreUnique
  <2> QED  BY <1>3, <2>2, <2>8
<1>5. CASE ConstructorThrows(b)
  <2>1. objects' = objects
    BY <1>5 DEF ConstructorThrows
  <2>2. CASE UNCHANGED <<registry, hist>>
    BY <1>1, <1>3, <2>1, <2>2 DEF TypeOK, NamesAreUnique
  <2>3. CASE registry' = BindCallback(b, "gone") /\ hist' = AddHistories(b) /\ ~IsBound(b)
    <3>1. TypeOK'
      BY <1>1, <2>1, <2>3, BindTyped, AddTyped DEF TypeOK
    <3> DEFINE Q == BindCallback(b, "gone")
    <3>4. /\ DOMAIN Q = DOMAIN registry \cup Keys(b)
          /\ \A k \in Keys(b) : Q[k].filler = "gone"
          /\ \A k \in DOMAIN registry : k \notin Keys(b) => Q[k] = registry[k]
      BY BindTyped
    <3>5. registry' = Q
      BY <2>3
    <3> HIDE DEF Q
    <3>2. \A k \in DOMAIN registry' :
            registry'[k].filler = "object" => k \in DOMAIN registry /\ k \notin Keys(b)
      BY <3>4, <3>5
    <3>3. NamesAreUnique'
      <4>1. /\ DOMAIN registry' = DOMAIN registry \cup Keys(b)
            /\ \A k \in DOMAIN registry : k \notin Keys(b) => registry'[k] = registry[k]
        BY <3>4, <3>5
      <4>2. ASSUME NEW i \in DOMAIN objects, NEW k \in Keys(objects[i])
            PROVE  k \in DOMAIN registry' /\ registry'[k].filler = "object"
        BY <1>2, <4>1 DEF NamesAreUnique
      <4>3. \A k \in DOMAIN registry' : registry'[k].filler = "object" =>
              k \in DOMAIN registry /\ registry[k].filler = "object"
        BY <3>2, <4>1
      <4> QED  BY <2>1, <4>2, <4>3 DEF NamesAreUnique
    <3> QED  BY <1>3, <3>1, <3>3
  <2>4. CASE registry' = AddProperties(b) /\ hist' = AddHistories(b)
    <3>1. TypeOK'
      BY <1>1, <2>1, <2>4, AddTyped DEF TypeOK
    <3>2. \A k \in DOMAIN registry' : registry'[k].filler = "object" => k \in DOMAIN registry
      BY <2>4 DEF AddProperties
    <3>3. NamesAreUnique'
      <4>1. /\ DOMAIN registry' = DOMAIN registry \cup Keys(b)
            /\ \A k \in DOMAIN registry : registry'[k] = registry[k]
        BY <2>4, AddTyped
      <4> QED  BY <2>1, <3>2, <4>1 DEF NamesAreUnique
    <3> QED  BY <1>3, <3>1, <3>3
  <2> QED  BY <1>5, <2>2, <2>3, <2>4 DEF ConstructorThrows
<1> QED  BY <1>4, <1>5 DEF Create

LEMMA FinalizeKeepsContext ==
  ASSUME ContextInv, Finalize \/ FinalizeThrows
  PROVE  ContextInv'
<1> USE DEF ContextInv
<1>1. UNCHANGED <<objects, registry, hist, failed, behind>>
  BY DEF Finalize, FinalizeThrows
<1>2. /\ finalized' \in BOOLEAN /\ spoilt' \in BOOLEAN
      /\ refsWired' \subseteq [from : Names, name : Names]
      /\ inputsWired' \subseteq [from : Names, key : Key]
  BY DEF Finalize, FinalizeThrows, WireMaterials, WireInputs, TypeOK, Leftover
<1>3. TypeOK' /\ NamesAreUnique'
  BY <1>1, <1>2 DEF TypeOK, NamesAreUnique
<1>4. CASE FinalizeThrows
  <2>1. finalized' = FALSE
    BY <1>4 DEF FinalizeThrows, TypeOK
  <2> QED  BY <1>3, <2>1 DEF FinalizedIsWired
<1>5. CASE Finalize
  <2>1. SUFFICES ASSUME NEW i \in DOMAIN objects
                 PROVE  /\ \A r \in objects[i].refs :
                             /\ [from |-> objects[i].name, name |-> r.name] \in refsWired'
                             /\ Finds(r)
                        /\ \A n \in DOMAIN objects[i].inputs :
                             /\ [from |-> objects[i].name, key |-> objects[i].inputs[n]] \in inputsWired'
                             /\ objects[i].inputs[n] \in DOMAIN registry
    BY <1>1, <1>3 DEF FinalizedIsWired, Finds, Find
  <2>2. /\ objects[i] \in Blueprint /\ objects[i].name \in Names
        /\ \A r \in objects[i].refs : r.name \in Names
        /\ DOMAIN objects[i].inputs = 1 .. Len(objects[i].inputs)
        /\ Len(objects[i].inputs) \in Nat
    BY BlueprintFacts DEF TypeOK
  <2>3. \A j \in DOMAIN objects : AllRefsFound(j) /\ AllInputsFound(j)
    BY <1>5 DEF Finalize
  <2>4. DOMAIN objects = 1 .. Len(objects) /\ Len(objects) \in Nat
    BY DEF TypeOK
  <2>5. \A j \in 1 .. i - 1 : AllRefsFound(j) /\ AllInputsFound(j)
    BY <2>3, <2>4
  <2>6. ASSUME NEW r \in objects[i].refs
        PROVE  [from |-> objects[i].name, name |-> r.name] \in refsWired' /\ Finds(r)
    <3>1. Finds(r)
      BY <2>3 DEF AllRefsFound
    <3> QED  BY <1>5, <2>2, <2>5, <3>1 DEF Finalize, WireMaterials
  <2>7. ASSUME NEW n \in DOMAIN objects[i].inputs
        PROVE  /\ [from |-> objects[i].name, key |-> objects[i].inputs[n]] \in inputsWired'
               /\ objects[i].inputs[n] \in DOMAIN registry
    <3>1. \A m \in 1 .. n : m \in DOMAIN objects[i].inputs /\ objects[i].inputs[m] \in DOMAIN registry
      BY <2>2, <2>3 DEF AllInputsFound
    <3>2. objects[i].inputs[n] \in DOMAIN registry
      BY <2>3 DEF AllInputsFound
    <3> QED  BY <1>5, <2>2, <2>5, <3>1, <3>2 DEF Finalize, WireInputs
  <2> QED  BY <2>6, <2>7
<1> QED  BY <1>4, <1>5

\* An update, of the whole graph or of a property, and what it has stepped.
SomeUpdate ==
  Update \/ UpdateThrows
    \/ \E runs \in Runs : UpdateProperty(runs) \/ UpdatePropertyThrows(runs)

SomeUndefined == UpdateUndefined \/ \E runs \in Runs : UpdatePropertyUndefined(runs)

LeftBehind(S) == \E h \in Histories \ S : hist[h].new = hist[h].old

Steps(S) ==
  /\ S \subseteq Filled
  /\ hist' = Stepped(S) /\ spoilt' = (spoilt \/ StepsTwice(S))
  /\ ~failed' => \/ S = Filled /\ behind' = FALSE
                 \/ S = {} /\ behind' = behind
                 \/ S # {} /\ behind' = LeftBehind(S)

LEMMA SomeUpdateFacts ==
  ASSUME TypeOK, SomeUpdate
  PROVE  /\ UNCHANGED <<graphVars, disk>> /\ finalized /\ ~failed
         /\ failed' \in BOOLEAN /\ behind' \in BOOLEAN /\ spoilt' \in BOOLEAN
         /\ \E S : Steps(S)
<1>1. CASE Update
  BY <1>1 DEF Update, MayUpdate, Steps, StepsTwice, TypeOK
<1>2. ASSUME NEW Q, Throwing(Q), Q \subseteq Filled, MayUpdate
      PROVE  /\ UNCHANGED <<graphVars, disk>> /\ finalized /\ ~failed
             /\ failed' \in BOOLEAN /\ behind' \in BOOLEAN /\ spoilt' \in BOOLEAN
             /\ \E S : Steps(S)
  BY <1>2 DEF Throwing, MayUpdate, Steps, StepsTwice, TypeOK
<1>3. CASE UpdateThrows
  BY <1>2, <1>3 DEF UpdateThrows
<1>4. ASSUME NEW runs \in Runs, UpdateProperty(runs)
      PROVE  /\ UNCHANGED <<graphVars, disk>> /\ finalized /\ ~failed
             /\ failed' \in BOOLEAN /\ behind' \in BOOLEAN /\ spoilt' \in BOOLEAN
             /\ \E S : Steps(S)
  <2>1. Steps(Filled \cap runs)
    BY <1>4 DEF UpdateProperty, Steps, LeftBehind
  <2> QED
    BY <1>4, <2>1 DEF UpdateProperty, MayUpdate, StepsTwice, TypeOK
<1>5. ASSUME NEW runs \in Runs, UpdatePropertyThrows(runs)
      PROVE  Throwing(Filled \cap runs) /\ MayUpdate
  BY <1>5 DEF UpdatePropertyThrows
<1> QED  BY <1>1, <1>2, <1>3, <1>4, <1>5 DEF SomeUpdate

LEMMA SomeUndefinedFacts ==
  ASSUME TypeOK, SomeUndefined
  PROVE  /\ UNCHANGED <<graphVars, behind, disk>> /\ finalized
         /\ failed' \in BOOLEAN /\ spoilt' = TRUE
         /\ DOMAIN hist' = DOMAIN hist
         /\ \A k \in DOMAIN hist : hist'[k] \in [old : Age, new : Age]
<1>1. MayUpdate /\ Undefined
  BY DEF SomeUndefined, UpdateUndefined, UpdatePropertyUndefined
<1> QED  BY <1>1 DEF MayUpdate, Undefined, Histories, Age

LEMMA SteppedTyped ==
  ASSUME TypeOK, NEW S
  PROVE  /\ DOMAIN Stepped(S) = Histories
         /\ \A k \in Histories : /\ Stepped(S)[k] \in [old : Age, new : Age]
                                 /\ Stepped(S)[k].old = hist[k].old
BY DEF TypeOK, Stepped, Histories, Age, After

\* The checkpoint holds sizes and ages; one that is not spoilt is of one step.
DiskInv ==
  disk # None =>
    /\ disk.spoilt \in BOOLEAN
    /\ \A k \in DOMAIN disk.entries :
         disk.entries[k].old \in Age /\ disk.entries[k].new \in Age
    /\ ~disk.spoilt =>
         \A k, h \in DOMAIN disk.entries :
           /\ disk.entries[k].old = disk.entries[h].old /\ disk.entries[k].old # Lost
           /\ disk.entries[k].new = disk.entries[h].new
           /\ disk.entries[k].new \in {disk.entries[k].old, After(disk.entries[k].old)}

LEMMA HistKeepsContext ==
  ASSUME ContextInv, UNCHANGED graphVars,
         failed' \in BOOLEAN, behind' \in BOOLEAN, spoilt' \in BOOLEAN,
         DOMAIN hist' = DOMAIN hist,
         \A k \in DOMAIN hist : hist'[k] \in [old : Age, new : Age]
  PROVE  ContextInv'
<1>1. UNCHANGED <<objects, registry, refsWired, inputsWired, finalized>>
  BY DEF graphVars
<1>2. TypeOK'
  BY <1>1 DEF ContextInv, TypeOK
<1>3. NamesAreUnique'
  BY <1>1 DEF ContextInv, NamesAreUnique
<1>4. FinalizedIsWired'
  BY <1>1 DEF ContextInv, FinalizedIsWired, Finds, Find
<1> QED  BY <1>2, <1>3, <1>4 DEF ContextInv

LEMMA NextKeepsContext ==
  ASSUME ContextInv, DiskInv, [Next]_contextVars
  PROVE  ContextInv'
<1>1. TypeOK
  BY DEF ContextInv
<1>2. ASSUME NEW b \in Blueprint, Create(b) PROVE ContextInv'
  BY <1>2, CreateKeepsContext
<1>3. CASE Finalize \/ FinalizeThrows
  BY <1>3, FinalizeKeepsContext
<1>4. CASE SomeUpdate
  <2>1. \E S : hist' = Stepped(S)
    BY <1>1, <1>4, SomeUpdateFacts DEF Steps
  <2>2. /\ DOMAIN hist' = DOMAIN hist
        /\ \A k \in DOMAIN hist : hist'[k] \in [old : Age, new : Age]
    BY <1>1, <2>1, SteppedTyped DEF Histories
  <2>3. /\ UNCHANGED graphVars
        /\ failed' \in BOOLEAN /\ behind' \in BOOLEAN /\ spoilt' \in BOOLEAN
    BY <1>1, <1>4, SomeUpdateFacts
  <2> QED  BY <2>2, <2>3, HistKeepsContext
<1>5. CASE SomeUndefined
  BY <1>1, <1>5, SomeUndefinedFacts, HistKeepsContext DEF TypeOK
<1>6. CASE Commit \/ Revert
  <2>1. /\ DOMAIN hist' = DOMAIN hist
        /\ \A k \in DOMAIN hist : hist'[k] \in [old : Age, new : Age]
    <3>1. \A k \in DOMAIN hist : hist[k] \in [old : Age, new : Age]
      BY <1>1 DEF TypeOK, Histories
    <3>2. CASE Commit
      BY <3>1, <3>2 DEF Commit, Histories
    <3>3. CASE Revert
      BY <3>1, <3>3 DEF Revert, Histories
    <3> QED  BY <1>6, <3>2, <3>3
  <2>2. /\ UNCHANGED graphVars
        /\ failed' \in BOOLEAN /\ behind' \in BOOLEAN /\ spoilt' \in BOOLEAN
    BY <1>1, <1>6 DEF Commit, Revert, TypeOK
  <2> QED  BY <2>1, <2>2, HistKeepsContext
<1>7. CASE SaveState \/ SaveIsCut
  BY <1>1, <1>7, HistKeepsContext DEF SaveState, SaveIsCut, TypeOK
<1>8. CASE LoadState
  <2>1. disk # None /\ DOMAIN disk.entries = Histories
    BY <1>8 DEF LoadState, Matches
  <2> QED  BY <1>1, <1>8, <2>1, HistKeepsContext DEF LoadState, Restored, Histories, TypeOK, DiskInv, Leftover
<1>9. CASE LoadOtherSize
  <2>1. disk # None /\ DOMAIN disk.entries = Histories
    BY <1>9 DEF LoadOtherSize, Matches
  <2>2. /\ DOMAIN hist' = DOMAIN hist
        /\ \A k \in DOMAIN hist : hist'[k] \in [old : Age, new : Age]
    BY <1>1, <1>9, <2>1 DEF LoadOtherSize, Restored, Histories, TypeOK, DiskInv, Age
  <2> QED  BY <1>1, <1>9, <2>2, HistKeepsContext DEF LoadOtherSize, TypeOK
<1>10. CASE Restart
  <2>1. /\ objects' = <<>> /\ registry' = <<>> /\ hist' = <<>>
        /\ refsWired' = {} /\ inputsWired' = {}
        /\ finalized' = FALSE /\ failed' = FALSE /\ behind' = FALSE /\ spoilt' = FALSE
    BY <1>10 DEF Restart
  <2>2. objects' \in Seq(Blueprint) /\ DOMAIN objects' = {} /\ DOMAIN registry' = {} /\ DOMAIN hist' = {}
    BY <2>1
  <2>3. TypeOK'
    BY <2>1, <2>2 DEF TypeOK
  <2>4. NamesAreUnique'
    BY <2>2 DEF NamesAreUnique
  <2>5. FinalizedIsWired'
    BY <2>1 DEF FinalizedIsWired
  <2> QED  BY <2>3, <2>4, <2>5 DEF ContextInv
<1>11. CASE UNCHANGED contextVars
  BY <1>1, <1>11, HistKeepsContext DEF contextVars, TypeOK
<1> QED
  BY <1>2, <1>3, <1>4, <1>5, <1>6, <1>7, <1>8, <1>9, <1>10, <1>11
  DEF Next, SomeUpdate, SomeUndefined

-----------------------------------------------------------------------------
(***************************************************************************)
(* The history.                                                            *)
(***************************************************************************)
\* Until finalize() nothing has run; after it, what a constructor has left is known.
GateInv ==
  /\ ~finalized =>
       /\ ~failed /\ ~behind /\ ~spoilt
       /\ \A k \in Histories : hist[k].old = 0 /\ hist[k].new = 0
  /\ finalized /\ ~spoilt => ~Leftover

\* What is behind can be told from the rest.
BehindInv ==
  ~spoilt /\ ~failed /\ behind => \E k, h \in Histories : hist[k].new # hist[h].new

IInv == ContextInv /\ DiskInv /\ GateInv /\ HistoryIsOfOneStep /\ BehindInv

LEMMA LostIsNoStep == Lost \notin Nat
BY ContextAssumption

LEMMA AfterIsNext ==
  ASSUME NEW a \in Age, a # Lost
  PROVE  a \in Nat /\ After(a) = a + 1 /\ After(a) # a /\ After(a) # Lost
BY LostIsNoStep DEF Age, After

LEMMA CreateKeepsHistory ==
  ASSUME IInv, NEW b \in Blueprint, Create(b)
  PROVE  DiskInv' /\ GateInv' /\ HistoryIsOfOneStep' /\ BehindInv'
<1>1. /\ ~finalized /\ ~failed /\ ~behind /\ ~spoilt
      /\ \A k \in Histories : hist[k].old = 0 /\ hist[k].new = 0
  BY DEF IInv, GateInv, Create
<1>2. UNCHANGED <<finalized, failed, behind, spoilt, disk>>
  BY DEF Create
<1>3. hist' = hist \/ hist' = AddHistories(b)
  BY DEF Create, Adopt, ConstructorThrows
<1>4. \A k \in DOMAIN hist' : hist'[k].old = 0 /\ hist'[k].new = 0
  BY <1>1, <1>3 DEF AddHistories, Histories
<1>5. DiskInv'
  BY <1>2 DEF IInv, DiskInv
<1>6. GateInv'
  BY <1>1, <1>2, <1>4 DEF GateInv, Histories
<1>7. HistoryIsOfOneStep'
  BY <1>4, LostIsNoStep DEF HistoryIsOfOneStep, Histories
<1> QED  BY <1>1, <1>2, <1>5, <1>6, <1>7 DEF BehindInv

LEMMA UpdateKeepsHistory ==
  ASSUME IInv, SomeUpdate
  PROVE  GateInv' /\ HistoryIsOfOneStep' /\ BehindInv'
<1>1. /\ UNCHANGED graphVars /\ finalized /\ ~failed
      /\ failed' \in BOOLEAN /\ behind' \in BOOLEAN /\ spoilt' \in BOOLEAN
  BY SomeUpdateFacts DEF IInv, ContextInv
<1>2. PICK S : Steps(S)
  BY SomeUpdateFacts DEF IInv, ContextInv
<1>3. /\ DOMAIN hist' = Histories /\ Histories' = Histories
      /\ \A k \in Histories : hist'[k].old = hist[k].old
  BY <1>2, SteppedTyped DEF Steps, IInv, ContextInv, Histories
<1>4. GateInv'
  BY <1>1, <1>2 DEF IInv, GateInv, graphVars, Leftover, Steps
<1>5. CASE ~spoilt'
  <2>1. ~spoilt /\ ~StepsTwice(S) /\ ~Leftover
    BY <1>1, <1>2, <1>5 DEF Steps, IInv, GateInv
  <2>2. /\ \A k \in Histories : hist[k] \in [old : Age, new : Age]
        /\ Filled = Histories
    BY <2>1 DEF IInv, ContextInv, TypeOK, Histories, Filled, Leftover
  <2>3. \A k, h \in Histories :
          /\ hist[k].old = hist[h].old /\ hist[k].old # Lost
          /\ hist[k].new \in {hist[k].old, After(hist[k].old)}
          /\ ~behind => hist[k].new = hist[h].new
    BY <1>1, <2>1 DEF IInv, HistoryIsOfOneStep
  <2>4. \A k \in Histories : After(hist[k].old) # hist[k].old
    BY <2>2, <2>3, AfterIsNext
  <2>5. \A k \in Histories :
          hist'[k].new = IF k \in S THEN After(hist[k].old) ELSE hist[k].new
    BY <1>2, <2>1, <2>2 DEF Steps, Stepped, StepsTwice
  <2>6. \A k \in Histories : hist'[k].new \in {hist[k].old, After(hist[k].old)}
    BY <2>3, <2>5
  <2>7. ASSUME ~failed', ~behind'
        PROVE  \A k, h \in Histories : hist'[k].new = hist'[h].new
    <3>1. CASE S = Filled
      BY <2>2, <2>3, <2>5, <3>1
    <3>2. CASE S = {} /\ behind' = behind
      BY <2>3, <2>5, <2>7, <3>2
    <3>3. CASE S # {} /\ behind' = LeftBehind(S)
      <4>1. \A k \in Histories \ S : hist[k].new # hist[k].old
        BY <2>7, <3>3 DEF LeftBehind
      <4>2. \A k \in Histories : hist'[k].new = After(hist[k].old)
        BY <2>3, <2>5, <4>1
      <4> QED  BY <2>3, <4>2
    <3> QED  BY <1>2, <2>7, <3>1, <3>2, <3>3 DEF Steps
  <2>8. ASSUME ~failed', behind'
        PROVE  \E k, h \in Histories : hist'[k].new # hist'[h].new
    <3>1. CASE S = {} /\ behind' = behind
      <4>1. PICK k \in Histories, h \in Histories : hist[k].new # hist[h].new
        BY <1>1, <2>1, <2>8, <3>1 DEF IInv, BehindInv
      <4> QED  BY <2>5, <3>1, <4>1
    <3>2. CASE S # {} /\ behind' = LeftBehind(S)
      <4>1. PICK h \in Histories \ S : hist[h].new = hist[h].old
        BY <2>8, <3>2 DEF LeftBehind
      <4>2. PICK k : k \in S
        BY <3>2
      <4>3. k \in Histories /\ h \in Histories
        BY <1>2, <2>2, <4>2 DEF Steps
      <4>4. hist'[k].new = After(hist[k].old) /\ hist'[h].new = hist[k].old
        BY <2>3, <2>5, <4>1, <4>2, <4>3
      <4> QED  BY <2>4, <4>3, <4>4
    <3> QED  BY <1>1, <1>2, <2>8, <3>1, <3>2 DEF Steps
  <2>9. HistoryIsOfOneStep'
    BY <1>3, <2>3, <2>6, <2>7 DEF HistoryIsOfOneStep
  <2> QED  BY <1>3, <1>4, <2>8, <2>9 DEF BehindInv
<1>6. CASE spoilt'
  BY <1>4, <1>6 DEF HistoryIsOfOneStep, BehindInv
<1> QED  BY <1>5, <1>6

LEMMA SaveKeepsDisk ==
  ASSUME IInv, SaveState \/ SaveIsCut
  PROVE  DiskInv'
<1>1. PICK S \in SUBSET Histories :
        /\ disk'.entries = Written(S) /\ disk'.spoilt = (spoilt \/ failed \/ behind)
        /\ spoilt' = spoilt /\ failed' = failed
  BY DEF SaveState, SaveIsCut
<1>2. \A k \in Histories : hist[k].old \in Age /\ hist[k].new \in Age
  BY DEF IInv, ContextInv, TypeOK, Histories
<1>3. /\ DOMAIN disk'.entries = S
      /\ \A k \in S : disk'.entries[k].old = hist[k].old /\ disk'.entries[k].new = hist[k].new
  BY <1>1 DEF Written
<1>4. ~disk'.spoilt =>
        \A k, h \in Histories :
          /\ hist[k].old = hist[h].old /\ hist[k].old # Lost
          /\ hist[k].new = hist[h].new
          /\ hist[k].new \in {hist[k].old, After(hist[k].old)}
  BY <1>1 DEF IInv, HistoryIsOfOneStep
<1>5. ~disk'.spoilt =>
        \A k, h \in DOMAIN disk'.entries :
          /\ disk'.entries[k].old = disk'.entries[h].old /\ disk'.entries[k].old # Lost
          /\ disk'.entries[k].new = disk'.entries[h].new
          /\ disk'.entries[k].new \in {disk'.entries[k].old, After(disk'.entries[k].old)}
  BY <1>3, <1>4
<1>6. disk'.spoilt \in BOOLEAN
  BY <1>1 DEF IInv, ContextInv, TypeOK
<1> QED  BY <1>2, <1>3, <1>5, <1>6 DEF DiskInv

LEMMA InvariantInductive ==
  ASSUME IInv, [Next]_contextVars
  PROVE  IInv'
<1>1. ContextInv'
  BY NextKeepsContext DEF IInv
<1>2. ASSUME NEW b \in Blueprint, Create(b) PROVE IInv'
  BY <1>1, <1>2, CreateKeepsHistory DEF IInv
<1>3. CASE FinalizeThrows
  <2>1. /\ UNCHANGED <<objects, registry, hist, finalized, failed, behind, spoilt, disk>>
        /\ ~finalized
    BY <1>3 DEF FinalizeThrows
  <2> QED
    BY <1>1, <2>1 DEF IInv, DiskInv, GateInv, HistoryIsOfOneStep, BehindInv, Histories, Leftover
<1>4. CASE Finalize
  <2>1. /\ UNCHANGED <<objects, registry, hist, failed, behind, disk>>
        /\ ~finalized /\ finalized' = TRUE /\ spoilt' = Leftover
    BY <1>4 DEF Finalize
  <2>2. ~spoilt /\ ~behind
    BY <2>1 DEF IInv, GateInv
  <2>3. GateInv'
    BY <2>1 DEF GateInv, Leftover
  <2> QED
    BY <1>1, <2>1, <2>2, <2>3 DEF IInv, DiskInv, HistoryIsOfOneStep, BehindInv, Histories
<1>5. CASE SomeUpdate
  <2>1. disk' = disk
    BY <1>5, SomeUpdateFacts DEF IInv, ContextInv
  <2> QED  BY <1>1, <1>5, <2>1, UpdateKeepsHistory DEF IInv, DiskInv
<1>6. CASE SomeUndefined
  <2>1. UNCHANGED <<graphVars, disk>> /\ finalized /\ spoilt' = TRUE
    BY <1>6, SomeUndefinedFacts DEF IInv, ContextInv
  <2> QED
    BY <1>1, <2>1 DEF IInv, DiskInv, GateInv, HistoryIsOfOneStep, BehindInv, graphVars
<1>7. CASE Commit
  <2>1. /\ UNCHANGED <<graphVars, failed, disk>> /\ ~failed /\ finalized
        /\ behind' = FALSE /\ spoilt' = (spoilt \/ behind)
        /\ hist' = [k \in Histories |-> [hist[k] EXCEPT !.old = hist[k].new]]
    BY <1>7 DEF Commit
  <2>2. \A k \in Histories : hist[k] \in [old : Age, new : Age]
    BY DEF IInv, ContextInv, TypeOK, Histories
  <2>3. /\ DOMAIN hist' = Histories
        /\ \A k \in Histories : hist'[k].old = hist[k].new /\ hist'[k].new = hist[k].new
    BY <2>1, <2>2
  <2>4. HistoryIsOfOneStep'
    <3>1. Histories' = Histories
      BY <2>3 DEF Histories
    <3>2. ASSUME ~spoilt, ~behind, NEW k \in Histories, NEW h \in Histories
          PROVE  hist[k].new = hist[h].new /\ hist[k].new # Lost
      <4>1. /\ hist[k].new = hist[h].new /\ hist[k].old # Lost
            /\ hist[k].new \in {hist[k].old, After(hist[k].old)}
        BY <2>1, <3>2 DEF IInv, HistoryIsOfOneStep
      <4> QED  BY <2>2, <4>1, AfterIsNext
    <3>3. ASSUME ~spoilt', NEW k \in Histories, NEW h \in Histories
          PROVE  /\ hist'[k].old = hist'[h].old /\ hist'[k].old # Lost
                 /\ hist'[k].new = hist'[k].old /\ hist'[k].new = hist'[h].new
      <4>1. ~spoilt /\ ~behind
        BY <2>1, <3>3
      <4>2. hist[k].new = hist[h].new /\ hist[k].new # Lost
        BY <3>2, <4>1
      <4> QED  BY <2>3, <4>2
    <3> QED  BY <3>1, <3>3 DEF HistoryIsOfOneStep
  <2> QED  BY <1>1, <2>1, <2>4 DEF IInv, DiskInv, GateInv, BehindInv, Leftover, graphVars
<1>8. CASE Revert
  <2>1. /\ UNCHANGED <<graphVars, spoilt, disk>> /\ finalized
        /\ failed' = FALSE /\ behind' = FALSE
        /\ hist' = [k \in Histories |-> [hist[k] EXCEPT !.new = hist[k].old]]
    BY <1>8 DEF Revert
  <2>2. \A k \in Histories : hist[k] \in [old : Age, new : Age]
    BY DEF IInv, ContextInv, TypeOK, Histories
  <2>3. /\ DOMAIN hist' = Histories
        /\ \A k \in Histories : hist'[k].old = hist[k].old /\ hist'[k].new = hist[k].old
    BY <2>1, <2>2
  <2>4. HistoryIsOfOneStep'
    BY <2>1, <2>3 DEF IInv, HistoryIsOfOneStep, Histories
  <2> QED  BY <1>1, <2>1, <2>4 DEF IInv, DiskInv, GateInv, BehindInv, Leftover, graphVars
<1>9. CASE SaveState \/ SaveIsCut
  <2>1. UNCHANGED <<graphVars, hist, failed, behind, spoilt>>
    BY <1>9 DEF SaveState, SaveIsCut
  <2> QED
    BY <1>1, <1>9, <2>1, SaveKeepsDisk
    DEF IInv, GateInv, HistoryIsOfOneStep, BehindInv, Histories, Leftover, graphVars
<1>10. CASE LoadState
  <2>1. /\ UNCHANGED <<graphVars, failed, disk>> /\ finalized /\ disk # None
        /\ DOMAIN disk.entries = Histories
        /\ hist' = [k \in Histories |-> Restored(k)]
        /\ behind' = FALSE /\ spoilt' = (disk.spoilt \/ Leftover)
    BY <1>10 DEF LoadState, Matches
  <2>2. /\ DOMAIN hist' = Histories
        /\ \A k \in Histories : /\ hist'[k].old = disk.entries[k].old
                                /\ hist'[k].new = disk.entries[k].new
    BY <2>1 DEF Restored
  <2>3. ~spoilt' =>
          \A k, h \in Histories :
            /\ disk.entries[k].old = disk.entries[h].old /\ disk.entries[k].old # Lost
            /\ disk.entries[k].new = disk.entries[h].new
            /\ disk.entries[k].new \in {disk.entries[k].old, After(disk.entries[k].old)}
    BY <2>1 DEF IInv, DiskInv
  <2>4. HistoryIsOfOneStep'
    BY <2>2, <2>3 DEF HistoryIsOfOneStep, Histories
  <2>5. GateInv'
    BY <2>1 DEF GateInv, Leftover, graphVars
  <2> QED  BY <1>1, <2>1, <2>4, <2>5 DEF IInv, DiskInv, BehindInv
<1>11. CASE LoadOtherSize
  <2>1. UNCHANGED <<graphVars, failed, disk>> /\ finalized /\ spoilt' = TRUE
    BY <1>11 DEF LoadOtherSize
  <2> QED  BY <1>1, <2>1 DEF IInv, DiskInv, GateInv, HistoryIsOfOneStep, BehindInv, graphVars
<1>12. CASE Restart
  <2>1. /\ hist' = <<>> /\ finalized' = FALSE
        /\ failed' = FALSE /\ behind' = FALSE /\ spoilt' = FALSE
        /\ disk' = disk
    BY <1>12 DEF Restart
  <2>2. Histories' = {}
    BY <2>1 DEF Histories
  <2> QED
    BY <1>1, <2>1, <2>2 DEF IInv, DiskInv, GateInv, HistoryIsOfOneStep, BehindInv
<1>13. CASE UNCHANGED contextVars
  BY <1>1, <1>13 DEF contextVars, graphVars, IInv, DiskInv, GateInv, HistoryIsOfOneStep,
                     BehindInv, Histories, Leftover
<1> QED
  BY <1>2, <1>3, <1>4, <1>5, <1>6, <1>7, <1>8, <1>9, <1>10, <1>11, <1>12, <1>13
  DEF Next, SomeUpdate, SomeUndefined

LEMMA InitInvariant == Init => IInv
<1> SUFFICES ASSUME Init PROVE IInv
  OBVIOUS
<1>1. /\ objects = <<>> /\ registry = <<>> /\ hist = <<>>
      /\ refsWired = {} /\ inputsWired = {} /\ disk = None
      /\ finalized = FALSE /\ failed = FALSE /\ behind = FALSE /\ spoilt = FALSE
  BY DEF Init, Created
<1>2. objects \in Seq(Blueprint) /\ DOMAIN objects = {} /\ DOMAIN registry = {} /\ DOMAIN hist = {}
  BY <1>1
<1>3. TypeOK
  BY <1>1, <1>2 DEF TypeOK
<1>4. NamesAreUnique /\ FinalizedIsWired
  BY <1>1, <1>2 DEF NamesAreUnique, FinalizedIsWired
<1>5. DiskInv /\ GateInv /\ HistoryIsOfOneStep /\ BehindInv
  BY <1>1, <1>2 DEF DiskInv, GateInv, HistoryIsOfOneStep, BehindInv, Histories
<1> QED  BY <1>3, <1>4, <1>5 DEF IInv, ContextInv

\* The inductive invariant: names and wires, the gate of finalize(), and history and
\* checkpoint of one step.
THEOREM Invariant == Spec => []IInv
<1>1. IInv /\ [Next]_contextVars => IInv'
  BY InvariantInductive
<1> QED  BY <1>1, InitInvariant, PTL DEF Spec

\* Whatever constructors throw and however often finalize() does, names stay unique and a
\* finalized context is wired.
THEOREM ContextInvHolds == Spec => []ContextInv
<1>1. IInv => ContextInv
  BY DEF IInv
<1> QED  BY <1>1, Invariant, PTL

\* The history of a context that is not spoilt is of one step, and so is what commit()
\* would accept.
THEOREM HistoryIsOfOneStepHolds == Spec => []HistoryIsOfOneStep
<1>1. IInv => HistoryIsOfOneStep
  BY DEF IInv
<1> QED  BY <1>1, Invariant, PTL

-----------------------------------------------------------------------------
(***************************************************************************)
(* The refinement of DurableHistory.                                       *)
(***************************************************************************)
OldAges == {hist[k].old : k \in Histories}
NewAges == {hist[k].new : k \in Histories}

LEMMA AgeOfAll ==
  ASSUME NEW A, NEW a \in A, \A x, y \in A : x = y
  PROVE  AgeOf(A) = a
BY DEF AgeOf

LEMMA AgeOfTyped ==
  ASSUME NEW A \in SUBSET Age
  PROVE  AgeOf(A) \in Age
<1>1. CASE A = {}
  BY <1>1 DEF AgeOf, Age
<1>2. CASE A # {} /\ \A x, y \in A : x = y
  BY <1>2 DEF AgeOf
<1>3. CASE A # {} /\ ~(\A x, y \in A : x = y)
  BY <1>3 DEF AgeOf, Age
<1> QED  BY <1>1, <1>2, <1>3

LEMMA AgesTyped ==
  ASSUME NEW f, \A k \in DOMAIN f : f[k] \in [old : Age, new : Age]
  PROVE  /\ {f[k].old : k \in DOMAIN f} \subseteq Age
         /\ {f[k].new : k \in DOMAIN f} \subseteq Age
         /\ AgeOf({f[k].old : k \in DOMAIN f}) \in Age
         /\ AgeOf({f[k].new : k \in DOMAIN f}) \in Age
<1>1. /\ {f[k].old : k \in DOMAIN f} \subseteq Age
      /\ {f[k].new : k \in DOMAIN f} \subseteq Age
  OBVIOUS
<1> QED  BY <1>1, AgeOfTyped

LEMMA MappedTyped ==
  ASSUME IInv, IInv'
  PROVE  /\ OldAges \subseteq Age /\ NewAges \subseteq Age
         /\ AgeOf(OldAges) \in Age /\ AgeOf(NewAges) \in Age
         /\ AgeOf(OldAges') \in Age /\ AgeOf(NewAges') \in Age
         /\ failed \in BOOLEAN /\ spoilt \in BOOLEAN
         /\ failed' \in BOOLEAN /\ spoilt' \in BOOLEAN
<1>1. /\ \A k \in DOMAIN hist : hist[k] \in [old : Age, new : Age]
      /\ \A k \in DOMAIN hist' : hist'[k] \in [old : Age, new : Age]
  BY DEF IInv, ContextInv, TypeOK
<1>2. /\ OldAges \subseteq Age /\ NewAges \subseteq Age
      /\ AgeOf(OldAges) \in Age /\ AgeOf(NewAges) \in Age
  BY <1>1, AgesTyped DEF OldAges, NewAges, Histories
<1>3. AgeOf(OldAges') \in Age /\ AgeOf(NewAges') \in Age
  BY <1>1, AgesTyped DEF OldAges, NewAges, Histories
<1> QED  BY <1>2, <1>3 DEF IInv, ContextInv, TypeOK

LEMMA SameHistory ==
  ASSUME hist' = hist
  PROVE  OldAges' = OldAges /\ NewAges' = NewAges
BY DEF OldAges, NewAges, Histories

LEMMA SameDisk ==
  ASSUME disk' = disk
  PROVE  Kept' = Kept
BY DEF Kept

LEMMA NoneIsNoCheckpoint == None \notin [at : Age, trial : Age, spoilt : BOOLEAN]
BY ContextAssumption DEF Age

LEMMA DurableInit == Init => Durable!Init
<1> SUFFICES ASSUME Init PROVE Durable!Init
  OBVIOUS
<1>1. hist = <<>> /\ disk = None /\ failed = FALSE /\ spoilt = FALSE
  BY DEF Init, Created
<1>2. OldAges = {} /\ NewAges = {}
  BY <1>1 DEF OldAges, NewAges, Histories
<1>3. AgeOf(OldAges) = 0 /\ AgeOf(NewAges) = 0
  BY <1>2 DEF AgeOf
<1> QED  BY <1>1, <1>3 DEF Durable!Init, Kept, OldAges, NewAges

\* What a step does to the mapped variables, told by the ages of the history.
DurableStep ==
  \/ /\ spoilt' = TRUE /\ failed' \in BOOLEAN /\ Kept' = Kept
     /\ AgeOf(OldAges') \in Age /\ AgeOf(NewAges') \in Age
  \/ /\ UNCHANGED <<failed, spoilt, Kept>>
     /\ AgeOf(OldAges') = AgeOf(OldAges) /\ AgeOf(NewAges') = AgeOf(NewAges)

LEMMA DurableStepRefines ==
  ASSUME DurableStep
  PROVE  [Durable!Next]_Durable!durableVars
BY DEF DurableStep, OldAges, NewAges, Histories, Age, Durable!Next, Durable!Spoil, Durable!durableVars, Durable!Age

\* The histories that are not of one step are as old as Lost.
LEMMA MixedIsLost ==
  ASSUME NEW A, NEW x \in A, NEW y \in A, x # y
  PROVE  AgeOf(A) = Lost
BY DEF AgeOf

LEMMA UpdateRefines ==
  ASSUME IInv, IInv', SomeUpdate
  PROVE  [Durable!Next]_Durable!durableVars
<1>1. /\ UNCHANGED <<graphVars, disk>> /\ finalized /\ ~failed
      /\ failed' \in BOOLEAN /\ behind' \in BOOLEAN /\ spoilt' \in BOOLEAN
  BY SomeUpdateFacts DEF IInv, ContextInv
<1>2. PICK S : Steps(S)
  BY SomeUpdateFacts DEF IInv, ContextInv
<1>3. /\ Histories' = Histories
      /\ \A k \in Histories : hist'[k].old = hist[k].old
  BY <1>2, SteppedTyped DEF Steps, IInv, ContextInv, Histories
<1>4. OldAges' = OldAges
  BY <1>3 DEF OldAges
<1>5. Kept' = Kept
  BY <1>1 DEF Kept
<1>6. /\ AgeOf(OldAges) \in Age /\ AgeOf(OldAges') \in Age /\ AgeOf(NewAges') \in Age
      /\ failed \in BOOLEAN /\ spoilt \in BOOLEAN
  BY MappedTyped
<1>7. CASE spoilt'
  <2>1. DurableStep
    BY <1>1, <1>5, <1>6, <1>7 DEF DurableStep
  <2> QED  BY <2>1, DurableStepRefines
<1>8. CASE ~spoilt' /\ failed'
  <2>1. spoilt' = spoilt /\ failed' = TRUE
    BY <1>1, <1>2, <1>6, <1>8 DEF Steps
  <2> QED
    BY <1>1, <1>4, <1>5, <1>6, <2>1 DEF Durable!Next, Durable!UpdateThrows, OldAges, NewAges, Durable!Age, Age
<1>9. CASE ~spoilt' /\ ~failed'
  <2>1. spoilt' = spoilt /\ failed' = failed /\ ~spoilt /\ ~StepsTwice(S) /\ ~Leftover
    BY <1>1, <1>2, <1>6, <1>9 DEF Steps, IInv, GateInv
  <2>2. Filled = Histories /\ S \subseteq Histories
    BY <1>2, <2>1 DEF Steps, Filled, Leftover, IInv, ContextInv, TypeOK, Histories
  <2>3. \A k \in Histories : hist[k] \in [old : Age, new : Age]
    BY DEF IInv, ContextInv, TypeOK, Histories
  <2>4. \A k, h \in Histories :
          /\ hist[k].old = hist[h].old /\ hist[k].old # Lost
          /\ hist[k].new \in {hist[k].old, After(hist[k].old)}
    BY <1>1, <2>1 DEF IInv, HistoryIsOfOneStep
  <2>5. \A k \in Histories :
          hist'[k].new = IF k \in S THEN After(hist[k].old) ELSE hist[k].new
    BY <1>2, <2>1, <2>3 DEF Steps, Stepped, StepsTwice
  <2>6. CASE S = {}
    <3>1. NewAges' = NewAges
      BY <1>3, <2>5, <2>6 DEF NewAges
    <3>2. DurableStep
      BY <1>4, <1>5, <2>1, <3>1 DEF DurableStep
    <3> QED  BY <3>2, DurableStepRefines
  <2>7. CASE S # {} /\ ~behind'
    <3>1. PICK h : h \in S
      BY <2>7
    <3>2. h \in Histories /\ hist'[h].new = After(hist[h].old)
      BY <2>2, <2>5, <3>1
    <3>3. \A k, j \in Histories : hist'[k].new = hist'[j].new
      BY <1>3, <1>9, <2>7 DEF IInv, HistoryIsOfOneStep
    <3>4. AgeOf(OldAges) = hist[h].old
      <4>1. hist[h].old \in OldAges /\ \A x, y \in OldAges : x = y
        BY <2>4, <3>2 DEF OldAges
      <4> QED  BY <4>1, AgeOfAll
    <3>5. AgeOf(NewAges') = After(hist[h].old)
      <4>1. After(hist[h].old) \in NewAges' /\ \A x, y \in NewAges' : x = y
        BY <1>3, <3>2, <3>3 DEF NewAges
      <4> QED  BY <4>1, AgeOfAll
    <3>6. AgeOf(NewAges') = After(AgeOf(OldAges)) /\ AgeOf(OldAges') = AgeOf(OldAges)
      BY <1>4, <3>4, <3>5
    <3> QED
      BY <1>1, <1>5, <2>1, <3>6
      DEF Durable!Next, Durable!Update, Durable!After, After, OldAges, NewAges, Histories
  <2>8. CASE behind'
    <3>1. PICK k \in Histories, h \in Histories : hist'[k].new # hist'[h].new
      BY <1>3, <1>9, <2>8 DEF IInv, BehindInv
    <3>2. AgeOf(NewAges') = Lost
      <4>1. hist'[k].new \in NewAges' /\ hist'[h].new \in NewAges'
        BY <1>3 DEF NewAges
      <4> QED  BY <3>1, <4>1, MixedIsLost
    <3> QED
      BY <1>1, <1>4, <1>5, <2>1, <3>2 DEF Durable!Next, Durable!UpdatePart, OldAges, NewAges
  <2> QED  BY <2>6, <2>7, <2>8
<1> QED  BY <1>7, <1>8, <1>9

\* What is behind is Lost in the one value, unless the context is spoilt anyway.
LEMMA BehindIsLost ==
  ASSUME IInv
  PROVE  /\ (spoilt \/ failed \/ behind) = (spoilt \/ failed \/ AgeOf(NewAges) = Lost)
         /\ ~failed => (spoilt \/ behind) = (spoilt \/ AgeOf(NewAges) = Lost)
<1>1. ASSUME ~spoilt, ~failed, behind
      PROVE  AgeOf(NewAges) = Lost
  <2>1. PICK k \in Histories, h \in Histories : hist[k].new # hist[h].new
    BY <1>1 DEF IInv, BehindInv
  <2>2. hist[k].new \in NewAges /\ hist[h].new \in NewAges
    BY DEF NewAges
  <2> QED  BY <2>1, <2>2, MixedIsLost
<1>2. ASSUME ~spoilt, ~failed, ~behind
      PROVE  AgeOf(NewAges) # Lost
  <2>1. CASE Histories = {}
    <3>1. NewAges = {}
      BY <2>1 DEF NewAges
    <3> QED  BY <3>1, LostIsNoStep DEF AgeOf
  <2>2. CASE Histories # {}
    <3>1. PICK h : h \in Histories
      BY <2>2
    <3>2. /\ \A k \in Histories : hist[k].new = hist[h].new
          /\ hist[h].old # Lost /\ hist[h].new \in {hist[h].old, After(hist[h].old)}
      BY <1>2, <3>1 DEF IInv, HistoryIsOfOneStep
    <3>3. hist[h] \in [old : Age, new : Age]
      BY <3>1 DEF IInv, ContextInv, TypeOK, Histories
    <3>4. hist[h].new # Lost
      BY <3>2, <3>3, AfterIsNext
    <3>5. hist[h].new \in NewAges /\ \A x, y \in NewAges : x = y
      BY <3>1, <3>2 DEF NewAges
    <3> QED  BY <3>4, <3>5, AgeOfAll
  <2> QED  BY <2>1, <2>2
<1>3. spoilt \in BOOLEAN /\ failed \in BOOLEAN /\ behind \in BOOLEAN
  BY DEF IInv, ContextInv, TypeOK
<1> QED  BY <1>1, <1>2, <1>3

LEMMA SaveRefines ==
  ASSUME IInv, IInv', SaveState \/ SaveIsCut
  PROVE  [Durable!Next]_Durable!durableVars
<1> DEFINE Bad == spoilt \/ failed \/ behind
<1>1. UNCHANGED <<graphVars, hist, failed, spoilt>>
  BY DEF SaveState, SaveIsCut
<1>2. OldAges' = OldAges /\ NewAges' = NewAges
  BY <1>1 DEF OldAges, NewAges, Histories
<1>3. PICK S \in SUBSET Histories, within \in BOOLEAN :
        disk' = [entries |-> Written(S), cut |-> within, spoilt |-> Bad]
  BY DEF SaveState, SaveIsCut
<1> DEFINE O == {hist[k].old : k \in S}
<1> DEFINE N == {hist[k].new : k \in S}
<1>4. /\ DOMAIN Written(S) = S
      /\ \A k \in S : Written(S)[k].old = hist[k].old /\ Written(S)[k].new = hist[k].new
  BY DEF Written
<1>5. /\ {Written(S)[k].old : k \in DOMAIN Written(S)} = O
      /\ {Written(S)[k].new : k \in DOMAIN Written(S)} = N
  BY <1>4
<1>6. \/ Kept' = None
      \/ S # {} /\ Kept' = [at |-> AgeOf(O), trial |-> AgeOf(N), spoilt |-> Bad]
  BY <1>3, <1>4, <1>5 DEF Kept
<1>7. AgeOf(O) \in Age /\ AgeOf(N) \in Age
  <2>1. O \subseteq OldAges /\ N \subseteq NewAges
    BY DEF OldAges, NewAges
  <2> QED  BY <2>1, MappedTyped, AgeOfTyped
<1>8. S # {} /\ ~Bad => AgeOf(O) = AgeOf(OldAges) /\ AgeOf(N) = AgeOf(NewAges)
  <2>1. SUFFICES ASSUME S # {}, ~spoilt, ~failed, ~behind
                 PROVE  AgeOf(O) = AgeOf(OldAges) /\ AgeOf(N) = AgeOf(NewAges)
    OBVIOUS
  <2>2. PICK h : h \in S
    BY <2>1
  <2>3. \A k \in Histories : hist[k].old = hist[h].old /\ hist[k].new = hist[h].new
    BY <2>1, <2>2 DEF IInv, HistoryIsOfOneStep
  <2>4. AgeOf(O) = hist[h].old /\ AgeOf(N) = hist[h].new
    BY <2>2, <2>3, AgeOfAll
  <2>5. AgeOf(OldAges) = hist[h].old /\ AgeOf(NewAges) = hist[h].new
    <3>1. h \in Histories
      BY <2>2
    <3>2. /\ hist[h].old \in OldAges /\ \A x, y \in OldAges : x = y
          /\ hist[h].new \in NewAges /\ \A x, y \in NewAges : x = y
      BY <2>3, <3>1 DEF OldAges, NewAges
    <3> QED  BY <3>2, AgeOfAll
  <2> QED  BY <2>4, <2>5
<1> HIDE DEF O, N
<1>9. \/ Kept' = None
      \/ Kept' = [at |-> AgeOf(OldAges), trial |-> AgeOf(NewAges), spoilt |-> Bad]
      \/ /\ Bad
         /\ Kept' \in [at : Age, trial : Age, spoilt : {TRUE}]
  <2>1. CASE Kept' = None
    BY <2>1
  <2>2. CASE S # {} /\ Kept' = [at |-> AgeOf(O), trial |-> AgeOf(N), spoilt |-> Bad]
    <3>1. CASE Bad
      <4>1. Bad = TRUE
        BY <3>1
      <4> QED  BY <1>7, <2>2, <3>1, <4>1
    <3>2. CASE ~Bad
      BY <1>8, <2>2, <3>2
    <3> QED  BY <3>1, <3>2
  <2> QED  BY <1>6, <2>1, <2>2
<1>10. Bad = (spoilt \/ (failed \/ AgeOf(NewAges) = Lost))
  BY BehindIsLost
<1> HIDE DEF Bad
<1> QED
  BY <1>1, <1>2, <1>9, <1>10
  DEF Durable!Next, Durable!Save, Durable!Half, OldAges, NewAges, Durable!Age, Age

LEMMA NextRefines ==
  ASSUME IInv, IInv', [Next]_contextVars
  PROVE  [Durable!Next]_Durable!durableVars
<1>1. /\ AgeOf(OldAges') \in Age /\ AgeOf(NewAges') \in Age
      /\ failed' \in BOOLEAN /\ spoilt' \in BOOLEAN /\ failed \in BOOLEAN /\ spoilt \in BOOLEAN
  BY MappedTyped
<1>2. ASSUME NEW b \in Blueprint, Create(b) PROVE DurableStep
  <2>1. UNCHANGED <<failed, spoilt, disk, finalized>> /\ ~finalized
    BY <1>2 DEF Create
  <2>2. /\ \A k \in Histories : hist[k].old = 0 /\ hist[k].new = 0
        /\ \A k \in Histories' : hist'[k].old = 0 /\ hist'[k].new = 0
    BY <2>1 DEF IInv, GateInv
  <2>3. /\ AgeOf(OldAges) = 0 /\ AgeOf(NewAges) = 0
        /\ AgeOf(OldAges') = 0 /\ AgeOf(NewAges') = 0
    <3>1. \A A : (\A x \in A : x = 0) => AgeOf(A) = 0
      BY DEF AgeOf
    <3>2. /\ \A x \in OldAges : x = 0
          /\ \A x \in NewAges : x = 0
          /\ \A x \in OldAges' : x = 0
          /\ \A x \in NewAges' : x = 0
      BY <2>2 DEF OldAges, NewAges
    <3> QED  BY <3>1, <3>2
  <2> QED  BY <2>1, <2>3 DEF DurableStep, Kept
<1>3. CASE FinalizeThrows
  <2>1. UNCHANGED <<hist, failed, spoilt, disk>>
    BY <1>3 DEF FinalizeThrows
  <2>2. DurableStep
    BY <2>1, SameHistory, SameDisk DEF DurableStep
  <2> QED  BY <2>2, DurableStepRefines
<1>4. CASE Finalize
  <2>1. UNCHANGED <<hist, failed, disk>> /\ ~finalized /\ spoilt' = Leftover
    BY <1>4 DEF Finalize
  <2>2. spoilt = FALSE
    BY <1>1, <2>1 DEF IInv, GateInv
  <2>3. OldAges' = OldAges /\ NewAges' = NewAges /\ Kept' = Kept
    BY <2>1, SameHistory, SameDisk
  <2>4. DurableStep
    <3>1. CASE spoilt' = TRUE
      BY <1>1, <2>1, <2>3, <3>1 DEF DurableStep
    <3>2. CASE spoilt' = FALSE
      BY <2>1, <2>2, <2>3, <3>2 DEF DurableStep
    <3> QED  BY <1>1, <3>1, <3>2
  <2> QED  BY <2>4, DurableStepRefines
<1>5. CASE SomeUpdate
  BY <1>5, UpdateRefines
<1>6. CASE SomeUndefined
  <2>1. spoilt' = TRUE /\ disk' = disk
    BY <1>6, SomeUndefinedFacts DEF IInv, ContextInv
  <2>2. DurableStep
    BY <1>1, <2>1, SameDisk DEF DurableStep
  <2> QED  BY <2>2, DurableStepRefines
<1>7. CASE Commit
  <2>1. /\ UNCHANGED <<failed, disk>> /\ ~failed
        /\ spoilt' = (spoilt \/ behind)
        /\ hist' = [k \in Histories |-> [hist[k] EXCEPT !.old = hist[k].new]]
    BY <1>7 DEF Commit
  <2>2. \A k \in Histories : hist[k] \in [old : Age, new : Age]
    BY DEF IInv, ContextInv, TypeOK, Histories
  <2>3. /\ Histories' = Histories
        /\ \A k \in Histories : hist'[k].old = hist[k].new /\ hist'[k].new = hist[k].new
    BY <2>1, <2>2 DEF Histories
  <2>4. OldAges' = NewAges /\ NewAges' = NewAges
    BY <2>3 DEF OldAges, NewAges
  <2>5. Kept' = Kept
    BY <2>1 DEF Kept
  <2>6. spoilt' = (spoilt \/ AgeOf(NewAges) = Lost)
    BY <2>1, BehindIsLost
  <2> QED  BY <2>1, <2>4, <2>5, <2>6 DEF Durable!Next, Durable!Commit, OldAges, NewAges
<1>8. CASE Revert
  <2>1. /\ UNCHANGED <<spoilt, disk>> /\ failed' = FALSE
        /\ hist' = [k \in Histories |-> [hist[k] EXCEPT !.new = hist[k].old]]
    BY <1>8 DEF Revert
  <2>2. \A k \in Histories : hist[k] \in [old : Age, new : Age]
    BY DEF IInv, ContextInv, TypeOK, Histories
  <2>3. /\ Histories' = Histories
        /\ \A k \in Histories : hist'[k].old = hist[k].old /\ hist'[k].new = hist[k].old
    BY <2>1, <2>2 DEF Histories
  <2>4. OldAges' = OldAges /\ NewAges' = OldAges
    BY <2>3 DEF OldAges, NewAges
  <2>5. Kept' = Kept
    BY <2>1 DEF Kept
  <2> QED  BY <2>1, <2>4, <2>5 DEF Durable!Next, Durable!Revert, OldAges, NewAges
<1>9. CASE SaveState \/ SaveIsCut
  BY <1>9, SaveRefines
<1>10. CASE LoadState
  <2>1. /\ UNCHANGED <<failed, disk>> /\ disk # None /\ ~disk.cut
        /\ DOMAIN disk.entries = Histories /\ Histories # {}
        /\ hist' = [k \in Histories |-> Restored(k)]
        /\ spoilt' = (disk.spoilt \/ Leftover)
    BY <1>10 DEF LoadState, Matches
  <2>2. /\ Histories' = Histories
        /\ \A k \in Histories : /\ hist'[k].old = disk.entries[k].old
                                /\ hist'[k].new = disk.entries[k].new
    BY <2>1 DEF Restored, Histories
  <2>3. /\ OldAges' = {disk.entries[k].old : k \in DOMAIN disk.entries}
        /\ NewAges' = {disk.entries[k].new : k \in DOMAIN disk.entries}
    BY <2>1, <2>2 DEF OldAges, NewAges
  <2>4. Kept' = Kept
    BY <2>1 DEF Kept
  <2>5. CASE spoilt'
    <3>1. DurableStep
      BY <1>1, <2>1, <2>4, <2>5 DEF DurableStep
    <3> QED  BY <3>1, DurableStepRefines
  <2>6. CASE ~spoilt'
    <3>1. disk.spoilt = FALSE
      BY <2>1, <2>6 DEF IInv, DiskInv
    <3>2. Kept = [at |-> AgeOf(OldAges'), trial |-> AgeOf(NewAges'), spoilt |-> FALSE]
      BY <2>1, <2>3, <3>1 DEF Kept
    <3>3. Kept # None
      <4>1. Kept \in [at : Age, trial : Age, spoilt : BOOLEAN]
        BY <1>1, <3>2
      <4> QED  BY <4>1, NoneIsNoCheckpoint
    <3>4. Kept.at = AgeOf(OldAges') /\ Kept.trial = AgeOf(NewAges') /\ Kept.spoilt = spoilt'
      BY <1>1, <2>6, <3>2
    <3> QED
      BY <2>1, <2>4, <3>3, <3>4 DEF Durable!Next, Durable!Restore, OldAges, NewAges
  <2> QED  BY <2>5, <2>6
<1>11. CASE LoadOtherSize
  <2>1. spoilt' = TRUE /\ disk' = disk
    BY <1>11 DEF LoadOtherSize
  <2>2. DurableStep
    BY <1>1, <2>1, SameDisk DEF DurableStep
  <2> QED  BY <2>2, DurableStepRefines
<1>12. CASE Restart
  <2>1. /\ hist' = <<>> /\ failed' = FALSE /\ spoilt' = FALSE /\ disk' = disk
    BY <1>12 DEF Restart
  <2>2. OldAges' = {} /\ NewAges' = {} /\ Kept' = Kept
    BY <2>1 DEF OldAges, NewAges, Histories, Kept
  <2>3. AgeOf(OldAges') = 0 /\ AgeOf(NewAges') = 0
    BY <2>2 DEF AgeOf
  <2> QED  BY <2>1, <2>2, <2>3 DEF Durable!Next, Durable!Restart, OldAges, NewAges
<1>13. CASE UNCHANGED contextVars
  <2>1. UNCHANGED <<hist, failed, spoilt, disk>>
    BY <1>13 DEF contextVars
  <2>2. DurableStep
    BY <2>1, SameHistory, SameDisk DEF DurableStep
  <2> QED  BY <2>2, DurableStepRefines
<1> QED
  BY <1>2, <1>3, <1>4, <1>5, <1>6, <1>7, <1>8, <1>9, <1>10, <1>11, <1>12, <1>13, DurableStepRefines
  DEF Next, SomeUpdate, SomeUndefined

\* Whatever number of properties the history is spread over, in whatever order they were
\* created and however the file ends: context and checkpoint do what one value and one
\* copy of it would do.
THEOREM RefinesDurableHistoryHolds == Spec => RefinesDurableHistory
<1>1. IInv /\ IInv' /\ [Next]_contextVars => [Durable!Next]_Durable!durableVars
  BY NextRefines
<1> QED  BY <1>1, DurableInit, Invariant, PTL DEF Spec, RefinesDurableHistory, Durable!Spec
=============================================================================
