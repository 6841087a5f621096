-------------------------- MODULE MaterialContext --------------------------
(***************************************************************************)
(* A material_context from its creation to its end, and the checkpoint     *)
(* that outlives it.                                                       *)
(*                                                                         *)
(* A script creates materials by name, finalizes the context, drives it    *)
(* and saves its history; then the process ends, and the next script, not  *)
(* always the same one, loads what was saved.  A constructor registers the *)
(* outputs of its material before it is known to finish.                   *)
(*                                                                         *)
(* A history value is the number of steps it has been through.  Most       *)
(* history outputs are functions of their old value and of the step; some, *)
(* as that of scalar_stepper, add the step to their new value.             *)
(***************************************************************************)
EXTENDS Naturals, Sequences

CONSTANTS
  Blueprint,    \* the materials a script may create; see Blueprints
  Excludes,     \* the materials whose callbacks a host leaves out of update_property()
  MaxObjects,   \* bound: materials of one context
  MaxSteps,     \* bound: steps a history goes through
  Lost,         \* what a value is that was read from too few or too many bytes
  None          \* no checkpoint

Names == {b.name : b \in Blueprint}

(***************************************************************************)
(* b.name, b.type                                                          *)
(* b.outputs : output -> 0, or the bytes of a history output               *)
(* b.inputs  : the properties its inputs name, in the order of add_input   *)
(* b.refs    : the materials it references, as [name, type]                *)
(* b.adds    : its history outputs add to their new value                  *)
(* b.orphan  : a callback reads an output of its own that nothing fills    *)
(* b.throws  : where its constructor throws, if it does                    *)
(***************************************************************************)
Blueprints ==
  \A b \in Blueprint :
    /\ b.outputs \in [DOMAIN b.outputs -> Nat] /\ DOMAIN b.outputs \subseteq STRING
    /\ \A r \in b.refs : r.name \in Names
    /\ b.inputs \in Seq([owner : Names, output : STRING])
    /\ b.adds \in BOOLEAN /\ b.orphan \in BOOLEAN
    /\ b.throws \in {"never", "at its parameters", "after its outputs", "after its callbacks"}

ASSUME ContextAssumption ==
  /\ Blueprints /\ Lost \notin Nat /\ Excludes \subseteq SUBSET Names
  /\ None \notin [at : Nat \cup {Lost}, trial : Nat \cup {Lost}, spoilt : BOOLEAN]
  /\ MaxObjects \in Nat /\ MaxSteps \in Nat

VARIABLES
  objects,     \* m_interfaces: the materials created, in order
  registry,    \* m_properties: [owner, output] -> its bytes, and whose callback fills it
  hist,        \* the history properties of the registry: old and new value
  refsWired,   \* [from, name]: the references that have been wired
  inputsWired, \* [from, key]: the inputs that have been wired
  finalized,
  failed,      \* property_engine::m_failed
  behind,      \* history: update_property() has left some of it out of the step
  spoilt,      \* history: see DurableHistory
  disk         \* the file save_state() has written, or None

graphVars == <<objects, registry, refsWired, inputsWired, finalized>>
contextVars == <<graphVars, hist, failed, behind, spoilt, disk>>

Key == [owner : Names, output : STRING]
Age == Nat \cup {Lost}
After(a) == IF a = Lost THEN Lost ELSE a + 1

Keys(b) == {[owner |-> b.name, output |-> o] : o \in DOMAIN b.outputs}
Histories == DOMAIN hist

-----------------------------------------------------------------------------
(***************************************************************************)
(* Creation.                                                               *)
(***************************************************************************)
\* The materials a name leads to: adopt() enters them in a map, so more than one would be
\* the last one for those who look it up later.
Find(name) == {objects[i] : i \in {i \in DOMAIN objects : objects[i].name = name}}

CheckNameAvailable(b) == Find(b.name) = {}

\* add_property() returns the property of that name if there is one.
AddProperties(b) ==
  [k \in DOMAIN registry \cup Keys(b) |->
     IF k \in DOMAIN registry THEN registry[k]
     ELSE [bytes |-> b.outputs[k.output], filler |-> "none"]]

\* A history property starts at its initial value.
AddHistories(b) ==
  [k \in Histories \cup {k \in Keys(b) \ DOMAIN registry : b.outputs[k.output] > 0} |->
     IF k \in Histories THEN hist[k] ELSE [old |-> 0, new |-> 0]]

\* add_callback() refuses outputs that are filled already.
IsBound(b) == \E k \in Keys(b) \cap DOMAIN registry : registry[k].filler # "none"

\* The callback of b's outputs, which holds a reference to the object: who of them is
\* left when the constructor has thrown or returned.
BindCallback(b, who) ==
  [k \in DOMAIN AddProperties(b) |->
     IF k \in Keys(b) THEN [AddProperties(b)[k] EXCEPT !.filler = who] ELSE registry[k]]

ConstructorReturns(b) == b.throws = "never" /\ ~IsBound(b)

\* A mutant of ConstructorThrows: the object is adopted before its constructor is done.
AdoptedAnyway(b) ==
  /\ ~ConstructorReturns(b)
  /\ registry' = AddProperties(b) /\ hist' = AddHistories(b)
  /\ objects' = Append(objects, b)

\* create() that throws: nothing is adopted, but what was registered stays registered.
ConstructorThrows(b) ==
  /\ ~ConstructorReturns(b)
  /\ CASE b.throws = "at its parameters" -> UNCHANGED <<registry, hist>>
       [] b.throws = "after its callbacks" /\ ~IsBound(b) ->
            registry' = BindCallback(b, "gone") /\ hist' = AddHistories(b)
       [] OTHER -> registry' = AddProperties(b) /\ hist' = AddHistories(b)
  /\ UNCHANGED objects

Adopt(b) ==
  /\ ConstructorReturns(b)
  /\ registry' = BindCallback(b, "object") /\ hist' = AddHistories(b)
  /\ objects' = Append(objects, b)

Create(b) ==
  /\ ~finalized /\ CheckNameAvailable(b)
  /\ Len(objects) < MaxObjects
  /\ Adopt(b) \/ ConstructorThrows(b)
  /\ UNCHANGED <<refsWired, inputsWired, finalized, failed, behind, spoilt, disk>>

-----------------------------------------------------------------------------
(***************************************************************************)
(* finalize().                                                             *)
(***************************************************************************)
Finds(r) == \E t \in Find(r.name) : t.type = r.type

AllRefsFound(i) == \A r \in objects[i].refs : Finds(r)
AllInputsFound(i) == \A n \in DOMAIN objects[i].inputs : objects[i].inputs[n] \in DOMAIN registry

\* wire_materials() of one material after the other; one that misses some wires the
\* others and throws.
WireMaterials ==
  refsWired' = refsWired \cup
    {w \in [from : Names, name : Names] :
       \E i \in DOMAIN objects :
         /\ \A j \in 1 .. i - 1 : AllRefsFound(j)
         /\ objects[i].name = w.from
         /\ \E r \in objects[i].refs : r.name = w.name /\ Finds(r)}

\* wire_inputs() of one material after the other; the first input without a property
\* throws.
WireInputs ==
  inputsWired' = inputsWired \cup
    {w \in [from : Names, key : DOMAIN registry] :
       \E i \in DOMAIN objects :
         /\ \A j \in 1 .. i - 1 : AllInputsFound(j)
         /\ objects[i].name = w.from
         /\ \E n \in DOMAIN objects[i].inputs :
              /\ objects[i].inputs[n] = w.key
              /\ \A m \in 1 .. n : objects[i].inputs[m] \in DOMAIN registry}

\* The callbacks read every input, each of a material's outputs is filled by them.
ReadsFrom(b) == {b.inputs[n].owner : n \in DOMAIN b.inputs}

Circular ==
  \E S \in SUBSET {objects[i].name : i \in DOMAIN objects} :
    S # {} /\ \A i \in DOMAIN objects : objects[i].name \in S => ReadsFrom(objects[i]) \cap S # {}

Orphaned == \E i \in DOMAIN objects : objects[i].orphan

\* A missing material stops before the inputs, a missing input before build(); build()
\* throws on an output nothing fills and on a cycle.  The context stays open for more.
FinalizeThrows ==
  /\ ~finalized
  /\ WireMaterials
  /\ \/ /\ \E i \in DOMAIN objects : ~AllRefsFound(i)
        /\ UNCHANGED inputsWired
     \/ /\ \A i \in DOMAIN objects : AllRefsFound(i)
        /\ Orphaned \/ Circular \/ \E i \in DOMAIN objects : ~AllInputsFound(i)
        /\ WireInputs
  /\ UNCHANGED <<objects, registry, hist, finalized, failed, behind, spoilt, disk>>

\* What a constructor that threw has left: nothing that exists fills it, and it is saved
\* and loaded like the rest.
Leftover == \E k \in DOMAIN registry : registry[k].filler # "object"

Finalize ==
  /\ ~finalized /\ ~Orphaned /\ ~Circular
  /\ \A i \in DOMAIN objects : AllRefsFound(i) /\ AllInputsFound(i)
  /\ WireMaterials /\ WireInputs
  /\ finalized' = TRUE /\ spoilt' = Leftover
  /\ UNCHANGED <<objects, registry, hist, failed, behind, disk>>

-----------------------------------------------------------------------------
(***************************************************************************)
(* Execution, behind the gate of check_finalized.                          *)
(***************************************************************************)
\* A callback whose object is gone.
Dangling == \E k \in DOMAIN registry : registry[k].filler = "gone"

Filled == {k \in Histories : registry[k].filler = "object"}

InBounds == \A k \in Histories : hist[k].old # MaxSteps /\ hist[k].new # MaxSteps + 1

\* The histories that start each update where the last one ended.
Adding == {k \in Filled : \E i \in DOMAIN objects : objects[i].adds /\ k \in Keys(objects[i])}

\* Updated again, without commit() or revert(): these go one step further than the others.
StepsTwice(S) == \E k \in Adding \cap S : hist[k].new # hist[k].old

Stepped(S) ==
  [k \in Histories |->
     IF k \notin S THEN hist[k]
     ELSE [hist[k] EXCEPT !.new = After(IF k \in Adding THEN hist[k].new ELSE hist[k].old)]]

MayUpdate == finalized /\ ~failed /\ InBounds

Update ==
  /\ MayUpdate /\ ~Dangling
  /\ hist' = Stepped(Filled) /\ behind' = FALSE
  /\ spoilt' = (spoilt \/ StepsTwice(Filled))
  /\ UNCHANGED <<graphVars, failed, disk>>

\* A callback throws: some of what was to be updated has been.
Throwing(S) ==
  /\ \E T \in SUBSET S : hist' = Stepped(T) /\ spoilt' = (spoilt \/ StepsTwice(T))
  /\ failed' = TRUE
  /\ UNCHANGED <<graphVars, behind, disk>>

UpdateThrows == MayUpdate /\ ~Dangling /\ objects # <<>> /\ Throwing(Filled)

\* The callback of an object that is gone runs: the history is anything afterwards, if
\* there is an afterwards.
Undefined ==
  /\ hist' \in [Histories -> [old : {Lost}, new : {Lost}]]
  /\ failed' \in BOOLEAN /\ spoilt' = TRUE
  /\ UNCHANGED <<graphVars, behind, disk>>

UpdateUndefined == MayUpdate /\ Dangling /\ Undefined

\* What is filled together with one of S, what its material reads and the outputs of the
\* materials it references.
JustUpstream(S) ==
  {h \in DOMAIN registry :
     \E i \in DOMAIN objects :
       /\ Keys(objects[i]) \cap S # {}
       /\ \/ h \in Keys(objects[i])
          \/ \E n \in DOMAIN objects[i].inputs : objects[i].inputs[n] = h
          \/ \E r \in objects[i].refs : r.name = h.owner}

\* upstream_of(): from material to material.
Upstream(k) ==
  LET within[n \in 0 .. Len(objects)] ==
        IF n = 0 THEN {k} ELSE LET S == within[n - 1] IN S \cup JustUpstream(S)
  IN  within[Len(objects)]

\* What update_property() runs, for every property and without the callbacks of some
\* materials.
Runs ==
  {{h \in up : h.owner \notin exclude} :
     up \in {Upstream(k) : k \in DOMAIN registry}, exclude \in Excludes}

RunsGone(runs) == \E h \in runs : registry[h].filler = "gone"

\* What it runs is a step further afterwards; behind is what has not been updated since
\* it was accepted.
UpdateProperty(runs) ==
  /\ MayUpdate /\ ~RunsGone(runs)
  /\ LET S == Filled \cap runs
     IN  /\ hist' = Stepped(S)
         /\ behind' = IF S = {} THEN behind
                      ELSE \E h \in Histories \ S : hist[h].new = hist[h].old
         /\ spoilt' = (spoilt \/ StepsTwice(S))
  /\ UNCHANGED <<graphVars, failed, disk>>

UpdatePropertyThrows(runs) ==
  MayUpdate /\ ~RunsGone(runs) /\ runs # {} /\ Throwing(Filled \cap runs)

UpdatePropertyUndefined(runs) == MayUpdate /\ RunsGone(runs) /\ Undefined

\* A mutant of Commit: a failed update is accepted.
CommitAnyway ==
  /\ finalized
  /\ hist' = [k \in Histories |-> [hist[k] EXCEPT !.old = hist[k].new]]
  /\ behind' = FALSE /\ spoilt' = (spoilt \/ behind)
  /\ UNCHANGED <<graphVars, failed, disk>>

\* After update_property() it accepts what is there.
Commit ==
  /\ finalized /\ ~failed
  /\ hist' = [k \in Histories |-> [hist[k] EXCEPT !.old = hist[k].new]]
  /\ behind' = FALSE /\ spoilt' = (spoilt \/ behind)
  /\ UNCHANGED <<graphVars, failed, disk>>

Revert ==
  /\ finalized
  /\ hist' = [k \in Histories |-> [hist[k] EXCEPT !.new = hist[k].old]]
  /\ failed' = FALSE /\ behind' = FALSE
  /\ UNCHANGED <<graphVars, spoilt, disk>>

-----------------------------------------------------------------------------
(***************************************************************************)
(* Checkpoint and restart.                                                 *)
(***************************************************************************)
\* What is written of one history property: its size and both of its values.
Written(S) ==
  [k \in S |-> [bytes |-> registry[k].bytes, old |-> hist[k].old, new |-> hist[k].new]]

\* save_state(): there is no gate for a context whose last update threw, or was one of a
\* property.
SaveState ==
  /\ finalized
  /\ disk' = [entries |-> Written(Histories), cut |-> FALSE,
              spoilt |-> spoilt \/ failed \/ behind]
  /\ UNCHANGED <<graphVars, hist, failed, behind, spoilt>>

\* The stream takes no more, or the process ends: the file is short, between two entries
\* or within one.  The one that was there is gone, and save_state() does not say so.
SaveIsCut ==
  /\ finalized
  /\ \E S \in (SUBSET Histories) \ {Histories}, within \in BOOLEAN :
       disk' = [entries |-> Written(S), cut |-> within,
                spoilt |-> spoilt \/ failed \/ behind]
  /\ UNCHANGED <<graphVars, hist, failed, behind, spoilt>>

\* Read to the end, and of this context's history properties, no more and no fewer.
Matches == disk # None /\ ~disk.cut /\ DOMAIN disk.entries = Histories

SameSize(k) == disk.entries[k].bytes = registry[k].bytes

Restored(k) == [old |-> disk.entries[k].old, new |-> disk.entries[k].new]

\* A mutant of LoadState: the properties the file knows are restored, whatever it lacks.
LoadWhatIsThere ==
  /\ finalized /\ disk # None /\ Histories # {}
  /\ hist' = [k \in Histories |->
                IF k \in DOMAIN disk.entries THEN Restored(k) ELSE hist[k]]
  /\ behind' = FALSE /\ spoilt' = disk.spoilt
  /\ UNCHANGED <<graphVars, failed, disk>>

\* load_state(); without history properties there is nothing to do.
LoadState ==
  /\ finalized /\ Matches /\ Histories # {}
  /\ \A k \in Histories : SameSize(k)
  /\ hist' = [k \in Histories |-> Restored(k)]
  /\ behind' = FALSE /\ spoilt' = (disk.spoilt \/ Leftover)
  /\ UNCHANGED <<graphVars, failed, disk>>

\* One of another size throws when it is reached, in the execution order: it holds
\* whatever its first bytes make, those before it are restored, those after it are not.
LoadOtherSize ==
  /\ finalized /\ Matches
  /\ \E k \in Histories, S \in SUBSET {k \in Histories : SameSize(k)} :
       /\ ~SameSize(k)
       /\ hist' = [h \in Histories |->
                     IF h = k THEN [old |-> Lost, new |-> Lost]
                     ELSE IF h \in S THEN Restored(h) ELSE hist[h]]
  /\ behind' = FALSE /\ spoilt' = TRUE
  /\ UNCHANGED <<graphVars, failed, disk>>

Created ==
  /\ objects = <<>> /\ registry = <<>> /\ hist = <<>>
  /\ refsWired = {} /\ inputsWired = {}
  /\ finalized = FALSE /\ failed = FALSE /\ behind = FALSE /\ spoilt = FALSE

\* The process ends, or the context does: a destructor that finalizes first leaves
\* nothing behind either.
Restart ==
  /\ objects' = <<>> /\ registry' = <<>> /\ hist' = <<>>
  /\ refsWired' = {} /\ inputsWired' = {}
  /\ finalized' = FALSE /\ failed' = FALSE /\ behind' = FALSE /\ spoilt' = FALSE
  /\ UNCHANGED disk

-----------------------------------------------------------------------------
(***************************************************************************)
(* Properties.                                                             *)
(***************************************************************************)
TypeOK ==
  /\ objects \in Seq(Blueprint)
  /\ DOMAIN registry \subseteq Key
  /\ \A k \in DOMAIN registry :
       registry[k] \in [bytes : Nat, filler : {"none", "object", "gone"}]
  /\ DOMAIN hist = {k \in DOMAIN registry : registry[k].bytes > 0}
  /\ \A k \in DOMAIN hist : hist[k] \in [old : Age, new : Age]
  /\ refsWired \subseteq [from : Names, name : Names]
  /\ inputsWired \subseteq [from : Names, key : Key]
  /\ finalized \in BOOLEAN /\ failed \in BOOLEAN /\ behind \in BOOLEAN /\ spoilt \in BOOLEAN

\* Whatever constructors threw on the way: a name leads to one material, which has
\* registered all of its outputs, and an output with a live callback leads back to it.
NamesAreUnique ==
  /\ \A i, j \in DOMAIN objects : objects[i].name = objects[j].name => i = j
  /\ \A i \in DOMAIN objects : \A k \in Keys(objects[i]) :
       k \in DOMAIN registry /\ registry[k].filler = "object"
  /\ \A k \in DOMAIN registry :
       registry[k].filler = "object" => \E i \in DOMAIN objects : k \in Keys(objects[i])

\* After finalize(), at the first call or after others that threw, no material is left
\* with an open end: each reference leads to a material of the type it asks for, each
\* input to a property.
FinalizedIsWired ==
  finalized =>
    \A i \in DOMAIN objects :
      /\ \A r \in objects[i].refs :
           [from |-> objects[i].name, name |-> r.name] \in refsWired /\ Finds(r)
      /\ \A n \in DOMAIN objects[i].inputs :
           /\ [from |-> objects[i].name, key |-> objects[i].inputs[n]] \in inputsWired
           /\ objects[i].inputs[n] \in DOMAIN registry

\* What has been accepted is of one step in all of the properties it is spread over; what
\* the updates since have made of each is that step or the next, and the same one in all
\* of them unless update_property() has left some behind: through updates of properties
\* in any order, failing updates, restarts, checkpoints of other scripts and files cut
\* short.  Spoilt are contexts that commit() was called on with some history behind,
\* restored from what was saved then or after a failed update, half restored over another
\* size, finalized with what the constructor of a material that was never created has
\* left, or updated twice where a stepper adds to its new value.
HistoryIsOfOneStep ==
  ~spoilt =>
    \A k, h \in Histories :
      /\ hist[k].old = hist[h].old /\ hist[k].old # Lost
      /\ ~failed => hist[k].new \in {hist[k].old, After(hist[k].old)}
      /\ ~failed /\ ~behind => hist[k].new = hist[h].new

ContextInv == TypeOK /\ NamesAreUnique /\ FinalizedIsWired

\* The checkpoint, as one value.
AgeOf(A) == IF A = {} THEN 0 ELSE IF \A a, b \in A : a = b THEN CHOOSE a \in A : TRUE ELSE Lost
Kept ==
  IF disk = None THEN None
  ELSE IF disk.cut \/ DOMAIN disk.entries = {} THEN None
  ELSE [at |-> AgeOf({disk.entries[k].old : k \in DOMAIN disk.entries}),
        trial |-> AgeOf({disk.entries[k].new : k \in DOMAIN disk.entries}),
        spoilt |-> disk.spoilt]

\* The history of a context, property by property, with its checkpoint, entry by entry,
\* does what one value and one copy of it would do.
Durable == INSTANCE DurableHistory WITH
  at <- AgeOf({hist[k].old : k \in Histories}),
  trial <- AgeOf({hist[k].new : k \in Histories}),
  saved <- Kept

RefinesDurableHistory == Durable!Spec

-----------------------------------------------------------------------------
Init == Created /\ disk = None

Next ==
  \/ \E b \in Blueprint : Create(b)
  \/ Finalize \/ FinalizeThrows
  \/ Update \/ UpdateThrows \/ UpdateUndefined
  \/ finalized /\ \E runs \in Runs :
       UpdateProperty(runs) \/ UpdatePropertyThrows(runs) \/ UpdatePropertyUndefined(runs)
  \/ Commit \/ Revert
  \/ SaveState \/ SaveIsCut \/ LoadState \/ LoadOtherSize
  \/ Restart

Spec == Init /\ [][Next]_contextVars
=============================================================================
