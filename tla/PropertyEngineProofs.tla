------------------------ MODULE PropertyEngineProofs ------------------------
(***************************************************************************)
(* PropertyEngine for every finalized graph: the inductive invariant, what *)
(* follows from it, and that the engine implements ReferenceEngine.        *)
(***************************************************************************)
EXTENDS PropertyEngine, FiniteSetTheorems, TLAPS

LEMMA CellFacts ==
  /\ N \in Nat
  /\ Parameter \cap Property = {} /\ External \cap Callback = {}
  /\ History \subseteq Callback
BY FinalizedAssumption DEF Finalized, CellsDiffer

LEMMA GraphFacts ==
  /\ Reads \in [Callback -> SUBSET Cell]
  /\ OldReads \in [Callback -> SUBSET Held]
  /\ \A c \in Callback : \A d \in Reads[c] \cap Callback : d < c
BY FinalizedAssumption DEF Finalized, ReadsComeFirst

LEMMA ConstantFacts ==
  /\ Once \subseteq Constant /\ Constant \subseteq Callback
  /\ Constant \cap (History \cup Checker) = {}
  /\ \A c \in Constant : Reads[c] \subseteq Parameter \cup Constant /\ OldReads[c] = {}
BY FinalizedAssumption, CheckerAssumption DEF Finalized, ConstantsReadConstants

-----------------------------------------------------------------------------
(***************************************************************************)
(* Upstream sets.                                                          *)
(***************************************************************************)
LEMMA UpIn == \A c \in Callback : c \in Up[c] /\ Up[c] \subseteq Callback
  BY DEF Up

\* The upstream set is inside every closed set with its target.
LEMMA UpLeast ==
  ASSUME NEW c \in Callback, NEW S \in SUBSET Callback, c \in S, Closed(S)
  PROVE  Up[c] \subseteq S
  BY DEF Up

LEMMA UpClosed ==
  ASSUME NEW c \in Callback, NEW a \in Up[c], NEW d \in Reads[a] \cap Callback
  PROVE  d \in Up[c]
<1>1. ASSUME NEW S \in SUBSET Callback, c \in S, Closed(S)
      PROVE  d \in S
  <2>1. a \in S  BY <1>1, UpLeast
  <2> QED  BY <1>1, <2>1 DEF Closed
<1> QED  BY <1>1 DEF Up

LEMMA UpTransitive ==
  ASSUME NEW c \in Callback, NEW a \in Up[c]
  PROVE  Up[a] \subseteq Up[c]
<1>1. Up[c] \in SUBSET Callback /\ a \in Callback  BY UpIn
<1>2. Closed(Up[c])  BY UpClosed DEF Closed
<1> QED  BY <1>1, <1>2, UpLeast

\* Reads go down the order, so upstream sets do.
LEMMA UpBelow ==
  ASSUME NEW c \in Callback, NEW a \in Up[c]
  PROVE  a <= c
<1> DEFINE S == 1..c
<1>1. c \in S /\ S \in SUBSET Callback  BY CellFacts DEF Callback
<1>2. Closed(S)
  <2> SUFFICES ASSUME NEW b \in S, NEW d \in Reads[b] \cap Callback
               PROVE  d \in S
    BY DEF Closed
  <2>1. b \in Callback  BY <1>1
  <2>2. d < b  BY <2>1, GraphFacts
  <2> QED  BY <2>1, <2>2, CellFacts DEF Callback
<1>3. a \in S  BY <1>1, <1>2, UpLeast
<1> QED  BY <1>3 DEF Callback

LEMMA UpConstant ==
  ASSUME NEW c \in Constant
  PROVE  Up[c] \subseteq Constant
<1>1. Constant \in SUBSET Callback /\ c \in Callback  BY ConstantFacts
<1>2. Closed(Constant)
  BY CellFacts, ConstantFacts DEF Closed, Property
<1> QED  BY <1>1, <1>2, UpLeast

\* A checker is upstream of itself alone.
LEMMA UpChecker ==
  ASSUME NEW c \in Callback, NEW a \in Up[c], a # c
  PROVE  a \notin Checker
<1> DEFINE S == {c} \cup (Callback \ Checker)
<1>1. c \in S /\ S \in SUBSET Callback  OBVIOUS
<1>2. Closed(S)  BY CheckerAssumption DEF Closed
<1>3. a \in S  BY <1>1, <1>2, UpLeast
<1> QED  BY <1>3

-----------------------------------------------------------------------------
(***************************************************************************)
(* Evaluation: a callback sees its reads and nothing else.                 *)
(***************************************************************************)
LEMMA OutInValue ==
  ASSUME NEW c \in Callback, NEW v \in [Cell -> Value], NEW o \in [Held -> Value]
  PROVE  Out(c, v, o) \in Value /\ Throws(c, v, o) \in BOOLEAN
<1> DEFINE r == [y \in Reads[c] |-> v[y]]
           w == [h \in OldReads[c] |-> o[h]]
<1>1. Reads[c] \subseteq Cell /\ OldReads[c] \subseteq Held  BY GraphFacts
<1>2. r \in [Reads[c] -> Value] /\ w \in [OldReads[c] -> Value]  BY <1>1
<1>3. r \in UNION {[S -> Value] : S \in {Reads[d] : d \in Callback}}  BY <1>2
<1>4. w \in UNION {[S -> Value] : S \in {OldReads[d] : d \in Callback}}  BY <1>2
<1>5. DOMAIN r = Reads[c] /\ DOMAIN w = OldReads[c]  OBVIOUS
<1>6. Compute(c, r, w) \in Value /\ Fails(c, r, w) \in BOOLEAN
  <2> HIDE DEF r, w
  <2> QED  BY <1>3, <1>4, <1>5, ValueAssumption
<1> QED  BY <1>6 DEF Out, Throws

LEMMA SameView ==
  ASSUME NEW c \in Callback, NEW v, NEW w, NEW o, NEW q,
         \A y \in Reads[c] : v[y] = w[y],
         \A h \in OldReads[c] : o[h] = q[h]
  PROVE  Out(c, v, o) = Out(c, w, q) /\ (Throws(c, v, o) <=> Throws(c, w, q))
<1>1. [y \in Reads[c] |-> v[y]] = [y \in Reads[c] |-> w[y]]  OBVIOUS
<1>2. [h \in OldReads[c] |-> o[h]] = [h \in OldReads[c] |-> q[h]]  OBVIOUS
<1> QED  BY <1>1, <1>2, Zenon DEF Out, Throws

LEMMA SettledStable ==
  ASSUME NEW c \in Callback, NEW v, NEW w, NEW o, NEW q,
         \A y \in Reads[c] : v[y] = w[y], v[c] = w[c],
         \A h \in OldReads[c] : o[h] = q[h],
         Settled(c, v, o)
  PROVE  Settled(c, w, q)
  BY SameView DEF Settled

\* What a callback fills in is settled: it does not read itself.
LEMMA FillSettles ==
  ASSUME NEW c \in Callback, NEW v \in [Cell -> Value], NEW o,
         ~Throws(c, v, o)
  PROVE  Settled(c, [v EXCEPT ![c] = Out(c, v, o)], o)
<1> DEFINE w == [v EXCEPT ![c] = Out(c, v, o)]
<1>1. c \notin Reads[c] /\ Reads[c] \subseteq Cell /\ c \in Cell
  BY GraphFacts, CellFacts DEF Callback, Cell, Property
<1>2. \A y \in Reads[c] : v[y] = w[y]  BY <1>1
<1>3. w[c] = Out(c, v, o)  BY <1>1
<1>4. Out(c, v, o) = Out(c, w, o) /\ (Throws(c, v, o) <=> Throws(c, w, o))
  <2> HIDE DEF w
  <2> QED  BY <1>2, SameView
<1> QED  BY <1>3, <1>4 DEF Settled

-----------------------------------------------------------------------------
(***************************************************************************)
(* Types.                                                                  *)
(***************************************************************************)
LEMMA Cells ==
  /\ Callback \subseteq Cell /\ Held \subseteq Cell /\ Held \subseteq Property
  /\ Property \subseteq Cell
  /\ Constant \subseteq Callback /\ Once \subseteq Constant /\ Constant \cap Held = {}
  /\ Checker \subseteq Callback /\ Checker \cap Constant = {} /\ Checker \cap Held = {}
  BY CellFacts, ConstantFacts, CheckerAssumption DEF Cell, Property, Held

LEMMA FillType ==
  ASSUME TypeOK, NEW c \in Callback
  PROVE  [val EXCEPT ![c] = Out(c, val, old)] \in [Cell -> Value]
  BY OutInValue, Cells DEF TypeOK

LEMMA WithInputType ==
  ASSUME NEW k \in Checker, NEW v \in Value, NEW values \in [Cell -> Value],
         old \in [Held -> Value]
  PROVE  WithInput(k, v, values) \in [Cell -> Value]
<1>1. HistSrc[k] \subseteq Held  BY CheckerAssumption
<1> QED  BY <1>1 DEF WithInput

LEMMA NestedType == \A k \in Checker : NestedRuns(k) \subseteq Callback /\ Input[k] \in Cell
  BY UpIn, Cells, CheckerAssumption DEF NestedRuns

LEMMA DefaultType == Default \in Value /\ 0 \in 0..Trials /\ Trials - 1 \in 0..Trials
  BY ValueAssumption, EngineAssumption

LEMMA TypeInit == Init => TypeOK
  BY DefaultType DEF Init, TypeOK

LEMMA TypeStep == TypeOK /\ [Next]_vars => TypeOK'
<1> SUFFICES ASSUME TypeOK, [Next]_vars
             PROVE  TypeOK'
  OBVIOUS
<1> USE DEF TypeOK, vars, graphVars, foldVars, loopVars, checkVars
<1>1. ASSUME NEW r \in SUBSET Callback, Start(r)
      PROVE  TypeOK'
  BY <1>1 DEF Start, RefreshConstants, Reactivate
<1>2. CASE Update
  BY <1>1, <1>2 DEF Update
<1>3. ASSUME NEW c \in Callback, NEW y \in Excludes, UpdateProperty(c, y)
      PROVE  TypeOK'
  <2>1. Up[c] \ y \in SUBSET Callback  BY UpIn
  <2> QED  BY <1>1, <1>3, <2>1 DEF UpdateProperty
<1>4. ASSUME NEW c \in Callback, Fill(c), UNCHANGED old
      PROVE  val' \in [Cell -> Value] /\ old' \in [Held -> Value]
  BY <1>4, FillType DEF Fill
<1>5. ASSUME NEW c \in Callback, Partly(c), UNCHANGED old
      PROVE  val' \in [Cell -> Value] /\ old' \in [Held -> Value]
  BY <1>5, Cells DEF Partly
<1>6. ASSUME Abort, val' \in [Cell -> Value], old' \in [Held -> Value]
      PROVE  TypeOK'
  BY <1>6, ValueAssumption, EngineAssumption DEF Abort
<1>7. CASE StartLoop
  BY <1>7 DEF StartLoop
<1>8. CASE Finish
  BY <1>8, Cells DEF Finish, Retire
<1>9. ASSUME NEW c \in Callback, VerifyCallback(c)
      PROVE  TypeOK'
  BY <1>4, <1>9 DEF VerifyCallback
<1>10. ASSUME NEW c \in Callback, VerifyThrows(c)
       PROVE  TypeOK'
  BY <1>4, <1>5, <1>6, <1>10 DEF VerifyThrows, Abort
<1>11. ASSUME NEW c \in Callback, RunCallback(c)
       PROVE  TypeOK'
  BY <1>4, <1>11 DEF RunCallback
<1>12. ASSUME NEW c \in Callback, CallbackThrows(c)
       PROVE  TypeOK'
  BY <1>5, <1>6, <1>12 DEF CallbackThrows, Abort
<1>13. ASSUME NEW c \in Callback, NestedRun(c)
       PROVE  TypeOK'
  BY <1>4, <1>13 DEF NestedRun
<1>15. ASSUME NEW k \in Checker, Perturb(k), UNCHANGED old
       PROVE  val' \in [Cell -> Value] /\ old' \in [Held -> Value] /\ nested' \subseteq Callback
  BY <1>15, WithInputType, NestedType DEF Perturb
<1>16. ASSUME NEW k \in Checker, NEW values \in [Cell -> Value], Restore(k, values), UNCHANGED old
       PROVE  val' \in [Cell -> Value] /\ old' \in [Held -> Value] /\ nested' \subseteq Callback
  BY <1>16, WithInputType, NestedType DEF Restore
<1>17. ASSUME NEW k \in Checker, CheckerStart(k)
       PROVE  TypeOK'
  BY <1>15, <1>17, NestedType, EngineAssumption DEF CheckerStart
<1>18. ASSUME NEW k \in Checker, NextTrial(k)
       PROVE  TypeOK'
  BY <1>15, <1>18, EngineAssumption DEF NextTrial
<1>19. ASSUME NEW k \in Checker, RestoreState(k)
       PROVE  TypeOK'
  BY <1>16, <1>19 DEF RestoreState
<1>20. ASSUME NEW k \in Checker, NEW c \in Callback, NestedThrows(k, c)
       PROVE  TypeOK'
  <2>1. CASE stage = "trial"
    <3>1. UNCHANGED <<old, foldVars, failed, loopVars, saved>> /\ stage' = "rethrow" /\ left' = 0
      BY <1>20, <2>1 DEF NestedThrows
    <3>2. PICK v \in Value : Restore(k, [val EXCEPT ![c] = v])
      BY <1>20, <2>1 DEF NestedThrows
    <3>3. [val EXCEPT ![c] = v] \in [Cell -> Value]  BY Cells
    <3>4. val' \in [Cell -> Value] /\ old' \in [Held -> Value] /\ nested' \subseteq Callback
      BY <1>16, <3>1, <3>2, <3>3
    <3> QED  BY <3>1, <3>4, EngineAssumption
  <2>2. CASE stage # "trial"
    BY <1>5, <1>6, <1>20, <2>2 DEF NestedThrows, Abort
  <2> QED  BY <2>1, <2>2
<1>21. ASSUME NEW k \in Checker, CheckerDone(k)
       PROVE  TypeOK'
  BY <1>5, <1>21, Cells, ValueAssumption DEF CheckerDone
<1>22. ASSUME NEW k \in Checker, Rethrow(k)
       PROVE  TypeOK'
  BY <1>6, <1>22 DEF Rethrow, Abort
<1>23. ASSUME NEW e \in External, NEW o \in Value, NEW n \in Value, Bind(e, o, n)
       PROVE  TypeOK'
  BY <1>23 DEF Bind
<1>24. ASSUME NEW y \in Writable, NEW v \in Value, Write(y, v)
       PROVE  TypeOK'
  BY <1>24 DEF Write
<1>25. ASSUME NEW on \in BOOLEAN, FoldConstants(on) \/ VerifyConstants(on)
       PROVE  TypeOK'
  BY <1>25 DEF FoldConstants, VerifyConstants, Reactivate
<1>26. CASE Commit \/ Revert
  BY <1>26, Cells DEF Commit, Revert
<1>27. CASE UNCHANGED vars
  BY <1>27
<1>28. CASE EngineStep
  BY <1>7, <1>8, <1>9, <1>10, <1>11, <1>12, <1>13, <1>17, <1>18, <1>19, <1>20, <1>21, <1>22, <1>28
  DEF EngineStep
<1>29. CASE HostStep
  BY <1>2, <1>3, <1>23, <1>24, <1>25, <1>26, <1>29 DEF HostStep
<1> QED  BY <1>27, <1>28, <1>29 DEF Next

\* Every value the engine keeps is of its type, for every graph.
THEOREM TypeCorrect == Spec => []TypeOK
  BY TypeInit, TypeStep, PTL DEF Spec

-----------------------------------------------------------------------------
(***************************************************************************)
(* What a change of values leaves settled.                                 *)
(***************************************************************************)
\* A constant depends on the parameters and on constants alone.
LEMMA ConstantStable ==
  ASSUME NEW d \in Constant, NEW v, NEW w, NEW o, NEW q,
         \A y \in Parameter \cup Up[d] : v[y] = w[y],
         \A a \in Up[d] : Settled(a, v, o)
  PROVE  \A a \in Up[d] : Settled(a, w, q)
<1> TAKE a \in Up[d]
<1>1. d \in Callback /\ a \in Constant /\ a \in Callback  BY UpConstant, ConstantFacts
<1>2. Reads[a] \subseteq Parameter \cup Up[d]
  BY <1>1, UpClosed, ConstantFacts
<1>3. OldReads[a] = {}  BY <1>1, ConstantFacts
<1>4. \A y \in Reads[a] : v[y] = w[y]  BY <1>2
<1>5. v[a] = w[a] /\ Settled(a, v, o)  OBVIOUS
<1> QED  BY <1>1, <1>3, <1>4, <1>5, SettledStable

LEMMA FillKeepsUpstream ==
  ASSUME TypeOK, NEW c \in Callback, NEW d \in Constant,
         \A a \in Up[d] : Settled(a, val, old), Fill(c)
  PROVE  \A a \in Up[d] : Settled(a, val', old)
<1>1. \A y \in Parameter \cup Up[d] : val[y] = val'[y]
  <2> TAKE y \in Parameter \cup Up[d]
  <2>1. CASE y = c
    <3>1. c \in Up[d]  BY <2>1, CellFacts DEF Property
    <3> QED  BY <2>1, <3>1, Cells DEF Settled, Fill, TypeOK
  <2>2. CASE y # c
    BY <2>2 DEF Fill, TypeOK
  <2> QED  BY <2>1, <2>2
<1> QED  BY <1>1, ConstantStable

\* A callback that throws is upstream of no settled constant.
LEMMA PartlyKeepsUpstream ==
  ASSUME TypeOK, NEW c \in Callback, NEW d \in Constant,
         \A a \in Up[d] : Settled(a, val, old), Throws(c, val, old), Partly(c)
  PROVE  \A a \in Up[d] : Settled(a, val', old)
<1>1. c \notin Up[d] /\ c \notin Parameter
  BY CellFacts DEF Settled, Property
<1>2. \A y \in Parameter \cup Up[d] : val[y] = val'[y]
  BY <1>1 DEF Partly, TypeOK
<1> QED  BY <1>2, ConstantStable

LEMMA RetiredConstant ==
  ASSUME Partition
  PROVE  retired \subseteq Constant /\ retired \subseteq Callback
  BY ConstantFacts DEF Partition

-----------------------------------------------------------------------------
(***************************************************************************)
(* The inductive step, action by action.                                   *)
(***************************************************************************)
LEMMA StepStart ==
  ASSUME IInv, TypeOK', NEW r \in SUBSET Callback,
         \A c \in r \cap (Once \cup Checker) : Up[c] \subseteq r,
         Start(r)
  PROVE  IInv'
<1>1. /\ phase' = "verify" /\ runs' = r /\ dirty' = FALSE /\ stage' = stage /\ nested' = nested
      /\ left' = left /\ failed' = failed /\ ~failed /\ val' = val /\ old' = old
      /\ todo' \subseteq retired' /\ stage = "none"
  BY DEF Start, IInv, Control, TypeOK, RefreshConstants, graphVars, checkVars, Current, Running
<1>2. Partition'
  BY ConstantFacts DEF Start, RefreshConstants, Reactivate, IInv, Partition
<1>3. Control'
  BY <1>1 DEF Control, IInv, Running
<1>4. RunsClosed'
  BY <1>1 DEF RunsClosed
<1>5. RetiredUpstream'
  <2>1. CASE dirty
    <3>1. retired' = {}  BY <2>1 DEF Start, RefreshConstants, Reactivate
    <3> QED  BY <3>1 DEF RetiredUpstream
  <2>2. CASE ~dirty
    <3>1. retired' = retired  BY <2>2 DEF Start, RefreshConstants
    <3> QED  BY <1>1, <2>2, <3>1 DEF IInv, RetiredUpstream
  <2> QED  BY <2>1, <2>2
<1>6. LoopSettled' /\ CheckerRecovers'
  BY <1>1 DEF LoopSettled, CheckerRecovers
<1> QED  BY <1>2, <1>3, <1>4, <1>5, <1>6 DEF IInv

LEMMA StepVerifyCallback ==
  ASSUME IInv, TypeOK', NEW c \in Callback, VerifyCallback(c)
  PROVE  IInv'
<1>1. val' = val
  BY DEF VerifyCallback, Fill, Settled, IInv, TypeOK
<1>2. /\ phase' = "verify" /\ todo' \subseteq todo /\ stage' = "none" /\ phase = "verify"
      /\ UNCHANGED <<old, active, retired, dirty, failed, runs, nested, left>>
  BY DEF VerifyCallback, foldVars, checkVars, IInv, Control, Current, TypeOK
<1>3. Partition' /\ RunsClosed' /\ RetiredUpstream'
  BY <1>1, <1>2 DEF IInv, Partition, RunsClosed, RetiredUpstream
<1>4. Control'
  BY <1>2 DEF IInv, Control, Running
<1>5. LoopSettled' /\ CheckerRecovers'
  BY <1>2 DEF LoopSettled, CheckerRecovers
<1> QED  BY <1>3, <1>4, <1>5 DEF IInv

LEMMA StepStartLoop ==
  ASSUME IInv, TypeOK', StartLoop
  PROVE  IInv'
<1>1. /\ phase' = "run" /\ todo' = active \cap runs /\ stage' = "none" /\ phase = "verify"
      /\ ~dirty
      /\ UNCHANGED <<val, old, active, retired, dirty, failed, runs, nested, left>>
  BY DEF StartLoop, graphVars, foldVars, checkVars, IInv, Control, Current, TypeOK
<1>2. Partition' /\ RunsClosed' /\ RetiredUpstream'
  BY <1>1 DEF IInv, Partition, RunsClosed, RetiredUpstream
<1>3. Control'
  BY <1>1 DEF IInv, Control, Running
<1>4. DealtWith(val)'
  <2>1. \A d \in retired : \A a \in Up[d] : Settled(a, val, old)
    BY <1>1 DEF IInv, RetiredUpstream
  <2>2. runs \ todo' \subseteq retired
    BY <1>1 DEF IInv, Partition, TypeOK
  <2>3. \A d \in retired : d \in Up[d]
    BY UpIn DEF IInv, TypeOK
  <2> QED  BY <1>1, <2>1, <2>2, <2>3 DEF DealtWith
<1>5. LoopSettled' /\ CheckerRecovers'
  BY <1>1, <1>4 DEF LoopSettled, CheckerRecovers
<1> QED  BY <1>2, <1>3, <1>5 DEF IInv

\* An update that stops leaves what is retired, and nothing of its loops.
LEMMA StepAbort ==
  ASSUME IInv, TypeOK', Abort, RetiredUpstream'
  PROVE  IInv'
<1>1. Partition'  BY DEF Abort, foldVars, IInv, Partition
<1>2. Control' /\ RunsClosed' /\ LoopSettled' /\ CheckerRecovers'
  BY DEF Abort, Control, Running, RunsClosed, LoopSettled, CheckerRecovers
<1> QED  BY <1>1, <1>2 DEF IInv

LEMMA StepVerifyThrows ==
  ASSUME IInv, TypeOK', NEW c \in Callback, VerifyThrows(c)
  PROVE  IInv'
<1>1. Abort /\ UNCHANGED <<old, retired, dirty>>  BY DEF VerifyThrows, Abort, foldVars
<1>2. (Throws(c, val, old) /\ Partly(c)) \/ Fill(c)  BY DEF VerifyThrows
<1>3. RetiredUpstream'
  <2> SUFFICES ASSUME ~dirty, NEW d \in retired
               PROVE  \A a \in Up[d] : Settled(a, val', old)
    BY <1>1 DEF RetiredUpstream
  <2>1. TypeOK /\ d \in Constant /\ \A a \in Up[d] : Settled(a, val, old)
    BY RetiredConstant DEF IInv, RetiredUpstream
  <2> QED  BY <1>2, <2>1, FillKeepsUpstream, PartlyKeepsUpstream
<1> QED  BY <1>1, <1>3, StepAbort

LEMMA StepCallbackThrows ==
  ASSUME IInv, TypeOK', NEW c \in Callback, CallbackThrows(c)
  PROVE  IInv'
<1>1. Abort /\ UNCHANGED <<old, retired, dirty>>  BY DEF CallbackThrows, Abort, foldVars
<1>2. Throws(c, val, old) /\ Partly(c)  BY DEF CallbackThrows
<1>3. RetiredUpstream'
  <2> SUFFICES ASSUME ~dirty, NEW d \in retired
               PROVE  \A a \in Up[d] : Settled(a, val', old)
    BY <1>1 DEF RetiredUpstream
  <2>1. TypeOK /\ d \in Constant /\ \A a \in Up[d] : Settled(a, val, old)
    BY RetiredConstant DEF IInv, RetiredUpstream
  <2> QED  BY <1>2, <2>1, PartlyKeepsUpstream
<1> QED  BY <1>1, <1>3, StepAbort

\* A checker has bumped the revision: what it leaves behind is noticed.
LEMMA StepCheckerAborts ==
  ASSUME IInv, TypeOK', stage # "none", Abort
  PROVE  IInv'
<1>1. RetiredUpstream'
  BY DEF IInv, Control, Abort, foldVars, RetiredUpstream
<1> QED  BY <1>1, StepAbort

LEMMA StepRunCallback ==
  ASSUME IInv, TypeOK', NEW c \in Callback, RunCallback(c)
  PROVE  IInv'
<1> USE DEF IInv
<1>1. /\ phase = "run" /\ First(c, todo) /\ c \notin Checker /\ ~Throws(c, val, old)
      /\ Fill(c) /\ val' = [val EXCEPT ![c] = Out(c, val, old)] /\ todo' = todo \ {c}
      /\ UNCHANGED <<old, active, retired, dirty, failed, phase, runs, stage, nested>>
  BY DEF RunCallback, Fill, foldVars, checkVars
<1>2. stage = "none"
  <2> SUFFICES ASSUME stage # "none"  PROVE FALSE
    OBVIOUS
  <2>1. PICK k \in Checker : First(k, todo)  BY DEF Control, Current
  <2>2. k = c  BY <1>1, <2>1, CheckerAssumption DEF First, Callback
  <2> QED  BY <1>1, <2>2
<1>3. Partition' /\ RunsClosed'
  BY <1>1 DEF Partition, RunsClosed
<1>4. RetiredUpstream'
  <2> SUFFICES ASSUME ~dirty, NEW d \in retired
               PROVE  \A a \in Up[d] : Settled(a, val', old)
    BY <1>1 DEF RetiredUpstream
  <2>1. d \in Constant /\ \A a \in Up[d] : Settled(a, val, old)
    BY RetiredConstant DEF RetiredUpstream
  <2> QED  BY <1>1, <2>1, FillKeepsUpstream
<1>5. Control'
  <2>1. \A d \in (active \cap runs) \ todo', e \in todo' : d < e
    <3> TAKE d \in (active \cap runs) \ todo', e \in todo'
    <3>1. d \in Callback /\ e \in Callback /\ e # c  BY <1>1 DEF TypeOK
    <3> QED  BY <1>1, <3>1 DEF Control, First, Callback
  <2> QED  BY <1>1, <1>2, <2>1 DEF Control, Running
<1>6. DealtWith(val)'
  <2>1. DealtWith(val)  BY <1>1, <1>2 DEF LoopSettled
  <2>2. ASSUME NEW d \in (runs \ todo') \ Checker
        PROVE  Settled(d, val', old)
    <3>1. d \in Callback  BY DEF TypeOK
    <3>2. CASE d = c
      <4>1. val \in [Cell -> Value]  BY DEF TypeOK
      <4> QED  BY <1>1, <3>2, <4>1, FillSettles
    <3>3. CASE d # c /\ c \notin Reads[d]
      <4>1. Settled(d, val, old)  BY <1>1, <2>1, <3>3 DEF DealtWith
      <4>2. val[d] = val'[d] /\ \A y \in Reads[d] : val[y] = val'[y]
        BY <1>1, <3>3 DEF TypeOK
      <4> QED  BY <3>1, <4>1, <4>2, SettledStable
    <3>4. CASE d # c /\ c \in Reads[d]
      <4>1. c < d  BY <3>1, <3>4, GraphFacts
      <4>2. d \notin active
        <5>1. d \in active => d < c  BY <1>1, <3>4 DEF Control, First
        <5> QED  BY <3>1, <4>1, <5>1 DEF Callback
      <4>3. d \in runs \cap retired  BY <3>1, <4>2 DEF Partition
      <4>4. c \in Up[d] /\ d \in Up[d]  BY <3>1, <3>4, UpIn, UpClosed
      <4>5. Settled(c, val, old) /\ Settled(d, val, old)
        BY <2>1, <4>3, <4>4 DEF DealtWith
      <4>6. val' = val  BY <1>1, <4>5 DEF Settled, TypeOK
      <4> QED  BY <4>5, <4>6
    <3> QED  BY <3>2, <3>3, <3>4
  <2>3. ASSUME NEW d \in runs \cap retired
        PROVE  \A a \in Up[d] : Settled(a, val', old)
    <3>1. d \in Constant /\ \A a \in Up[d] : Settled(a, val, old)
      BY <2>1, RetiredConstant DEF DealtWith
    <3> QED  BY <1>1, <3>1, FillKeepsUpstream
  <2> QED  BY <1>1, <2>2, <2>3 DEF DealtWith
<1>7. LoopSettled' /\ CheckerRecovers'
  BY <1>1, <1>2, <1>6 DEF LoopSettled, CheckerRecovers
<1> QED  BY <1>3, <1>4, <1>5, <1>7

LEMMA StepFinish ==
  ASSUME IInv, TypeOK', Finish
  PROVE  IInv'
<1> USE DEF IInv
<1>1. /\ phase = "run" /\ todo = {} /\ phase' = "idle" /\ runs' = {}
      /\ UNCHANGED <<val, old, dirty, failed, stage, nested>>
  BY DEF Finish, graphVars, checkVars
<1>2. stage = "none" /\ ~failed
  BY <1>1 DEF Control, Current, First, Running
<1>3. PICK done \in SUBSET (active \cap Once \cap runs) :
        active' = active \ done /\ retired' = retired \cup done
  BY DEF Finish, Retire
<1>4. Partition'
  BY <1>3 DEF Partition
<1>5. RetiredUpstream'
  <2> SUFFICES ASSUME ~dirty, NEW c \in retired \cup done
               PROVE  \A a \in Up[c] : Settled(a, val, old)
    BY <1>1, <1>3 DEF RetiredUpstream
  <2>1. CASE c \in retired
    BY <2>1 DEF RetiredUpstream
  <2>2. CASE c \in done
    <3>1. c \in runs \cap Once /\ c \in Constant
      BY <1>3, <2>2, ConstantFacts
    <3>2. Up[c] \subseteq runs /\ Up[c] \cap Checker = {}
      BY <3>1, UpConstant, Cells DEF RunsClosed
    <3> QED  BY <1>1, <1>2, <3>2 DEF LoopSettled, DealtWith
  <2> QED  BY <2>1, <2>2
<1>6. Control' /\ RunsClosed' /\ LoopSettled' /\ CheckerRecovers'
  BY <1>1, <1>2 DEF Control, Running, RunsClosed, LoopSettled, CheckerRecovers
<1> QED  BY <1>4, <1>5, <1>6

-----------------------------------------------------------------------------
(***************************************************************************)
(* The steps of a checker k: the values v from before it started stay      *)
(* recoverable, and are back when it is done.                              *)
(***************************************************************************)
LEMMA OneChecker ==
  ASSUME TypeOK, NEW k \in Checker, NEW j \in Checker, Current(k), Current(j)
  PROVE  k = j
  BY CheckerAssumption DEF Current, First, Callback

\* Setting the input and reverting histories touches what is re-evaluated, and the input.
LEMMA WithInputKeeps ==
  ASSUME HistoriesReevaluated, NEW k \in Checker, NEW v, NEW values
  PROVE  /\ \A y \in Cell \ (NestedRuns(k) \cup {Input[k]}) : WithInput(k, v, values)[y] = values[y]
         /\ Input[k] \in NestedRuns(k) \/ WithInput(k, v, values)[Input[k]] = v
  BY NestedType DEF HistoriesReevaluated, WithInput, NestedRuns

\* A step of checker k within its callback, that leaves v recoverable.
LEMMA StepWithinChecker ==
  ASSUME IInv, TypeOK', NEW k \in Checker, Current(k), stage' # "none", dirty',
         UNCHANGED <<old, active, retired, failed, phase, runs, todo>>,
         nested' \subseteq NestedRuns(k),
         NEW v \in [Cell -> Value], Recoverable(k, v)'
  PROVE  IInv'
<1>1. Current(k)' /\ phase = "run"  BY DEF Current
<1>2. Partition' /\ RunsClosed' /\ RetiredUpstream' /\ LoopSettled'
  BY DEF IInv, Partition, RunsClosed, RetiredUpstream, LoopSettled
<1>3. Control'
  BY <1>1 DEF IInv, Control, Running
<1>4. CheckerRecovers'
  <2> SUFFICES ASSUME NEW j \in Checker, Current(j)'
               PROVE  \E w \in [Cell -> Value] : Recoverable(j, w)'
    BY DEF CheckerRecovers
  <2>1. Current(j)  BY <1>1 DEF Current, First
  <2>2. j = k  BY <2>1, OneChecker DEF IInv
  <2> QED  BY <2>2
<1> QED  BY <1>2, <1>3, <1>4 DEF IInv

\* What the update has dealt with, for values that do not change.
LEMMA DealtWithStays ==
  ASSUME NEW v, DealtWith(v), UNCHANGED <<old, retired, runs, todo>>
  PROVE  DealtWith(v)'
  BY DEF DealtWith

LEMMA StepCheckerStart ==
  ASSUME HistoriesReevaluated, IInv, TypeOK', NEW k \in Checker, CheckerStart(k)
  PROVE  IInv'
<1>1. /\ Current(k) /\ stage = "none" /\ stage' = "trial" /\ dirty' /\ saved' = val[Input[k]]
      /\ nested' = NestedRuns(k) /\ phase = "run"
      /\ UNCHANGED <<old, active, retired, failed, phase, runs, todo>>
  BY DEF CheckerStart, Perturb, loopVars, Current
<1>2. PICK n \in Value : val' = WithInput(k, n, val)
  BY DEF CheckerStart, Perturb
<1>3. PICK v \in [Cell -> Value] : v = val
  BY DEF IInv, TypeOK
<1>4. DealtWith(v)'
  <2>1. DealtWith(v)  BY <1>1, <1>3 DEF IInv, LoopSettled, DealtWith
  <2> QED  BY <1>1, <2>1, DealtWithStays
<1>5. Recoverable(k, v)'
  <2>1. \A y \in Cell \ (NestedRuns(k) \cup {Input[k]}) : val'[y] = v[y]
    BY <1>2, <1>3, WithInputKeeps
  <2> QED  BY <1>1, <1>3, <1>4, <2>1 DEF Recoverable, NestedRuns
<1> QED  BY <1>1, <1>5, StepWithinChecker

LEMMA StepNextTrial ==
  ASSUME HistoriesReevaluated, IInv, TypeOK', NEW k \in Checker, NextTrial(k)
  PROVE  IInv'
<1>1. /\ Current(k) /\ stage = "trial" /\ stage' = "trial" /\ dirty' /\ saved' = saved
      /\ nested' = NestedRuns(k)
      /\ UNCHANGED <<old, active, retired, failed, phase, runs, todo>>
  BY DEF NextTrial, Perturb, foldVars, loopVars, IInv, Control
<1>2. PICK n \in Value : val' = WithInput(k, n, val)
  BY DEF NextTrial, Perturb
<1>3. PICK v \in [Cell -> Value] : Recoverable(k, v)
  BY <1>1 DEF IInv, CheckerRecovers
<1>4. DealtWith(v)'
  BY <1>1, <1>3, DealtWithStays DEF Recoverable
<1>5. Recoverable(k, v)'
  <2>1. \A y \in Cell \ (NestedRuns(k) \cup {Input[k]}) : val'[y] = v[y]
    BY <1>2, <1>3, WithInputKeeps DEF Recoverable
  <2> QED  BY <1>1, <1>3, <1>4, <2>1 DEF Recoverable, NestedRuns
<1> QED  BY <1>1, <1>5, StepWithinChecker

\* The input put back, from values that differ from val in what is re-evaluated.
LEMMA StepRestore ==
  ASSUME HistoriesReevaluated, IInv, TypeOK', NEW k \in Checker, Current(k),
         stage = "trial", stage' \in {"restore", "rethrow"},
         UNCHANGED <<old, foldVars, failed, loopVars, saved>>,
         NEW values, \A y \in Cell \ NestedRuns(k) : values[y] = val[y],
         Restore(k, values)
  PROVE  IInv'
<1>1. /\ dirty' /\ nested' = NestedRuns(k) /\ val' = WithInput(k, saved, values)
      /\ saved' = saved
      /\ UNCHANGED <<old, active, retired, failed, phase, runs, todo>>
  BY DEF Restore, foldVars, loopVars, IInv, Control
<1>2. PICK v \in [Cell -> Value] : Recoverable(k, v)
  BY DEF IInv, CheckerRecovers
<1>3. DealtWith(v)'
  BY <1>1, <1>2, DealtWithStays DEF Recoverable
<1>4. Recoverable(k, v)'
  <2>1. \A y \in Cell \ (NestedRuns(k) \cup {Input[k]}) : val'[y] = v[y]
    BY <1>1, <1>2, WithInputKeeps DEF Recoverable
  <2>2. Input[k] \in NestedRuns(k) \/ val'[Input[k]] = saved
    BY <1>1, WithInputKeeps
  <2> QED  BY <1>1, <1>2, <1>3, <2>1, <2>2 DEF Recoverable, NestedRuns
<1>5. stage' # "none" /\ nested' \subseteq NestedRuns(k)
  BY <1>1
<1> QED  BY <1>1, <1>4, <1>5, StepWithinChecker

LEMMA StepRestoreState ==
  ASSUME HistoriesReevaluated, IInv, TypeOK', NEW k \in Checker, RestoreState(k)
  PROVE  IInv'
  BY StepRestore DEF RestoreState, foldVars, loopVars

LEMMA StepNestedThrows ==
  ASSUME HistoriesReevaluated, IInv, TypeOK', NEW k \in Checker, NEW c \in Callback,
         NestedThrows(k, c)
  PROVE  IInv'
<1>1. PICK j \in Checker : Current(j) /\ nested \subseteq NestedRuns(j) /\ stage # "none"
  BY DEF IInv, Control, NestedThrows, First
<1>2. CASE stage = "trial"
  <2>1. PICK n \in Value : Restore(k, [val EXCEPT ![c] = n])
    BY <1>2 DEF NestedThrows
  <2>2. c \in NestedRuns(k)
    BY <1>1, OneChecker DEF IInv, NestedThrows, First
  <2>3. \A y \in Cell \ NestedRuns(k) : [val EXCEPT ![c] = n][y] = val[y]
    BY <2>2 DEF IInv, TypeOK
  <2> QED  BY <1>2, <2>1, <2>3, StepRestore DEF NestedThrows, foldVars, loopVars
<1>3. CASE stage # "trial"
  BY <1>1, <1>3, StepCheckerAborts DEF NestedThrows
<1> QED  BY <1>2, <1>3

\* Everything a checker re-evaluates has already been dealt with by its update.
LEMMA NestedDealtWith ==
  ASSUME IInv, NEW k \in Checker, Current(k), NEW c \in NestedRuns(k)
  PROVE  c \in (runs \ todo) \ Checker
<1>1. k \in Callback /\ k \in runs /\ Target[k] \in Reads[k] \cap Callback
  BY CheckerAssumption DEF IInv, TypeOK, Current, First
<1>2. c \in Up[Target[k]] /\ Up[Target[k]] \subseteq Up[k]
  BY <1>1, UpIn, UpClosed, UpTransitive DEF NestedRuns
<1>3. c \in runs  BY <1>1, <1>2 DEF IInv, RunsClosed
<1>4. c \in Callback /\ Target[k] \in Callback  BY <1>1, <1>2, UpIn
<1>5. c < k
  <2>1. c <= Target[k]  BY <1>1, <1>2, UpBelow
  <2>2. Target[k] < k  BY <1>1, GraphFacts
  <2> QED  BY <1>1, <1>4, <2>1, <2>2 DEF Callback
<1>6. c \notin todo  BY <1>1, <1>4, <1>5 DEF Current, First, Callback
<1>7. c \notin Checker
  <2>1. c \in Up[k] /\ c # k  BY <1>1, <1>2, <1>4, <1>5 DEF Callback
  <2> QED  BY <1>1, <2>1, UpChecker
<1> QED  BY <1>3, <1>6, <1>7

\* The callback the restoration comes to reads what has been brought back.
LEMMA RestoredReads ==
  ASSUME NEW k \in Checker, stage \in {"restore", "rethrow"},
         NEW v, Recoverable(k, v),
         NEW c \in Callback, c \in NestedRuns(k), First(c, nested)
  PROVE  \A y \in Reads[c] : val[y] = v[y]
<1> TAKE y \in Reads[c]
<1>1. y \in Cell  BY GraphFacts
<1>2. CASE y = Input[k] /\ y \notin NestedRuns(k)
  BY <1>2 DEF Recoverable
<1>3. CASE y \notin NestedRuns(k) \cup {Input[k]}
  BY <1>1, <1>3 DEF Recoverable
<1>4. CASE y \in NestedRuns(k)
  <2>1. y \in Callback  BY <1>4, NestedType
  <2>2. y < c  BY <2>1, GraphFacts
  <2>3. y \notin nested  BY <2>1, <2>2 DEF First, Callback
  <2> QED  BY <1>4, <2>3 DEF Recoverable
<1> QED  BY <1>2, <1>3, <1>4

LEMMA StepNestedRun ==
  ASSUME IInv, TypeOK', NEW c \in Callback, NestedRun(c)
  PROVE  IInv'
<1>1. /\ stage # "none" /\ First(c, nested) /\ ~Throws(c, val, old)
      /\ val' = [val EXCEPT ![c] = Out(c, val, old)] /\ nested' = nested \ {c}
      /\ UNCHANGED <<old, active, retired, failed, phase, runs, todo, dirty, stage, saved>>
  BY DEF NestedRun, Fill, foldVars, loopVars
<1>2. PICK k \in Checker : Current(k) /\ nested \subseteq NestedRuns(k)
  BY <1>1 DEF IInv, Control
<1>3. PICK v \in [Cell -> Value] : Recoverable(k, v)
  BY <1>1, <1>2 DEF IInv, CheckerRecovers
<1>4. DealtWith(v)'
  BY <1>1, <1>3, DealtWithStays DEF Recoverable
<1>5. c \in NestedRuns(k)
  BY <1>1, <1>2 DEF First
<1>6. \A y \in Cell \ {c} : val'[y] = val[y]
  BY <1>1 DEF IInv, TypeOK
<1>7. \A y \in Cell \ (NestedRuns(k) \cup {Input[k]}) : val'[y] = v[y]
  BY <1>3, <1>5, <1>6 DEF Recoverable
<1>8. ASSUME stage \in {"restore", "rethrow"}
      PROVE  /\ Input[k] \in NestedRuns(k) \/ val'[Input[k]] = saved
             /\ \A d \in NestedRuns(k) \ nested' : val'[d] = v[d]
  <2>1. /\ Input[k] \in NestedRuns(k) \/ val[Input[k]] = saved
        /\ \A d \in NestedRuns(k) \ nested : val[d] = v[d]
    BY <1>3, <1>8 DEF Recoverable
  <2>2. Input[k] \in NestedRuns(k) \/ val'[Input[k]] = saved
    BY <1>5, <1>6, <2>1, NestedType
  <2>3. \A y \in Reads[c] : val[y] = v[y]
    BY <1>1, <1>2, <1>3, <1>5, <1>8, RestoredReads
  <2>4. Settled(c, v, old)
    BY <1>2, <1>3, <1>5, NestedDealtWith DEF Recoverable, DealtWith
  <2>5. Out(c, val, old) = Out(c, v, old)
    BY <2>3, SameView
  <2>6. val'[c] = v[c]  BY <1>1, <2>4, <2>5, Cells DEF Settled, IInv, TypeOK
  <2>7. \A d \in NestedRuns(k) \ nested' : d # c => d \in Cell /\ d \notin nested
    BY <1>1, NestedType, Cells
  <2> QED  BY <1>6, <2>1, <2>2, <2>6, <2>7
<1>9. Recoverable(k, v)'
  BY <1>1, <1>3, <1>4, <1>7, <1>8 DEF Recoverable, NestedRuns
<1>10. dirty' /\ nested' \subseteq NestedRuns(k)
  BY <1>1, <1>2 DEF IInv, Control
<1> QED  BY <1>1, <1>2, <1>9, <1>10, StepWithinChecker

LEMMA StepCheckerDone ==
  ASSUME IInv, TypeOK', NEW k \in Checker, CheckerDone(k)
  PROVE  IInv'
<1> USE DEF IInv
<1>1. /\ Current(k) /\ First(k, todo) /\ phase = "run" /\ stage = "restore" /\ nested = {}
      /\ stage' = "none" /\ todo' = todo \ {k} /\ nested' = {} /\ dirty /\ dirty'
      /\ UNCHANGED <<old, active, retired, failed, phase, runs>>
  BY DEF CheckerDone, foldVars, Current, Control
<1>2. PICK v \in [Cell -> Value] : Recoverable(k, v)
  BY <1>1 DEF CheckerRecovers
<1>3. val = v
  <2>1. \A y \in Cell : val[y] = v[y]
    BY <1>1, <1>2 DEF Recoverable
  <2> QED  BY <2>1 DEF TypeOK
<1>4. DealtWith(val)
  BY <1>2, <1>3 DEF Recoverable
<1>5. PICK n \in Value : val' = [val EXCEPT ![k] = n]
  BY DEF CheckerDone, Partly
<1>6. ASSUME NEW d \in Callback, d # k, Settled(d, val, old)
      PROVE  Settled(d, val', old)
  <2>1. k \notin Reads[d]  BY CheckerAssumption
  <2>2. val[d] = val'[d] /\ \A y \in Reads[d] : val[y] = val'[y]
    BY <1>5, <1>6, <2>1 DEF TypeOK
  <2> QED  BY <1>6, <2>2, SettledStable
<1>7. DealtWith(val)'
  <2>1. ASSUME NEW d \in (runs \ todo') \ Checker
        PROVE  Settled(d, val', old)
    <3>1. d \in Callback /\ d # k /\ d \in (runs \ todo) \ Checker
      BY <1>1 DEF TypeOK
    <3> QED  BY <1>4, <1>6, <3>1 DEF DealtWith
  <2>2. ASSUME NEW d \in runs \cap retired, NEW a \in Up[d]
        PROVE  Settled(a, val', old)
    <3>1. a \in Callback /\ a # k
      BY RetiredConstant, UpConstant, Cells
    <3> QED  BY <1>4, <1>6, <3>1 DEF DealtWith
  <2> QED  BY <1>1, <2>1, <2>2 DEF DealtWith
<1>8. Control'
  <2>1. \A d \in (active \cap runs) \ todo', e \in todo' : d < e
    <3> TAKE d \in (active \cap runs) \ todo', e \in todo'
    <3>1. d \in Callback /\ e \in Callback /\ e # k  BY <1>1 DEF TypeOK
    <3> QED  BY <1>1, <3>1 DEF Control, First, Callback
  <2> QED  BY <1>1, <2>1 DEF Control, Running
<1>9. Partition' /\ RunsClosed' /\ RetiredUpstream'
  BY <1>1 DEF Partition, RunsClosed, RetiredUpstream
<1>10. LoopSettled' /\ CheckerRecovers'
  BY <1>1, <1>7 DEF LoopSettled, CheckerRecovers
<1> QED  BY <1>8, <1>9, <1>10

-----------------------------------------------------------------------------
(***************************************************************************)
(* The steps of the host.                                                  *)
(***************************************************************************)
\* Between updates only the retired callbacks matter, and who is active.
LEMMA StepIdle ==
  ASSUME IInv, TypeOK', ~Running, UNCHANGED <<loopVars, checkVars>>,
         Partition', RetiredUpstream'
  PROVE  IInv'
<1>1. phase' = "idle" /\ stage' = "none" /\ runs' = {} /\ nested' = {}
  BY DEF IInv, Control, Running, Current, loopVars, checkVars
<1>2. Control' /\ RunsClosed' /\ LoopSettled' /\ CheckerRecovers'
  BY <1>1 DEF Control, Running, RunsClosed, LoopSettled, CheckerRecovers
<1> QED  BY <1>2 DEF IInv

\* Histories and bound values are upstream of no constant.
LEMMA HeldApart ==
  ASSUME IInv, UNCHANGED <<retired, dirty>>,
         \A y \in Parameter \cup Constant : val'[y] = val[y]
  PROVE  RetiredUpstream'
<1> SUFFICES ASSUME ~dirty, NEW d \in retired
             PROVE  \A a \in Up[d] : Settled(a, val', old')
  BY DEF RetiredUpstream
<1>1. d \in Constant /\ \A a \in Up[d] : Settled(a, val, old)
  BY RetiredConstant DEF IInv, RetiredUpstream
<1>2. \A y \in Parameter \cup Up[d] : val[y] = val'[y]
  BY <1>1, UpConstant
<1> QED  BY <1>1, <1>2, ConstantStable

LEMMA StepBind ==
  ASSUME IInv, TypeOK', NEW e \in External, NEW o \in Value, NEW n \in Value, Bind(e, o, n)
  PROVE  IInv'
<1>1. \A y \in Parameter \cup Constant : val'[y] = val[y]
  BY CellFacts, ConstantFacts DEF Bind, IInv, TypeOK, Property
<1>2. Partition' /\ RetiredUpstream'
  BY <1>1, HeldApart DEF Bind, foldVars, IInv, Partition
<1> QED  BY <1>2, StepIdle DEF Bind

LEMMA StepWrite ==
  ASSUME IInv, TypeOK', NEW y \in Writable, NEW n \in Value, Write(y, n)
  PROVE  IInv'
<1>1. Partition' /\ RetiredUpstream'
  BY DEF Write, IInv, Partition, RetiredUpstream
<1> QED  BY <1>1, StepIdle DEF Write

LEMMA StepFoldConstants ==
  ASSUME IInv, TypeOK', NEW on \in BOOLEAN, FoldConstants(on) \/ VerifyConstants(on)
  PROVE  IInv'
<1>1. Partition' /\ RetiredUpstream'
  BY DEF FoldConstants, VerifyConstants, Reactivate, graphVars, IInv, Partition, RetiredUpstream
<1> QED  BY <1>1, StepIdle DEF FoldConstants, VerifyConstants

LEMMA StepCommitRevert ==
  ASSUME IInv, TypeOK', Commit \/ Revert
  PROVE  IInv'
<1>1. \A y \in Parameter \cup Constant : val'[y] = val[y]
  BY Cells, CellFacts, ConstantFacts DEF Commit, Revert, Cell, IInv, TypeOK
<1>2. Partition' /\ RetiredUpstream'
  BY <1>1, HeldApart DEF Commit, Revert, foldVars, IInv, Partition
<1> QED  BY <1>2, StepIdle DEF Commit, Revert

LEMMA StepUpdate ==
  ASSUME ExclusionsSpare, IInv, TypeOK',
         Update \/ \E t \in Callback, y \in Excludes : UpdateProperty(t, y)
  PROVE  IInv'
<1>1. CASE Update
  <2>1. \A c \in Callback \cap (Once \cup Checker) : Up[c] \subseteq Callback  BY UpIn
  <2> QED  BY <1>1, <2>1, StepStart DEF Update
<1>2. ASSUME NEW t \in Callback, NEW y \in Excludes, UpdateProperty(t, y)
      PROVE  IInv'
  <2> DEFINE r == Up[t] \ y
  <2>1. r \in SUBSET Callback  BY UpIn
  <2>2. \A c \in r \cap (Once \cup Checker) : Up[c] \subseteq r
    BY UpTransitive DEF ExclusionsSpare
  <2>3. Start(r)  BY <1>2 DEF UpdateProperty
  <2> HIDE DEF r
  <2> QED  BY <2>1, <2>2, <2>3, StepStart
<1> QED  BY <1>1, <1>2

-----------------------------------------------------------------------------
(***************************************************************************)
(* The invariant.                                                          *)
(***************************************************************************)
LEMMA InvInit == Init => IInv
<1> SUFFICES ASSUME Init  PROVE IInv
  OBVIOUS
<1>1. TypeOK  BY TypeInit
<1>2. Partition /\ Control /\ RunsClosed /\ RetiredUpstream /\ LoopSettled /\ CheckerRecovers
  BY DEF Init, Partition, Control, Running, RunsClosed, RetiredUpstream, LoopSettled,
         CheckerRecovers
<1> QED  BY <1>1, <1>2 DEF IInv

LEMMA InvStep ==
  ASSUME ExclusionsSpare, HistoriesReevaluated, IInv, [Next]_vars
  PROVE  IInv'
<1>1. TypeOK'  BY TypeStep DEF IInv
<1>2. CASE UNCHANGED vars
  BY <1>2 DEF vars, graphVars, foldVars, loopVars, checkVars, IInv, TypeOK, Partition, Control,
              Running, Current, RunsClosed, RetiredUpstream, LoopSettled, DealtWith,
              CheckerRecovers, Recoverable
<1>3. CASE StartLoop \/ Finish
  BY <1>1, <1>3, StepStartLoop, StepFinish
<1>4. ASSUME NEW c \in Callback,
             VerifyCallback(c) \/ VerifyThrows(c) \/ RunCallback(c) \/ CallbackThrows(c)
               \/ NestedRun(c)
      PROVE  IInv'
  BY <1>1, <1>4, StepVerifyCallback, StepVerifyThrows, StepRunCallback, StepCallbackThrows,
     StepNestedRun
<1>6. ASSUME NEW k \in Checker, Rethrow(k)
      PROVE  IInv'
  BY <1>1, <1>6, StepCheckerAborts DEF Rethrow
<1>7. ASSUME NEW k \in Checker,
             CheckerStart(k) \/ NextTrial(k) \/ RestoreState(k) \/ CheckerDone(k)
      PROVE  IInv'
  BY <1>1, <1>7, StepCheckerStart, StepNextTrial, StepRestoreState, StepCheckerDone
<1>8. ASSUME NEW k \in Checker, NEW c \in Callback, NestedThrows(k, c)
      PROVE  IInv'
  BY <1>1, <1>8, StepNestedThrows
<1>9. CASE EngineStep
  BY <1>3, <1>4, <1>6, <1>7, <1>8, <1>9 DEF EngineStep
<1>10. ASSUME NEW e \in External, NEW o \in Value, NEW n \in Value, Bind(e, o, n)
       PROVE  IInv'
  BY <1>1, <1>10, StepBind
<1>11. ASSUME NEW y \in Writable, NEW n \in Value, Write(y, n)
       PROVE  IInv'
  BY <1>1, <1>11, StepWrite
<1>12. ASSUME NEW on \in BOOLEAN, FoldConstants(on) \/ VerifyConstants(on)
       PROVE  IInv'
  BY <1>1, <1>12, StepFoldConstants
<1>13. CASE HostStep
  BY <1>1, <1>10, <1>11, <1>12, <1>13, StepUpdate, StepCommitRevert DEF HostStep
<1> QED  BY <1>2, <1>9, <1>13 DEF Next

\* The inductive invariant of the engine and of a checker that re-enters it, for every graph
\* and every order of the host's calls (property_engine::update, numerical_diff_checker).
THEOREM Invariant ==
  ASSUME ExclusionsSpare, HistoriesReevaluated
  PROVE  Spec => []IInv
<1>1. IInv /\ [Next]_vars => IInv'  BY InvStep
<1> QED  BY InvInit, <1>1, PTL DEF Spec

\* A callback is in the loop or retired, and only once-callbacks retire.
THEOREM PartitionHolds ==
  ASSUME ExclusionsSpare, HistoriesReevaluated
  PROVE  Spec => []Partition
<1>1. IInv => Partition  BY DEF IInv
<1> QED  BY <1>1, Invariant, PTL

\* What a retired callback filled in is what running it would fill in.
THEOREM RetiredAreSettledHolds ==
  ASSUME ExclusionsSpare, HistoriesReevaluated
  PROVE  Spec => []RetiredAreSettled
<1>1. IInv => RetiredAreSettled
  BY UpIn DEF IInv, TypeOK, RetiredUpstream, RetiredAreSettled
<1> QED  BY <1>1, Invariant, PTL

-----------------------------------------------------------------------------
(***************************************************************************)
(* What a step may never do.                                               *)
(***************************************************************************)
\* An update that completes does so in Finish.
LEMMA Completes ==
  ASSUME IInv, [Next]_vars, phase = "run", phase' = "idle", ~failed'
  PROVE  Finish
<1>1. Running /\ ~(UNCHANGED vars)  BY DEF Running, vars, loopVars
<1>2. ~HostStep
  BY <1>1 DEF HostStep, Update, UpdateProperty, Start, Bind, Write, FoldConstants,
              VerifyConstants, Commit, Revert
<1>3. EngineStep  BY <1>1, <1>2 DEF Next
<1>4. ASSUME NEW c \in Callback
      PROVE  /\ ~VerifyThrows(c) /\ ~CallbackThrows(c)
             /\ ~VerifyCallback(c) /\ ~RunCallback(c) /\ ~NestedRun(c)
  BY DEF VerifyThrows, CallbackThrows, Abort, VerifyCallback, RunCallback,
         NestedRun, loopVars
<1>5. ASSUME NEW k \in Checker
      PROVE  /\ ~CheckerStart(k) /\ ~NextTrial(k) /\ ~RestoreState(k) /\ ~CheckerDone(k)
             /\ ~Rethrow(k) /\ \A c \in Callback : ~NestedThrows(k, c)
  BY DEF CheckerStart, NextTrial, RestoreState, CheckerDone, Rethrow, Abort, NestedThrows,
         loopVars
<1> QED  BY <1>3, <1>4, <1>5 DEF EngineStep, StartLoop

\* The verification of the constants reports no constant that did not change.
THEOREM VerifyIsSilentHolds ==
  ASSUME ExclusionsSpare, HistoriesReevaluated
  PROVE  Spec => VerifyIsSilent
<1>1. ASSUME IInv, [Next]_vars, phase = "verify", failed'
      PROVE  \E c \in todo : ~AllFinite(c)
  <2>1. Running /\ ~failed /\ stage = "none" /\ ~dirty /\ todo \subseteq retired
    BY <1>1 DEF IInv, Control, Running, Current
  <2>2. PICK c \in Callback : VerifyThrows(c)
    <3>1. ~(UNCHANGED vars) /\ ~HostStep
      BY <1>1, <2>1 DEF vars, HostStep, Update, UpdateProperty, Start, Bind, Write,
                        FoldConstants, VerifyConstants, Commit, Revert
    <3>2. EngineStep  BY <1>1, <3>1 DEF Next
    <3> QED
      BY <1>1, <2>1, <3>2 DEF EngineStep, StartLoop, Finish, VerifyCallback, RunCallback,
         CallbackThrows, NestedRun, CheckerStart, NextTrial, RestoreState,
         CheckerDone, Rethrow, NestedThrows, Current, First, Control, IInv
  <2>3. Settled(c, val, old)
    BY <1>1, <2>1, <2>2, UpIn DEF VerifyThrows, IInv, TypeOK, RetiredUpstream
  <2> QED  BY <2>2, <2>3 DEF VerifyThrows, Settled
<1>2. IInv /\ [Next]_vars
        => [phase = "verify" /\ failed' => \E c \in todo : ~AllFinite(c)]_vars
  BY <1>1
<1> QED  BY <1>2, Invariant, PTL DEF Spec, VerifyIsSilent

\* After a complete update exactly the once-callbacks are out of the loop.
THEOREM OnceRunOnceHolds ==
  ASSUME ExclusionsSpare, HistoriesReevaluated
  PROVE  Spec => OnceRunOnce
<1>1. ASSUME IInv, [Next]_vars, phase = "run", phase' = "idle", ~failed', runs = Callback, fold
      PROVE  retired' = Once
  <2>1. Finish  BY <1>1, Completes
  <2>2. retired \subseteq Once /\ active = Callback \ retired /\ Once \subseteq Callback
    BY <1>1, Cells DEF IInv, Partition
  <2>3. CASE Cardinality(retired) = Cardinality(Once)
    <3>1. IsFiniteSet(Once)
      <4>1. IsFiniteSet(Callback)  BY CellFacts, FS_Interval DEF Callback
      <4> QED  BY <2>2, <4>1, FS_Subset
    <3>2. retired = Once  BY <2>2, <2>3, <3>1, FS_Subset
    <3> QED  BY <2>1, <2>3, <3>2 DEF Finish, Retire
  <2>4. CASE Cardinality(retired) # Cardinality(Once)
    <3>1. retired' = retired \cup (active \cap Once \cap runs)
      BY <1>1, <2>1, <2>4 DEF Finish, Retire
    <3> QED  BY <1>1, <2>2, <3>1
  <2> QED  BY <2>3, <2>4
<1>2. IInv /\ [Next]_vars
        => [phase = "run" /\ phase' = "idle" /\ ~failed' /\ runs = Callback /\ fold
              => retired' = Once]_vars
  BY <1>1
<1> QED  BY <1>2, Invariant, PTL DEF Spec, OnceRunOnce

\* A complete update leaves what evaluating every callback in order would.
THEOREM UpdateMatchesReferenceHolds ==
  ASSUME ExclusionsSpare, HistoriesReevaluated
  PROVE  Spec => UpdateMatchesReference
<1>1. ASSUME IInv, [Next]_vars, phase = "run", phase' = "idle", ~failed', runs = Callback
      PROVE  \A c \in Callback \ Checker : Settled(c, val', old')
  <2>1. Finish  BY <1>1, Completes
  <2>2. todo = {} /\ val' = val /\ old' = old  BY <2>1 DEF Finish, graphVars
  <2>3. stage = "none"  BY <1>1, <2>2 DEF IInv, Control, Current, First
  <2> QED  BY <1>1, <2>2, <2>3 DEF IInv, LoopSettled, DealtWith
<1>2. IInv /\ [Next]_vars
        => [phase = "run" /\ phase' = "idle" /\ ~failed' /\ runs = Callback
              => \A c \in Callback \ Checker : Settled(c, val', old')]_vars
  BY <1>1
<1> QED  BY <1>2, Invariant, PTL DEF Spec, UpdateMatchesReference

\* Putting the input back repeats what succeeded before the trials.
LEMMA Repeats == IInv => RestoreSucceeds
<1> SUFFICES ASSUME IInv, stage \in {"restore", "rethrow"}, NEW c \in nested, First(c, nested)
             PROVE  ~Throws(c, val, old)
  BY DEF RestoreSucceeds
<1>1. PICK k \in Checker : Current(k) /\ nested \subseteq NestedRuns(k)
  BY DEF IInv, Control
<1>2. PICK v \in [Cell -> Value] : Recoverable(k, v)
  BY <1>1 DEF IInv, CheckerRecovers
<1>3. c \in Callback /\ Settled(c, v, old)
  BY <1>1, <1>2, NestedDealtWith, NestedType DEF Recoverable, DealtWith
<1>4. \A y \in Reads[c] : val[y] = v[y]
  BY <1>1, <1>2, <1>3, RestoredReads
<1> QED  BY <1>3, <1>4, SameView DEF Settled

\* The re-evaluation that puts the input back never throws, so the code may leave it
\* outside of its try block (numerical_diff_checker, restore_state).
THEOREM RestoreSucceedsHolds ==
  ASSUME ExclusionsSpare, HistoriesReevaluated
  PROVE  Spec => []RestoreSucceeds
BY Repeats, Invariant, PTL

\* A trial evaluates the target at the perturbed input as long as the input of a checker is
\* not filled in by the callback of another output, the one update_property() does not know
\* to leave out (numerical_diff_checker::compute, property_engine::update_property).
THEOREM TrialHoldsInputUnrouted ==
  ASSUME ExclusionsSpare, HistoriesReevaluated, \A k \in Routed : Input[k] \notin Up[Target[k]]
  PROVE  Spec => TrialHoldsInput
<1>1. ASSUME IInv, [Next]_vars,
             NEW k \in Checker, Current(k), stage = "trial", stage' = "trial", left' = left
      PROVE  val'[Input[k]] = val[Input[k]]
  <2>1. /\ phase = "run" /\ Running /\ First(k, todo) /\ left \in Nat
        /\ todo \subseteq Callback /\ Callback \subseteq Int
    BY <1>1, DefaultType, Cells, CellFacts DEF Current, Running, IInv, TypeOK, Callback
  <2>2. CASE UNCHANGED vars
    BY <2>2 DEF vars, graphVars
  <2>3. ~HostStep
    BY <2>1 DEF HostStep, Update, UpdateProperty, Start, Bind, Write, FoldConstants,
                VerifyConstants, Commit, Revert
  <2>4. ~StartLoop /\ ~Finish
    BY <2>1 DEF StartLoop, Finish, First
  <2>5. ASSUME NEW c \in Callback
        PROVE  /\ ~VerifyCallback(c) /\ ~VerifyThrows(c) /\ ~RunCallback(c) /\ ~CallbackThrows(c)
    BY <1>1, <2>1 DEF VerifyCallback, VerifyThrows, RunCallback, CallbackThrows, First
  <2>6. ASSUME NEW j \in Checker
        PROVE  /\ ~CheckerStart(j) /\ ~NextTrial(j) /\ ~RestoreState(j) /\ ~CheckerDone(j)
               /\ ~Rethrow(j) /\ \A c \in Callback : ~NestedThrows(j, c)
    BY <1>1, <2>1 DEF CheckerStart, NextTrial, RestoreState, CheckerDone, Rethrow, NestedThrows, Abort
  <2>7. ASSUME NEW c \in Callback, NestedRun(c) PROVE val'[Input[k]] = val[Input[k]]
    <3>1. PICK j \in Checker : Current(j) /\ nested \subseteq NestedRuns(j)
      BY <1>1 DEF IInv, Control
    <3>2. j = k
      <4>1. First(j, todo) /\ First(k, todo)
        BY <2>1, <3>1 DEF Current
      <4>2. j \in Int /\ k \in Int /\ j <= k /\ k <= j
        BY <2>1, <4>1 DEF First
      <4> QED
        BY <4>2
    <3>3. c \in NestedRuns(k)
      BY <2>7, <3>1, <3>2 DEF NestedRun, First
    <3>4. Input[k] \notin NestedRuns(k)
      BY DEF NestedRuns
    <3>5. val' = [val EXCEPT ![c] = Out(c, val, old)] /\ val \in [Cell -> Value] /\ Input[k] \in Cell
      BY <1>1, <2>7, NestedType DEF NestedRun, Fill, IInv, TypeOK
    <3> QED
      BY <3>3, <3>4, <3>5
  <2> QED
    BY <1>1, <2>2, <2>3, <2>4, <2>5, <2>6, <2>7 DEF Next, EngineStep
<1>2. IInv /\ [Next]_vars
        => [\A k \in Checker : Current(k) /\ stage = "trial" /\ stage' = "trial" /\ left' = left
              => val'[Input[k]] = val[Input[k]]]_vars
  BY <1>1
<1> QED  BY <1>2, Invariant, PTL DEF Spec, TrialHoldsInput

-----------------------------------------------------------------------------
(***************************************************************************)
(* The refinement: PropertyEngine implements ReferenceEngine for every     *)
(* finalized graph; each of its steps is a step of the reference or cannot *)
(* be seen there.  The mapping first.                                      *)
(***************************************************************************)
\* Both have the same graph.
LEMMA SameGraph ==
  /\ Ref!Callback = Callback /\ Ref!Cell = Cell /\ Ref!Held = Held /\ Ref!Up = Up
  /\ \A c, v, o : Ref!Throws(c, v, o) <=> Throws(c, v, o)
  /\ \A c, v, o : Ref!Settled(c, v, o) <=> Settled(c, v, o)
<1>1. Ref!Callback = Callback /\ Ref!Property = Property
  BY DEF Ref!Callback, Callback, Ref!Property, Property
<1>2. Ref!Cell = Cell /\ Ref!Held = Held /\ \A S : Ref!Closed(S) = Closed(S)
  BY <1>1 DEF Ref!Cell, Cell, Ref!Held, Held, Ref!Closed, Closed
<1>3. Ref!Up = Up
  BY <1>1, <1>2 DEF Ref!Up, Up
<1>4. /\ \A c, v, o : Ref!Throws(c, v, o) <=> Throws(c, v, o)
      /\ \A c, v, o : Ref!Out(c, v, o) = Out(c, v, o)
  BY Zenon DEF Ref!Throws, Throws, Ref!Out, Out
<1> QED
  BY <1>1, <1>2, <1>3, <1>4 DEF Ref!Settled, Settled

\* Outside of a checker nothing is perturbed.
LEMMA NothingPerturbed ==
  ASSUME stage = "none"
  PROVE  \A x : Unperturbed(x) = val[x]
BY DEF Unperturbed

\* Within one, its input is.
LEMMA InputPerturbed ==
  ASSUME TypeOK, NEW k \in Checker, Current(k), stage # "none"
  PROVE  \A x : Unperturbed(x) = IF x = Input[k] THEN saved ELSE val[x]
BY OneChecker DEF Unperturbed

\* At the end of the restoration the input is back, whatever its kind.
LEMMA InputRestored ==
  ASSUME IInv, NEW k \in Checker, Current(k), stage \in {"restore", "rethrow"}, nested = {}
  PROVE  val[Input[k]] = saved
<1>1. PICK v \in [Cell -> Value] : Recoverable(k, v)
  BY DEF IInv, CheckerRecovers
<1> QED
  BY <1>1 DEF Recoverable

\* What is upstream of a checker is part of its update.
LEMMA InputRuns ==
  ASSUME IInv, NEW k \in Checker, Current(k)
  PROVE  /\ k \in runs /\ NestedRuns(k) \subseteq runs
         /\ Input[k] \in Callback => Input[k] \in runs
<1>1. k \in Callback /\ k \in runs /\ Input[k] \in Reads[k]
  BY CheckerAssumption DEF IInv, TypeOK, Current, First
<1>2. Input[k] \in Callback => Input[k] \in Up[k]
  BY <1>1, UpIn, UpClosed
<1> QED
  BY <1>1, <1>2, NestedDealtWith DEF IInv, RunsClosed

\* A step within an update shows in the reference only what is neither a source nor
\* outside of the update.
LEMMA Unseen ==
  ASSUME Running, Running', UNCHANGED <<old, runs>>,
         \A x \in Parameter \cup External : Unperturbed(x)' = Unperturbed(x),
         \A c \in Callback \ runs : val'[c] = val[c]
  PROVE  UNCHANGED Ref!vars
BY SMT DEF Ref!vars

-----------------------------------------------------------------------------
(***************************************************************************)
(* The steps of an update.                                                 *)
(***************************************************************************)
LEMMA StartRefines ==
  ASSUME IInv, NEW r \in SUBSET Callback, Start(r)
  PROVE  Ref!Begin(r)
<1>1. /\ ~Running /\ ~failed /\ Running' /\ runs = {} /\ runs' = r
      /\ stage = "none" /\ stage' = "none" /\ val' = val /\ old' = old
  BY DEF Start, Running, IInv, Control, Current, graphVars, checkVars
<1>2. \A x : Unperturbed(x) = val[x] /\ Unperturbed(x)' = val[x]
  BY <1>1, NothingPerturbed DEF Unperturbed
<1> QED
  BY <1>1, <1>2, SameGraph DEF Ref!Begin

\* A callback of the update fills its outputs.
LEMMA FillUnseen ==
  ASSUME IInv, Running, Running', UNCHANGED <<old, runs, stage, saved>>,
         stage = "none" \/ UNCHANGED <<phase, todo>>,
         NEW c \in runs, NEW v, val' = [val EXCEPT ![c] = v]
  PROVE  UNCHANGED Ref!vars
<1>1. c \in Callback /\ c \notin Parameter \cup External
  BY CellFacts DEF IInv, TypeOK, Property
<1>2. \A x \in Parameter \cup External : val'[x] = val[x]
  BY <1>1 DEF IInv, TypeOK, Cell, Property
<1>3. \A x \in Parameter \cup External : Unperturbed(x)' = Unperturbed(x)
  BY <1>2 DEF Unperturbed, Current
<1>4. \A d \in Callback \ runs : val'[d] = val[d]
  BY Cells DEF IInv, TypeOK
<1> QED
  BY <1>3, <1>4, Unseen

LEMMA LoopUnseen ==
  ASSUME IInv,
         StartLoop \/ \E c \in Callback : VerifyCallback(c) \/ RunCallback(c) \/ NestedRun(c)
  PROVE  UNCHANGED Ref!vars
<1>1. CASE StartLoop
  <2>1. /\ Running /\ Running' /\ UNCHANGED <<old, runs, val>> /\ stage = "none" /\ stage' = "none"
    BY <1>1 DEF StartLoop, Running, IInv, Control, Current, graphVars, checkVars
  <2>2. \A x : Unperturbed(x)' = Unperturbed(x)
    BY <2>1 DEF Unperturbed
  <2> QED
    BY <2>1, <2>2, Unseen
<1>2. ASSUME NEW c \in Callback, VerifyCallback(c)
      PROVE  UNCHANGED Ref!vars
  <2>1. /\ Running /\ Running' /\ UNCHANGED <<old, runs, stage, saved>> /\ stage = "none"
        /\ c \in runs /\ val' = [val EXCEPT ![c] = Out(c, val, old)]
    BY <1>2 DEF VerifyCallback, Fill, Running, IInv, TypeOK, Control, Current, checkVars
  <2> QED
    BY <2>1, FillUnseen
<1>3. ASSUME NEW c \in Callback, RunCallback(c)
      PROVE  UNCHANGED Ref!vars
  <2>1. /\ Running /\ Running' /\ UNCHANGED <<old, runs, stage, saved>>
        /\ c \in runs /\ val' = [val EXCEPT ![c] = Out(c, val, old)]
    BY <1>3 DEF RunCallback, Fill, First, Running, IInv, TypeOK, checkVars
  <2>2. stage = "none"
    BY <1>3, CheckerAssumption DEF RunCallback, First, Callback, IInv, Control, Current
  <2> QED
    BY <2>1, <2>2, FillUnseen
<1>4. ASSUME NEW c \in Callback, NestedRun(c)
      PROVE  UNCHANGED Ref!vars
  <2>1. PICK k \in Checker : Current(k) /\ nested \subseteq NestedRuns(k)
    BY <1>4 DEF NestedRun, IInv, Control
  <2>2. c \in runs
    BY <1>4, <2>1, InputRuns DEF NestedRun, First
  <2>3. /\ Running /\ Running' /\ UNCHANGED <<old, runs, stage, saved, phase, todo>>
        /\ val' = [val EXCEPT ![c] = Out(c, val, old)]
    BY <1>4, <2>1 DEF NestedRun, Fill, Running, Current, loopVars
  <2> QED
    BY <2>2, <2>3, FillUnseen
<1> QED
  BY <1>1, <1>2, <1>3, <1>4

\* A checker sets the input, to whatever it is, and reverts histories it re-evaluates.
LEMMA InputUnseen ==
  ASSUME HistoriesReevaluated, IInv, TypeOK', NEW k \in Checker, Current(k), stage' # "none",
         UNCHANGED <<old, runs, phase, todo>>,
         saved' = IF stage = "none" THEN val[Input[k]] ELSE saved,
         NEW values, \A x \in Cell \ NestedRuns(k) : values[x] = val[x],
         NEW v, val' = WithInput(k, v, values)
  PROVE  UNCHANGED Ref!vars
<1>1. Running /\ Running' /\ Current(k)' /\ TypeOK
  BY DEF Running, Current, IInv
<1>2. \A x \in Cell \ (NestedRuns(k) \cup {Input[k]}) : val'[x] = val[x]
  BY WithInputKeeps
<1>3. NestedRuns(k) \subseteq Callback
  BY NestedType
<1>4. ASSUME NEW x \in Parameter \cup External
      PROVE  Unperturbed(x)' = Unperturbed(x)
  <2>1. x \in Cell \ NestedRuns(k)
    BY <1>3, CellFacts DEF Cell, Property
  <2>2. Unperturbed(x)' = IF x = Input[k] THEN saved' ELSE val'[x]
    <3>1. \A j \in Checker : Current(j)' => j = k
      BY <1>1, CheckerAssumption DEF Current, First, Callback, TypeOK
    <3> QED
      BY <1>1, <3>1 DEF Unperturbed
  <2>3. CASE stage = "none"
    BY <1>2, <2>1, <2>2, <2>3, NothingPerturbed
  <2>4. CASE stage # "none"
    BY <1>1, <1>2, <2>1, <2>2, <2>4, InputPerturbed
  <2> QED
    BY <2>3, <2>4
<1>5. \A c \in Callback \ runs : val'[c] = val[c]
  BY <1>2, InputRuns, Cells
<1> QED
  BY <1>1, <1>4, <1>5, Unseen

LEMMA CheckerUnseen ==
  ASSUME HistoriesReevaluated, IInv, TypeOK', NEW k \in Checker,
         CheckerStart(k) \/ NextTrial(k) \/ RestoreState(k)
  PROVE  UNCHANGED Ref!vars
<1>1. CASE CheckerStart(k)
  <2>1. PICK v \in Value : val' = WithInput(k, v, val)
    BY <1>1 DEF CheckerStart, Perturb
  <2>2. /\ Current(k) /\ stage' # "none" /\ UNCHANGED <<old, runs, phase, todo>>
        /\ saved' = IF stage = "none" THEN val[Input[k]] ELSE saved
    BY <1>1 DEF CheckerStart, loopVars
  <2> QED
    BY <2>1, <2>2, InputUnseen
<1>2. CASE NextTrial(k)
  <2>1. PICK v \in Value : val' = WithInput(k, v, val)
    BY <1>2 DEF NextTrial, Perturb
  <2>2. /\ Current(k) /\ stage' # "none" /\ UNCHANGED <<old, runs, phase, todo>>
        /\ saved' = IF stage = "none" THEN val[Input[k]] ELSE saved
    BY <1>2 DEF NextTrial, loopVars
  <2> QED
    BY <2>1, <2>2, InputUnseen
<1>3. CASE RestoreState(k)
  <2>1. val' = WithInput(k, saved, val)
    BY <1>3 DEF RestoreState, Restore
  <2>2. /\ Current(k) /\ stage' # "none" /\ UNCHANGED <<old, runs, phase, todo>>
        /\ saved' = IF stage = "none" THEN val[Input[k]] ELSE saved
    BY <1>3 DEF RestoreState, loopVars
  <2> QED
    BY <2>1, <2>2, InputUnseen
<1> QED
  BY <1>1, <1>2, <1>3

\* A trial that throws is not seen yet: the restoration comes first, and does not throw.
LEMMA TrialThrowsUnseen ==
  ASSUME HistoriesReevaluated, IInv, TypeOK', NEW k \in Checker, NEW c \in Callback,
         NestedThrows(k, c)
  PROVE  UNCHANGED Ref!vars
<1>1. Current(k) /\ First(c, nested) /\ Throws(c, val, old)
  BY DEF NestedThrows
<1>2. PICK j \in Checker : Current(j) /\ nested \subseteq NestedRuns(j) /\ stage # "none"
  BY <1>1 DEF IInv, Control, First
<1>3. c \in NestedRuns(k)
  BY <1>1, <1>2, OneChecker DEF IInv, First
<1>4. stage = "trial"
  <2>1. stage \in {"restore", "rethrow"} => ~Throws(c, val, old)
    BY <1>1, Repeats DEF RestoreSucceeds, First
  <2> QED
    BY <1>1, <1>2, <2>1 DEF IInv, TypeOK
<1>5. PICK v \in Value : Restore(k, [val EXCEPT ![c] = v])
  BY <1>4 DEF NestedThrows
<1>6. \A x \in Cell \ NestedRuns(k) : [val EXCEPT ![c] = v][x] = val[x]
  BY <1>3 DEF IInv, TypeOK
<1>7. /\ stage' # "none" /\ UNCHANGED <<old, runs, phase, todo>>
      /\ saved' = IF stage = "none" THEN val[Input[k]] ELSE saved
      /\ val' = WithInput(k, saved, [val EXCEPT ![c] = v])
  BY <1>4, <1>5 DEF NestedThrows, Restore, loopVars
<1> QED
  BY <1>1, <1>6, <1>7, InputUnseen

LEMMA CheckerDoneUnseen ==
  ASSUME IInv, NEW k \in Checker, CheckerDone(k)
  PROVE  UNCHANGED Ref!vars
<1>1. /\ Current(k) /\ stage = "restore" /\ nested = {} /\ stage' = "none"
      /\ Running /\ Running' /\ UNCHANGED <<old, runs>> /\ TypeOK
  BY DEF CheckerDone, Running, Current, IInv
<1>2. PICK v \in Value : val' = [val EXCEPT ![k] = v]
  BY DEF CheckerDone, Partly
<1>3. k \in runs /\ k \in Callback /\ k \notin Parameter \cup External
  BY <1>1, InputRuns, CheckerAssumption, CellFacts DEF Property
<1>4. ASSUME NEW x \in Parameter \cup External
      PROVE  Unperturbed(x)' = Unperturbed(x)
  <2>1. Unperturbed(x)' = val'[x] /\ val'[x] = val[x]
    BY <1>1, <1>2, <1>3 DEF Unperturbed, TypeOK, Cell, Property
  <2>2. Unperturbed(x) = val[x]
    BY <1>1, InputPerturbed, InputRestored
  <2> QED
    BY <2>1, <2>2
<1>5. \A c \in Callback \ runs : val'[c] = val[c]
  BY <1>1, <1>2, <1>3, Cells DEF TypeOK
<1> QED
  BY <1>1, <1>4, <1>5, Unseen

-----------------------------------------------------------------------------
(***************************************************************************)
(* The ends of an update.                                                  *)
(***************************************************************************)
\* The cells of the reference are those of the engine where nothing is perturbed.
LEMMA SameCells ==
  ASSUME TypeOK, \A x \in Parameter \cup External : Unperturbed(x) = val[x]
  PROVE  Ref!With([c \in Callback |-> val[c]]) = val
<1>1. \A x \in Cell \ Callback : x \in Parameter \cup External
  BY DEF Cell, Property
<1> QED
  BY <1>1, SameGraph DEF Ref!With, TypeOK

\* An update fails at the callback c, on inputs that are settled.
LEMMA FailRefines ==
  ASSUME IInv, TypeOK', Running, Abort,
         \A x \in Parameter \cup External : Unperturbed(x) = val[x] /\ val'[x] = val[x],
         \A d \in Callback \ runs : val'[d] = val[d],
         NEW c \in runs,
         \A a \in (runs \cap Up[c]) \ ({c} \cup Checker) : Settled(a, val, old),
         \/ c \in Checker
         \/ Throws(c, val, old)
         \/ c \in Once /\ ~AllFinite(c) /\ Settled(c, val, old)
  PROVE  Ref!Fail
<1> DEFINE f == [d \in Callback |-> val[d]]
           g == [d \in Callback |-> val'[d]]
<1>1. /\ ~Running' /\ failed' /\ runs' = {} /\ stage' = "none" /\ old' = old
      /\ runs \subseteq Callback /\ TypeOK
  BY DEF Abort, Running, IInv, TypeOK
<1>2. f \in Ref!Results /\ g \in Ref!Results
  BY Cells, SameGraph DEF IInv, TypeOK, Ref!Results
<1>3. Ref!Keeps(f) /\ Ref!Keeps(g)
  BY SameGraph DEF Ref!Keeps
<1>4. Ref!With(f) = val
  BY <1>1, SameCells
<1>5. Ref!Evaluated(f, (runs \cap Ref!Up[c]) \ {c})
  BY <1>4, SameGraph DEF Ref!Evaluated
<1>6. Ref!MayFail(c, f)
  <2>1. \A d \in Callback : f[d] = val[d]
    OBVIOUS
  <2>2. ASSUME c \in Once
        PROVE  Checks[c] \subseteq Callback
    BY <2>2, ChecksAssumption, ConstantFacts
  <2> HIDE DEF f
  <2> QED
    BY <1>1, <1>4, <2>1, <2>2, SameGraph DEF Ref!MayFail, AllFinite
<1>7. [x \in Parameter \cup External |-> Unperturbed(x)]' = [x \in Parameter \cup External |-> Unperturbed(x)]
  BY <1>1 DEF Unperturbed
<1>8. [d \in Callback \ runs |-> val[d]]' = g
  BY <1>1
<1> HIDE DEF f, g
<1> QED
  BY <1>1, <1>2, <1>3, <1>5, <1>6, <1>7, <1>8 DEF Ref!Fail

LEMMA ThrowRefines ==
  ASSUME IInv, TypeOK', NEW c \in Callback, VerifyThrows(c) \/ CallbackThrows(c)
  PROVE  Ref!Fail
<1>1. Abort /\ Running /\ c \in todo /\ c \in runs /\ TypeOK
  BY DEF VerifyThrows, CallbackThrows, First, Running, IInv, TypeOK
<1>2. stage = "none"
  BY CheckerAssumption DEF VerifyThrows, CallbackThrows, First, Callback, IInv, Control, Current
<1>3. \E v : val' = [val EXCEPT ![c] = v]
  BY DEF VerifyThrows, CallbackThrows, Partly, Fill
<1>4. c \notin Parameter \cup External
  BY CellFacts DEF Property
<1>5. \A x \in Parameter \cup External : Unperturbed(x) = val[x] /\ val'[x] = val[x]
  BY <1>1, <1>2, <1>3, <1>4, NothingPerturbed DEF TypeOK, Cell, Property
<1>6. \A d \in Callback \ runs : val'[d] = val[d]
  BY <1>1, <1>3, Cells DEF TypeOK
<1>7. CASE VerifyThrows(c)
  <2>1. c \in retired /\ ~dirty
    BY <1>1, <1>7 DEF VerifyThrows, IInv, Control
  <2>2. \A a \in Up[c] : Settled(a, val, old)
    BY <2>1 DEF IInv, RetiredUpstream
  <2>3. c \in Once /\ Settled(c, val, old)
    BY <2>1, <2>2, UpIn DEF IInv, Partition
  <2>4. ~AllFinite(c)
    BY <1>7, <2>3 DEF VerifyThrows, Settled
  <2> QED
    BY <1>1, <1>5, <1>6, <2>2, <2>3, <2>4, FailRefines
<1>8. CASE CallbackThrows(c)
  <2>1. Throws(c, val, old) /\ phase = "run" /\ First(c, todo)
    BY <1>8 DEF CallbackThrows
  <2>2. ASSUME NEW a \in (runs \cap Up[c]) \ ({c} \cup Checker)
        PROVE  Settled(a, val, old)
    <3>1. a <= c /\ a \in Callback
      BY <2>2, UpBelow, UpIn
    <3>2. a \notin todo
      BY <2>1, <2>2, <3>1 DEF First, Callback
    <3> QED
      BY <1>2, <2>1, <2>2, <3>2 DEF IInv, LoopSettled, DealtWith
  <2> QED
    BY <1>1, <1>5, <1>6, <2>1, <2>2, FailRefines
<1> QED
  BY <1>7, <1>8

\* The exception of a trial goes on when everything is as it was before.
LEMMA RethrowRefines ==
  ASSUME IInv, TypeOK', NEW k \in Checker, Rethrow(k)
  PROVE  Ref!Fail
<1>1. /\ Abort /\ Running /\ Current(k) /\ stage = "rethrow" /\ nested = {} /\ val' = val
      /\ k \in runs /\ k \in Callback /\ TypeOK
  BY InputRuns, CheckerAssumption DEF Rethrow, Current, Running, IInv
<1>2. \A x \in Parameter \cup External : Unperturbed(x) = val[x] /\ val'[x] = val[x]
  BY <1>1, InputPerturbed, InputRestored
<1>3. PICK v \in [Cell -> Value] : Recoverable(k, v)
  BY <1>1 DEF IInv, CheckerRecovers
<1>4. val = v
  <2>1. \A y \in Cell : val[y] = v[y]
    BY <1>1, <1>3 DEF Recoverable
  <2> QED
    BY <1>1, <2>1 DEF TypeOK
<1>5. ASSUME NEW a \in (runs \cap Up[k]) \ ({k} \cup Checker)
      PROVE  Settled(a, val, old)
  <2>1. a <= k /\ a \in Callback
    BY <1>1, <1>5, UpBelow, UpIn
  <2>2. a \notin todo
    BY <1>1, <1>5, <2>1 DEF Current, First, Callback
  <2> QED
    BY <1>3, <1>4, <1>5, <2>2 DEF Recoverable, DealtWith
<1>6. \A d \in Callback \ runs : val'[d] = val[d]
  BY <1>1
<1> QED
  BY <1>1, <1>2, <1>5, <1>6, FailRefines

LEMMA FinishRefines ==
  ASSUME IInv, Finish
  PROVE  Ref!Complete
<1> DEFINE f == [d \in Callback |-> val[d]]
<1>1. /\ phase = "run" /\ todo = {} /\ phase' = "idle" /\ runs' = {} /\ TypeOK
      /\ UNCHANGED <<val, old, failed, stage>>
  BY DEF Finish, graphVars, checkVars, IInv
<1>2. stage = "none" /\ ~failed /\ Running /\ ~Running'
  BY <1>1 DEF IInv, Control, Current, First, Running
<1>3. f \in Ref!Results /\ Ref!Keeps(f)
  BY <1>1, Cells, SameGraph DEF TypeOK, Ref!Results, Ref!Keeps
<1>4. Ref!With(f) = val
  BY <1>1, <1>2, SameCells, NothingPerturbed
<1>5. Ref!Evaluated(f, runs)
  BY <1>1, <1>2, <1>4, SameGraph DEF Ref!Evaluated, IInv, LoopSettled, DealtWith
<1>6. [x \in Parameter \cup External |-> Unperturbed(x)]' = [x \in Parameter \cup External |-> Unperturbed(x)]
  BY <1>1, <1>2 DEF Unperturbed
<1>7. [d \in Callback \ runs |-> val[d]]' = f
  BY <1>1
<1> HIDE DEF f
<1> QED
  BY <1>1, <1>2, <1>3, <1>5, <1>6, <1>7 DEF Ref!Complete

-----------------------------------------------------------------------------
(***************************************************************************)
(* The host.                                                               *)
(***************************************************************************)
\* Between updates the reference has the cells as they are.
LEMMA Idle ==
  ASSUME IInv, ~Running, UNCHANGED <<loopVars, checkVars>>
  PROVE  /\ ~Running' /\ runs = {} /\ runs' = {} /\ TypeOK
         /\ \A x : Unperturbed(x) = val[x] /\ Unperturbed(x)' = val'[x]
<1>1. stage = "none" /\ stage' = "none" /\ ~Running'
  BY DEF IInv, Control, Current, Running, loopVars, checkVars
<1> QED
  BY <1>1 DEF IInv, Control, Unperturbed, loopVars

LEMMA BindRefines ==
  ASSUME IInv, NEW e \in External, NEW o \in Value, NEW n \in Value, Bind(e, o, n)
  PROVE  Ref!Bind(e, o, n)
<1>1. /\ ~Running /\ ~Running' /\ runs = {} /\ runs' = {} /\ TypeOK /\ failed' = failed
      /\ \A x : Unperturbed(x) = val[x] /\ Unperturbed(x)' = val'[x]
      /\ val' = [val EXCEPT ![e] = n] /\ old' = [old EXCEPT ![e] = o]
  BY Idle DEF Bind
<1>2. e \in Cell /\ e \notin Callback /\ Parameter \cup External \subseteq Cell
  BY CellFacts DEF Cell, Property
<1>3. [x \in Parameter \cup External |-> Unperturbed(x)]'
        = [[x \in Parameter \cup External |-> Unperturbed(x)] EXCEPT ![e] = n]
  BY <1>1, <1>2 DEF TypeOK
<1>4. [c \in Callback \ runs |-> val[c]]' = [c \in Callback \ runs |-> val[c]]
  BY <1>1, <1>2, Cells DEF TypeOK
<1> QED
  BY <1>1, <1>3, <1>4 DEF Ref!Bind, Ref!Assign

LEMMA WriteRefines ==
  ASSUME IInv, NEW y \in Cell, NEW n \in Value, Write(y, n)
  PROVE  Ref!Write(y, n)
<1>1. /\ ~Running /\ ~Running' /\ runs = {} /\ runs' = {} /\ TypeOK /\ failed' = failed
      /\ \A x : Unperturbed(x) = val[x] /\ Unperturbed(x)' = val'[x]
      /\ val' = [val EXCEPT ![y] = n] /\ old' = old
  BY Idle DEF Write
<1>2. Parameter \cup External \subseteq Cell /\ Callback \subseteq Cell
  BY Cells DEF Cell, Property
<1>3. [x \in Parameter \cup External |-> Unperturbed(x)]'
        = Ref!Assign([x \in Parameter \cup External |-> Unperturbed(x)], y, n)
  BY <1>1, <1>2 DEF TypeOK, Ref!Assign
<1>4. [c \in Callback \ runs |-> val[c]]'
        = Ref!Assign([c \in Callback \ runs |-> val[c]], y, n)
  BY <1>1, <1>2 DEF TypeOK, Ref!Assign
<1> QED
  BY <1>1, <1>3, <1>4 DEF Ref!Write

LEMMA SwitchUnseen ==
  ASSUME IInv, NEW on \in BOOLEAN, FoldConstants(on) \/ VerifyConstants(on)
  PROVE  UNCHANGED Ref!vars
<1>1. /\ ~Running /\ ~Running' /\ runs = {} /\ runs' = {} /\ failed' = failed
      /\ \A x : Unperturbed(x) = val[x] /\ Unperturbed(x)' = val'[x]
      /\ val' = val /\ old' = old
  BY Idle DEF FoldConstants, VerifyConstants, graphVars
<1> QED
  BY <1>1 DEF Ref!vars

LEMMA CommitRefines ==
  ASSUME IInv, Commit
  PROVE  Ref!Commit
<1> DEFINE f == [c \in Callback \ runs |-> val[c]]
<1>1. /\ ~Running /\ ~Running' /\ runs = {} /\ runs' = {} /\ TypeOK /\ ~failed /\ ~failed'
      /\ \A x : Unperturbed(x) = val[x] /\ Unperturbed(x)' = val'[x]
      /\ val' = val /\ old' = [h \in Held |-> val[h]]
  BY Idle DEF Commit
<1>2. f = [c \in Callback |-> val[c]] /\ f' = f
  BY <1>1
<1>3. Ref!With(f) = val
  BY <1>1, <1>2, SameCells
<1>4. [x \in Parameter \cup External |-> Unperturbed(x)]' = [x \in Parameter \cup External |-> Unperturbed(x)]
  BY <1>1
<1>5. old' = [h \in Ref!Held |-> Ref!With(f)[h]]
  BY <1>1, <1>3, SameGraph
<1> HIDE DEF f
<1> QED
  BY <1>1, <1>2, <1>4, <1>5 DEF Ref!Commit, f

LEMMA RevertRefines ==
  ASSUME IInv, Revert
  PROVE  Ref!Revert
<1>1. /\ ~Running /\ ~Running' /\ runs = {} /\ runs' = {} /\ TypeOK /\ ~failed'
      /\ \A x : Unperturbed(x) = val[x] /\ Unperturbed(x)' = val'[x]
      /\ val' = [x \in Cell |-> IF x \in Held THEN old[x] ELSE val[x]] /\ old' = old
  BY Idle DEF Revert
<1>2. Parameter \cup External \subseteq Cell /\ Callback \subseteq Cell
  BY Cells DEF Cell, Property
<1>3. /\ \A x \in Parameter \cup External : x \in Held <=> x \in External
      /\ \A c \in Callback : c \in Held <=> c \in History
  BY CellFacts DEF Held, Property
<1>4. [x \in Parameter \cup External |-> Unperturbed(x)]'
        = [x \in Parameter \cup External |->
             IF x \in External THEN old[x] ELSE [y \in Parameter \cup External |-> Unperturbed(y)][x]]
  BY <1>1, <1>2, <1>3
<1>5. [c \in Callback \ runs |-> val[c]]'
        = [c \in Callback |-> IF c \in History THEN old[c] ELSE [d \in Callback \ runs |-> val[d]][c]]
  BY <1>1, <1>2, <1>3
<1> QED
  BY <1>1, <1>4, <1>5, SameGraph DEF Ref!Revert

-----------------------------------------------------------------------------
(***************************************************************************)
(* The refinement.                                                         *)
(***************************************************************************)
LEMMA InitRefines == Init => Ref!Init
<1> SUFFICES ASSUME Init
             PROVE  Ref!Init
  OBVIOUS
<1>1. /\ stage = "none" /\ runs = {} /\ ~Running /\ ~failed
      /\ val = [x \in Cell |-> Default] /\ old = [h \in Held |-> Default]
  BY DEF Init, Running
<1>2. \A x \in Parameter \cup External : Unperturbed(x) = Default
  BY <1>1, NothingPerturbed DEF Cell, Property
<1>3. \A c \in Callback : val[c] = Default
  BY <1>1, Cells
<1> QED
  BY <1>1, <1>2, <1>3, SameGraph DEF Ref!Init

LEMMA EngineRefines ==
  ASSUME HistoriesReevaluated, IInv, TypeOK', EngineStep
  PROVE  [Ref!Next]_Ref!vars
<1>1. CASE Finish
  BY <1>1, FinishRefines DEF Ref!Next
<1>2. CASE StartLoop \/ \E c \in Callback : VerifyCallback(c) \/ RunCallback(c) \/ NestedRun(c)
  BY <1>2, LoopUnseen
<1>3. ASSUME NEW c \in Callback, VerifyThrows(c) \/ CallbackThrows(c)
      PROVE  Ref!Next
  BY <1>3, ThrowRefines DEF Ref!Next
<1>4. ASSUME NEW k \in Checker, CheckerStart(k) \/ NextTrial(k) \/ RestoreState(k) \/ CheckerDone(k)
      PROVE  UNCHANGED Ref!vars
  BY <1>4, CheckerUnseen, CheckerDoneUnseen
<1>5. ASSUME NEW k \in Checker, Rethrow(k)
      PROVE  Ref!Next
  BY <1>5, RethrowRefines DEF Ref!Next
<1>6. ASSUME NEW k \in Checker, NEW c \in Callback, NestedThrows(k, c)
      PROVE  UNCHANGED Ref!vars
  BY <1>6, TrialThrowsUnseen
<1> QED
  BY <1>1, <1>2, <1>3, <1>4, <1>5, <1>6 DEF EngineStep

LEMMA HostRefines ==
  ASSUME IInv, HostStep
  PROVE  [Ref!Next]_Ref!vars
<1>1. CASE Update
  <2>1. Ref!Begin(Ref!Callback)
    BY <1>1, StartRefines, SameGraph DEF Update
  <2> QED
    BY <2>1 DEF Ref!Next
<1>2. ASSUME NEW c \in Callback, NEW x \in Excludes, UpdateProperty(c, x)
      PROVE  Ref!Next
  <2>1. Ref!Begin(Ref!Up[c] \ x) /\ c \in Ref!Callback
    BY <1>2, StartRefines, SameGraph, UpIn DEF UpdateProperty
  <2> QED
    BY <2>1 DEF Ref!Next
<1>3. ASSUME NEW e \in External, NEW o \in Value, NEW n \in Value, Bind(e, o, n)
      PROVE  Ref!Next
  BY <1>3, BindRefines DEF Ref!Next
<1>4. ASSUME NEW x \in Writable, NEW v \in Value, Write(x, v)
      PROVE  Ref!Next
  <2>1. x \in Cell /\ x \in Ref!Cell
    BY SameGraph, EngineAssumption
  <2> QED
    BY <1>4, <2>1, WriteRefines DEF Ref!Next
<1>5. ASSUME NEW on \in BOOLEAN, FoldConstants(on) \/ VerifyConstants(on)
      PROVE  UNCHANGED Ref!vars
  BY <1>5, SwitchUnseen
<1>6. CASE Commit \/ Revert
  BY <1>6, CommitRefines, RevertRefines DEF Ref!Next
<1> QED
  BY <1>1, <1>2, <1>3, <1>4, <1>5, <1>6 DEF HostStep

LEMMA StutterRefines == UNCHANGED vars => UNCHANGED Ref!vars
BY DEF vars, graphVars, foldVars, loopVars, checkVars, Ref!vars, Unperturbed, Current, Running

\* The engine implements the reference: folding, verification, partial updates and the
\* re-evaluations of a checker cannot be seen from outside (property_engine).
THEOREM RefinesReferenceHolds ==
  ASSUME ExclusionsSpare, HistoriesReevaluated
  PROVE  Spec => RefinesReference
<1>1. IInv /\ [Next]_vars => [Ref!Next]_Ref!vars
  <2>1. IInv /\ [Next]_vars => TypeOK'
    BY TypeStep DEF IInv
  <2> QED
    BY <2>1, EngineRefines, HostRefines, StutterRefines DEF Next
<1> QED
  BY <1>1, InitRefines, Invariant, PTL DEF Spec, RefinesReference, Ref!Spec
=============================================================================
