------------------------- MODULE PointDriverProofs -------------------------
(***************************************************************************)
(* Theorems about the drivers of a material point, for every path, every   *)
(* set of loads and every bound.                                           *)
(***************************************************************************)
EXTENDS PointDriver, SequenceTheorems, TLAPS

\* A sequence keeps its beginning when an element is appended.
LEMMA AppendKeeps ==
  ASSUME NEW S, NEW s \in Seq(S), NEW x \in S
  PROVE  /\ Append(s, x) \in Seq(S)
         /\ Len(Append(s, x)) = Len(s) + 1
         /\ \A i \in 1 .. Len(s) : Append(s, x)[i] = s[i]
         /\ Append(s, x)[Len(s) + 1] = x
         /\ \A n \in 0 .. Len(s) : SubSeq(Append(s, x), 1, n) = SubSeq(s, 1, n)
         /\ SubSeq(s, 1, Len(s)) = s
<1>1. /\ Append(s, x) \in Seq(S) /\ Len(Append(s, x)) = Len(s) + 1
      /\ \A i \in 1 .. Len(s) : Append(s, x)[i] = s[i]
      /\ Append(s, x)[Len(s) + 1] = x
  OBVIOUS
<1>2. ASSUME NEW n \in 0 .. Len(s)
      PROVE  SubSeq(Append(s, x), 1, n) = SubSeq(s, 1, n)
  <2>1. /\ SubSeq(Append(s, x), 1, n) = [i \in 1 .. n |-> Append(s, x)[i]]
        /\ SubSeq(s, 1, n) = [i \in 1 .. n |-> s[i]]
    OBVIOUS
  <2>2. \A i \in 1 .. n : Append(s, x)[i] = s[i]
    BY <1>1
  <2> QED
    BY <2>1, <2>2
<1>3. SubSeq(s, 1, Len(s)) = s
  BY SubSeqFull
<1> QED
  BY <1>1, <1>2, <1>3

\* The terms of an update are of their types.
LEMMA UpdateTypes ==
  ASSUME PointTypeOK, NEW h \in History, NEW e \in Load
  PROVE  /\ Trial(h, e) \in History
         /\ Result(h, e) \in Outputs
         /\ Produced(h, e) \subseteq Outputs
<1>1. Agrees(h, e) \in BOOLEAN
  BY DEF Agrees
<1>2. [load |-> e, fixed |-> Agrees(h, e)] \in Entry
  BY <1>1 DEF Entry
<1>3. Trial(h, e) \in History
  BY <1>2, AppendKeeps DEF Trial, History
<1>4. Result(h, e) \in Outputs
  BY <1>1 DEF Result, Outputs
<1>5. FixedAt(h, e) \in Outputs
  BY DEF FixedAt, Outputs
<1>6. Unfixed \in Outputs
  BY PointAssumption, EmptySeq DEF Unfixed, Outputs, History
<1> QED
  BY <1>3, <1>4, <1>5, <1>6 DEF Produced

\* What an update leaves when it returns: the fixed point, once it is settled.
LEMMA UpdateSettles ==
  ASSUME PointTypeOK, NEW h \in History, NEW n \in History, NEW e \in Load,
         Update(h, n, e) \/ UpdateThrows(h, n, e), load'.new = e, derived' = e
  PROVE  /\ medium' \in Outputs /\ stress' \in Outputs
         /\ hist' \in [old : History, new : History] /\ hist'.old = h
         /\ residual' \in {"met", "above", "nan"} /\ failed' \in BOOLEAN
         /\ state' \in {"evaluating", "evaluated", "thrown"}
         /\ EvaluatedIsSettled'
<1>1. CASE Update(h, n, e)
  <2>1. state' = "evaluated" => Agrees(h, e)
    BY <1>1 DEF Update, Done, Agrees
  <2>2. state' = "evaluated" =>
          /\ hist'.new = Append(h, [load |-> e, fixed |-> TRUE])
          /\ stress' = FixedAt(h, e)
    BY <1>1, <2>1 DEF Update, Trial, Result, FixedAt, Agrees
  <2>3. hist'.old = h /\ hist' \in [old : History, new : History]
    BY <1>1, UpdateTypes DEF Update
  <2>4. medium' \in Outputs /\ stress' \in Outputs
    BY <1>1, UpdateTypes DEF Update
  <2>5. /\ residual' \in {"met", "above", "nan"} /\ failed' = FALSE
        /\ state' \in {"evaluating", "evaluated"}
    BY <1>1 DEF Update
  <2> QED
    BY <2>2, <2>3, <2>4, <2>5 DEF EvaluatedIsSettled
<1>2. CASE UpdateThrows(h, n, e)
  <2>1. hist'.old = h /\ hist' \in [old : History, new : History]
    BY <1>2, UpdateTypes DEF UpdateThrows
  <2>2. medium' \in Outputs /\ stress' \in Outputs
    BY <1>2, UpdateTypes DEF UpdateThrows, PointTypeOK
  <2>3. residual' \in {"met", "above", "nan"} /\ failed' = TRUE /\ state' = "thrown"
    BY <1>2 DEF UpdateThrows, PointTypeOK
  <2> QED
    BY <2>1, <2>2, <2>3 DEF EvaluatedIsSettled
<1> QED
  BY <1>1, <1>2

\* An evaluation moves the trial only.
LEMMA EvaluateMovesTheTrial ==
  ASSUME PointTypeOK, NEW e \in Load, Evaluate(e)
  PROVE  /\ PointTypeOK' /\ EvaluatedIsSettled'
         /\ hist'.old = hist.old /\ load'.old = load.old /\ load'.new = e
<1>1. load' \in [old : Load, new : Load] /\ load'.old = load.old /\ load'.new = e
  BY DEF Evaluate, PointTypeOK
<1>2. derived' = e /\ pass' \in 0 .. MaxPasses
  BY PointAssumption DEF Evaluate
<1>3. hist.old \in History
  BY DEF PointTypeOK
<1>4. Update(hist.old, hist.old, e) \/ UpdateThrows(hist.old, hist.old, e)
  BY DEF Evaluate
<1> QED
  BY <1>1, <1>2, <1>3, <1>4, UpdateSettles DEF PointTypeOK

LEMMA PassMovesTheTrial ==
  ASSUME PointTypeOK, EvaluatedIsSettled, Repeat \/ GiveUp
  PROVE  /\ PointTypeOK' /\ EvaluatedIsSettled'
         /\ hist'.old = hist.old /\ load' = load
<1>1. CASE Repeat
  <2>1. hist.old \in History /\ hist.new \in History /\ load.new \in Load
    BY DEF PointTypeOK
  <2>2. load' = load /\ derived' = load.new
    BY <1>1 DEF Repeat, Repeats, EvaluatedIsSettled
  <2>3. Update(hist.old, hist.new, load.new) \/ UpdateThrows(hist.old, hist.new, load.new)
    BY <1>1 DEF Repeat
  <2>4. pass' \in 0 .. MaxPasses
    BY <1>1, PointAssumption DEF Repeat, Repeats, PointTypeOK
  <2> QED
    BY <2>1, <2>2, <2>3, <2>4, UpdateSettles DEF PointTypeOK
<1>2. CASE GiveUp
  BY <1>2 DEF GiveUp, PointTypeOK, EvaluatedIsSettled
<1> QED
  BY <1>1, <1>2

LEMMA ResetKeepsTheAccepted ==
  ASSUME PointTypeOK, Reset
  PROVE  /\ PointTypeOK' /\ EvaluatedIsSettled'
         /\ hist'.old = hist.old /\ load'.old = load.old
BY DEF Reset, PointTypeOK, EvaluatedIsSettled

LEMMA AcceptTakesTheTrial ==
  ASSUME PointTypeOK, Accept
  PROVE  /\ PointTypeOK' /\ EvaluatedIsSettled'
         /\ hist'.old = hist.new /\ load'.old = load.new
BY DEF Accept, PointTypeOK, EvaluatedIsSettled

\* The parts of the invariant about accepted steps and their rows: only what
\* records disturbs them.
Recorded == AcceptedIsRecorded /\ NoTraceOfTrials

\* Of the first m steps, each has one converged row in r.
EachIsRecorded(r, m) ==
  \A n \in 0 .. m - 1 : \E i \in 1 .. Len(r) :
    /\ r[i].converged /\ r[i].index = n
    /\ \A j \in 1 .. Len(r) : r[j].converged /\ r[j].index = n => j = i

LEMMA RecordedStays ==
  ASSUME Recorded, hist'.old = hist.old, load'.old = load.old, rows' = rows, index' = index
  PROVE  Recorded'
<1>1. AcceptedIsRecorded'
  <2>1. (Len(hist.old) = index)'
    BY DEF Recorded, AcceptedIsRecorded
  <2>2. (load.old = IF index = 0 THEN Unloaded ELSE hist.old[index].load)'
    BY DEF Recorded, AcceptedIsRecorded
  <2>3. (\A i \in 1 .. Len(rows) : rows[i].converged =>
           /\ rows[i].index < index
           /\ rows[i].load = hist.old[rows[i].index + 1].load)'
    BY DEF Recorded, AcceptedIsRecorded
  <2>4. (\A n \in 0 .. index - 1 : \E i \in 1 .. Len(rows) :
           /\ rows[i].converged /\ rows[i].index = n
           /\ \A j \in 1 .. Len(rows) :
                rows[j].converged /\ rows[j].index = n => j = i)'
    <3>1. EachIsRecorded(rows, index)
      BY Zenon DEF Recorded, AcceptedIsRecorded, EachIsRecorded
    <3>2. EachIsRecorded(rows', index')
      BY <3>1, Zenon
    <3> QED
      BY <3>2, Zenon DEF EachIsRecorded
  <2> QED
    BY <2>1, <2>2, <2>3, <2>4, Zenon DEF AcceptedIsRecorded
<1>2. NoTraceOfTrials'
  BY DEF Recorded, NoTraceOfTrials, FixedAt
<1> QED
  BY <1>1, <1>2 DEF Recorded

LEMMA StepInPath ==
  ASSUME TypeOK, index < Len(Path)
  PROVE  /\ Step.target \in Strain /\ Step.stressed \in BOOLEAN
         /\ Step.target \in Load
<1>1. index + 1 \in 1 .. Len(Path)
  BY DriverAssumption DEF TypeOK
<1>2. Step \in [target : Strain, stressed : BOOLEAN]
  BY <1>1, DriverAssumption, ElementOfSeq DEF Step
<1> QED
  BY <1>2, DriverAssumption

LEMMA StartStepKeeps == DriverInv /\ StartStep => DriverInv'
<1> SUFFICES ASSUME DriverInv, StartStep
             PROVE  DriverInv'
  OBVIOUS
<1>1. /\ phase = "idle" /\ phase' = "step" /\ index < Len(Path) /\ it' = 0
      /\ Evaluate(FirstGuess)
      /\ UNCHANGED <<index, res, todo, row, rows, retries>>
  BY DEF StartStep
<1>2. TypeOK /\ PointTypeOK
  BY DEF DriverInv, TypeOK
<1>3. /\ FirstGuess \in Strain /\ FirstGuess \in Load
      /\ ~Step.stressed => FirstGuess = Step.target
  BY <1>1, <1>2, StepInPath, DriverAssumption DEF FirstGuess, DriverInv, StepIsHeld
<1>4. /\ PointTypeOK' /\ EvaluatedIsSettled'
      /\ hist'.old = hist.old /\ load'.old = load.old /\ load'.new = FirstGuess
  BY <1>1, <1>2, <1>3, EvaluateMovesTheTrial
<1>5. TypeOK'
  BY <1>1, <1>2, <1>4, DriverAssumption DEF TypeOK, Phases
<1>6. StepIsHeld'
  BY <1>1, <1>3, <1>4 DEF DriverInv, StepIsHeld, Step, FixedAt
<1>7. Recorded'
  BY <1>1, <1>4, RecordedStays DEF DriverInv, Recorded
<1> QED
  BY <1>1, <1>4, <1>5, <1>6, <1>7 DEF DriverInv, Recorded, CheckEndsOnTrial, TrialStands

LEMMA CorrectKeeps == DriverInv /\ Correct => DriverInv'
<1> SUFFICES ASSUME DriverInv, Correct
             PROVE  DriverInv'
  OBVIOUS
<1>1. /\ phase = "step" /\ phase' = "step" /\ it < MaxIter /\ it' = it + 1
      /\ UNCHANGED <<index, res, todo, row, rows, retries>>
  BY DEF Correct
<1>2. TypeOK /\ PointTypeOK /\ index < Len(Path)
  BY <1>1 DEF DriverInv, TypeOK, StepIsHeld
<1>3. PICK e \in Corrections : Evaluate(e)
  BY DEF Correct
<1>4. e \in Strain /\ e \in Load /\ (~Step.stressed => e = Step.target)
  BY <1>2, StepInPath, DriverAssumption DEF Corrections
<1>5. /\ PointTypeOK' /\ EvaluatedIsSettled'
      /\ hist'.old = hist.old /\ load'.old = load.old /\ load'.new = e
  BY <1>2, <1>3, <1>4, EvaluateMovesTheTrial
<1>6. TypeOK'
  BY <1>1, <1>2, <1>5, DriverAssumption DEF TypeOK, Phases
<1>7. StepIsHeld'
  BY <1>1, <1>4, <1>5 DEF DriverInv, StepIsHeld, Step, FixedAt
<1>8. Recorded'
  BY <1>1, <1>5, RecordedStays DEF DriverInv, Recorded
<1> QED
  BY <1>1, <1>5, <1>6, <1>7, <1>8 DEF DriverInv, Recorded, CheckEndsOnTrial, TrialStands

LEMMA PassKeeps == DriverInv /\ Pass => DriverInv'
<1> SUFFICES ASSUME DriverInv, Pass
             PROVE  DriverInv'
  OBVIOUS
<1>1. /\ phase \in {"step", "check"}
      /\ Repeat \/ GiveUp
      /\ UNCHANGED <<phase, index, it, res, todo, row, rows, retries>>
  BY DEF Pass, driverVars
<1>2. TypeOK /\ PointTypeOK
  BY DEF DriverInv, TypeOK
<1>3. /\ PointTypeOK' /\ EvaluatedIsSettled'
      /\ hist'.old = hist.old /\ load' = load
  BY <1>1, <1>2, PassMovesTheTrial DEF DriverInv
<1>4. TypeOK'
  BY <1>1, <1>2, <1>3 DEF TypeOK
<1>5. StepIsHeld' /\ CheckEndsOnTrial'
  BY <1>1, <1>3 DEF DriverInv, StepIsHeld, Step, CheckEndsOnTrial, FixedAt
<1>6. Recorded'
  BY <1>1, <1>3, RecordedStays DEF DriverInv, Recorded
<1> QED
  BY <1>1, <1>3, <1>4, <1>5, <1>6 DEF DriverInv, Recorded, TrialStands

\* step() returns, converged or not.
LEMMA ReturnKeeps == DriverInv /\ (Converge \/ OutOfIterations) => DriverInv'
<1> SUFFICES ASSUME DriverInv, Converge \/ OutOfIterations
             PROVE  DriverInv'
  OBVIOUS
<1>1. /\ phase = "step" /\ phase' = "stepped" /\ state = "evaluated"
      /\ UNCHANGED <<load, derived, hist, medium, stress, residual, failed, pass, state>>
      /\ UNCHANGED <<index, it, todo, row, rows, retries>>
  BY DEF Converge, OutOfIterations, pointVars
<1>2. PICK c \in BOOLEAN : res' = [load |-> load.new, stress |-> stress, converged |-> c]
  BY DEF Converge, OutOfIterations, TrialOf
<1>3. PointTypeOK' /\ EvaluatedIsSettled'
  BY <1>1 DEF DriverInv, TypeOK, PointTypeOK, EvaluatedIsSettled
<1>4. res' \in StepResult
  BY <1>2 DEF DriverInv, TypeOK, PointTypeOK, StepResult
<1>5. TypeOK'
  BY <1>1, <1>3, <1>4 DEF DriverInv, TypeOK, Phases
<1>6. StepIsHeld'
  BY <1>1, <1>2 DEF DriverInv, StepIsHeld, Step, EvaluatedIsSettled
<1>7. TrialStands'
  BY <1>1, <1>2 DEF DriverInv, TrialStands, EvaluatedIsSettled
<1>8. Recorded'
  BY <1>1, RecordedStays DEF DriverInv, Recorded
<1> QED
  BY <1>1, <1>3, <1>5, <1>6, <1>7, <1>8 DEF DriverInv, Recorded, CheckEndsOnTrial

\* A check's loads are loads, and the last is the trial's.
LEMMA CheckLoadsEnd ==
  ASSUME res.load \in Strain
  PROVE  /\ CheckLoads \in Seq(Load) /\ CheckLoads # <<>>
         /\ CheckLoads[Len(CheckLoads)] = res.load
<1>1. Len(Probe) \in Nat
  BY DriverAssumption
<1>2. Perturbations \in Seq(Load)
  BY <1>1, DriverAssumption, IsASeq DEF Perturbations
<1>3. res.load \in Load
  BY DriverAssumption
<1>4. /\ CheckLoads \in Seq(Load) /\ Len(Perturbations) \in Nat
      /\ Len(CheckLoads) = Len(Perturbations) + 1
      /\ CheckLoads[Len(Perturbations) + 1] = res.load
  BY <1>2, <1>3, AppendKeeps, LenProperties DEF CheckLoads
<1>5. CheckLoads # <<>>
  BY <1>4
<1> QED
  BY <1>4, <1>5

LEMMA OpenRowKeeps == DriverInv /\ OpenRow => DriverInv'
<1> SUFFICES ASSUME DriverInv, OpenRow
             PROVE  DriverInv'
  OBVIOUS
<1>1. /\ phase = "stepped" /\ state = "evaluated" /\ row' = Columns
      /\ UNCHANGED <<load, derived, hist, medium, stress, residual, failed, pass, state>>
      /\ UNCHANGED <<index, it, res, rows, retries>>
  BY DEF OpenRow, pointVars, DriverInv, StepIsHeld
<1>2. TypeOK /\ PointTypeOK /\ res.load \in Strain
  BY <1>1 DEF DriverInv, TypeOK, StepIsHeld
<1>3. \/ phase' = "check" /\ todo' = CheckLoads
      \/ phase' = "record" /\ todo' = todo
  BY DEF OpenRow
<1>4. PointTypeOK' /\ EvaluatedIsSettled'
  BY <1>1, <1>2 DEF DriverInv, PointTypeOK, EvaluatedIsSettled
<1>5. row' \in Record
  BY <1>1, <1>2, DriverAssumption DEF Columns, Record, PointTypeOK, TypeOK, StepResult
<1>6. TypeOK'
  BY <1>1, <1>2, <1>3, <1>4, <1>5, CheckLoadsEnd DEF TypeOK, Phases
<1>7. StepIsHeld'
  BY <1>1, <1>3 DEF DriverInv, StepIsHeld, Step, FixedAt
<1>8. /\ row'.index = index /\ row'.converged = res.converged
      /\ row'.load = res.load /\ row'.stress = stress /\ row'.history = hist.new
      /\ stress = res.stress /\ load.new = res.load
      /\ hist.new = Append(hist.old, [load |-> res.load, fixed |-> TRUE])
  BY <1>1 DEF Columns, DriverInv, TrialStands
<1>9. CheckEndsOnTrial'
  BY <1>1, <1>2, <1>3, <1>8, CheckLoadsEnd DEF CheckEndsOnTrial
<1>10. TrialStands'
  BY <1>1, <1>3, <1>8 DEF DriverInv, TrialStands
<1>11. Recorded'
  BY <1>1, RecordedStays DEF DriverInv, Recorded
<1> QED
  BY <1>4, <1>6, <1>7, <1>9, <1>10, <1>11 DEF DriverInv, Recorded

LEMMA CheckNextKeeps == DriverInv /\ CheckNext => DriverInv'
<1> SUFFICES ASSUME DriverInv, CheckNext
             PROVE  DriverInv'
  OBVIOUS
<1>1. /\ phase = "check" /\ phase' = "check" /\ todo # <<>> /\ todo' = Tail(todo)
      /\ Evaluate(Head(todo))
      /\ UNCHANGED <<index, it, res, row, rows, retries>>
  BY DEF CheckNext
<1>2. TypeOK /\ PointTypeOK /\ todo \in Seq(Load)
  BY DEF DriverInv, TypeOK
<1>3. /\ Head(todo) \in Load /\ Head(todo) = todo[1] /\ Tail(todo) \in Seq(Load)
      /\ Len(Tail(todo)) = Len(todo) - 1 /\ Len(todo) \in Nat \ {0}
      /\ \A i \in 1 .. Len(Tail(todo)) : Tail(todo)[i] = todo[i + 1]
  BY <1>1, <1>2, HeadTailProperties, EmptySeq
<1>4. /\ PointTypeOK' /\ EvaluatedIsSettled'
      /\ hist'.old = hist.old /\ load'.old = load.old /\ load'.new = Head(todo)
  BY <1>1, <1>2, <1>3, EvaluateMovesTheTrial
<1>5. TypeOK'
  BY <1>1, <1>2, <1>3, <1>4 DEF TypeOK
<1>6. StepIsHeld'
  BY <1>1, <1>4 DEF DriverInv, StepIsHeld, Step, FixedAt
<1>7. todo[Len(todo)] = res.load
  BY <1>1 DEF DriverInv, CheckEndsOnTrial
<1>8. IF todo' = <<>> THEN load'.new = res.load ELSE todo'[Len(todo')] = res.load
  <2>1. CASE Len(todo) = 1
    <3>1. Tail(todo) = <<>>
      <4>1. Tail(todo) # <<>> => Len(Tail(todo)) \in Nat \ {0}
        BY <1>3, EmptySeq
      <4>2. Len(Tail(todo)) = 0
        BY <2>1, <1>3
      <4> QED
        BY <4>1, <4>2
    <3> QED
      BY <3>1, <2>1, <1>1, <1>3, <1>4, <1>7
  <2>2. CASE Len(todo) # 1
    <3>1. Len(Tail(todo)) \in 1 .. Len(Tail(todo)) /\ Len(Tail(todo)) + 1 = Len(todo)
      BY <2>2, <1>3
    <3>2. Tail(todo) # <<>>
      BY <3>1, EmptySeq
    <3> QED
      BY <3>1, <3>2, <1>1, <1>3, <1>7
  <2> QED
    BY <2>1, <2>2
<1>9. CheckEndsOnTrial'
  BY <1>1, <1>4, <1>8 DEF DriverInv, CheckEndsOnTrial
<1>10. Recorded'
  BY <1>1, <1>4, RecordedStays DEF DriverInv, Recorded
<1> QED
  BY <1>1, <1>4, <1>5, <1>6, <1>9, <1>10 DEF DriverInv, Recorded, TrialStands

LEMMA CheckDoneKeeps == DriverInv /\ CheckDone => DriverInv'
<1> SUFFICES ASSUME DriverInv, CheckDone
             PROVE  DriverInv'
  OBVIOUS
<1>1. /\ phase = "check" /\ phase' = "record" /\ state = "evaluated" /\ todo = <<>>
      /\ row' = [row EXCEPT !.checked = TRUE]
      /\ UNCHANGED <<load, derived, hist, medium, stress, residual, failed, pass, state>>
      /\ UNCHANGED <<index, it, res, todo, rows, retries>>
  BY DEF CheckDone, pointVars
<1>2. TypeOK /\ PointTypeOK
  BY DEF DriverInv, TypeOK
<1>3. PointTypeOK' /\ EvaluatedIsSettled'
  BY <1>1, <1>2 DEF DriverInv, PointTypeOK, EvaluatedIsSettled
<1>4. /\ row' \in Record /\ row'.index = row.index /\ row'.load = row.load
      /\ row'.stress = row.stress /\ row'.history = row.history
      /\ row'.converged = row.converged
  BY <1>1, <1>2 DEF TypeOK, Record
<1>5. TypeOK'
  BY <1>1, <1>2, <1>3, <1>4 DEF TypeOK, Phases
<1>6. StepIsHeld' /\ CheckEndsOnTrial'
  BY <1>1, <1>4 DEF DriverInv, StepIsHeld, Step, CheckEndsOnTrial, FixedAt
<1>7. /\ load.new = res.load /\ derived = load.new /\ ~failed
      /\ hist.new = Append(hist.old, [load |-> load.new, fixed |-> TRUE])
      /\ stress = FixedAt(hist.old, load.new) /\ res.stress = FixedAt(hist.old, res.load)
  BY <1>1 DEF DriverInv, StepIsHeld, CheckEndsOnTrial, EvaluatedIsSettled
<1>8. TrialStands'
  BY <1>1, <1>4, <1>7 DEF DriverInv, TrialStands, CheckEndsOnTrial
<1>9. Recorded'
  BY <1>1, RecordedStays DEF DriverInv, Recorded
<1> QED
  BY <1>3, <1>5, <1>6, <1>8, <1>9 DEF DriverInv, Recorded

\* A row is added for the trial.
LEMMA RowIsAdded ==
  ASSUME DriverInv, rows' = Append(rows, row)
  PROVE  /\ rows' \in Seq(Record) /\ Len(rows') = Len(rows) + 1 /\ Len(rows) \in Nat
         /\ \A i \in 1 .. Len(rows) : rows'[i] = rows[i]
         /\ rows'[Len(rows) + 1] = row
<1>1. rows \in Seq(Record) /\ row \in Record
  BY DEF DriverInv, TypeOK
<1> QED
  BY <1>1, AppendKeeps, LenProperties

LEMMA RecordAndAcceptKeeps == DriverInv /\ RecordAndAccept => DriverInv'
<1> SUFFICES ASSUME DriverInv, RecordAndAccept
             PROVE  DriverInv'
  OBVIOUS
<1> DEFINE x == [load |-> res.load, fixed |-> TRUE]
           m == Len(rows)
<1>1. /\ phase = "record" /\ phase' = "idle" /\ index' = index + 1 /\ res.converged
      /\ rows' = Append(rows, row) /\ Accept
      /\ UNCHANGED <<it, res, todo, row, retries>>
  BY DEF RecordAndAccept
<1>2. /\ TypeOK /\ PointTypeOK /\ hist.old \in Seq(Entry) /\ index < Len(Path)
      /\ index \in Nat /\ Len(Path) \in Nat /\ Len(hist.old) = index
  BY <1>1, DriverAssumption DEF DriverInv, TypeOK, PointTypeOK, StepIsHeld, History, AcceptedIsRecorded
<1>3. /\ PointTypeOK' /\ EvaluatedIsSettled'
      /\ hist'.old = hist.new /\ load'.old = load.new
  BY <1>1, <1>2, AcceptTakesTheTrial
<1>4. /\ hist.new = Append(hist.old, x) /\ load.new = res.load
      /\ row.index = index /\ row.converged /\ row.load = res.load
      /\ row.stress = FixedAt(hist.old, res.load) /\ row.history = hist.new
      /\ res.load \in Strain
  BY <1>1 DEF DriverInv, TrialStands, StepIsHeld
<1>5. x \in Entry
  BY <1>4, DriverAssumption DEF Entry
<1>6. /\ Len(hist'.old) = index + 1
      /\ \A i \in 1 .. index : hist'.old[i] = hist.old[i]
      /\ hist'.old[index + 1] = x
      /\ \A n \in 0 .. index : SubSeq(hist'.old, 1, n) = SubSeq(hist.old, 1, n)
      /\ SubSeq(hist.old, 1, index) = hist.old
  BY <1>2, <1>3, <1>4, <1>5, AppendKeeps
<1>7. /\ rows' \in Seq(Record) /\ Len(rows') = m + 1 /\ m \in Nat
      /\ \A i \in 1 .. m : rows'[i] = rows[i]
      /\ rows'[m + 1] = row
  BY <1>1, RowIsAdded
<1> HIDE DEF m
<1>8. TypeOK'
  BY <1>1, <1>2, <1>3, <1>7 DEF TypeOK, Phases
<1>9. StepIsHeld'
  BY <1>1, <1>3, <1>4 DEF StepIsHeld
<1>10. AcceptedIsRecorded'
  <2>1. Len(hist'.old) = index' /\ index' # 0
    BY <1>1, <1>2, <1>6
  <2>2. load'.old = hist'.old[index'].load
    BY <1>1, <1>3, <1>4, <1>6
  <2>3. ASSUME NEW i \in 1 .. Len(rows'), rows'[i].converged
        PROVE  rows'[i].index < index' /\ rows'[i].load = hist'.old[rows'[i].index + 1].load
    <3>1. CASE i = m + 1
      BY <3>1, <1>1, <1>2, <1>4, <1>6, <1>7
    <3>2. CASE i # m + 1
      <4>1. i \in 1 .. Len(rows) /\ rows'[i] = rows[i]
        BY <3>2, <1>7 DEF m
      <4>2. rows[i].index < index /\ rows[i].load = hist.old[rows[i].index + 1].load
        BY <4>1, <2>3 DEF DriverInv, AcceptedIsRecorded
      <4>3. rows[i] \in Record
        BY <4>1, <1>2, ElementOfSeq DEF TypeOK
      <4>4. rows[i].index + 1 \in 1 .. index
        BY <4>2, <4>3, <1>2 DEF Record
      <4> QED
        BY <4>1, <4>2, <4>3, <4>4, <1>1, <1>2, <1>6 DEF Record
    <3> QED
      BY <3>1, <3>2
  <2>4. ASSUME NEW n \in 0 .. index' - 1
        PROVE  \E i \in 1 .. Len(rows') :
                 /\ rows'[i].converged /\ rows'[i].index = n
                 /\ \A j \in 1 .. Len(rows') :
                      rows'[j].converged /\ rows'[j].index = n => j = i
    <3>1. CASE n = index
      <4>1. ASSUME NEW j \in 1 .. Len(rows'), rows'[j].converged, rows'[j].index = n
            PROVE  j = m + 1
        <5>1. SUFFICES ASSUME j # m + 1
                       PROVE  FALSE
          OBVIOUS
        <5>2. j \in 1 .. Len(rows) /\ rows'[j] = rows[j]
          BY <5>1, <1>7 DEF m
        <5>3. rows[j].index < index
          BY <4>1, <5>2 DEF DriverInv, AcceptedIsRecorded
        <5> QED
          BY <3>1, <4>1, <5>2, <5>3, <1>2
      <4> QED
        BY <3>1, <4>1, <1>4, <1>7
    <3>2. CASE n # index
      <4>1. n \in 0 .. index - 1
        BY <3>2, <1>1, <1>2
      <4>2. PICK i \in 1 .. Len(rows) :
              /\ rows[i].converged /\ rows[i].index = n
              /\ \A j \in 1 .. Len(rows) : rows[j].converged /\ rows[j].index = n => j = i
        BY <4>1 DEF DriverInv, AcceptedIsRecorded
      <4>3. i \in 1 .. Len(rows') /\ rows'[i] = rows[i]
        BY <1>7 DEF m
      <4>4. ASSUME NEW j \in 1 .. Len(rows'), rows'[j].converged, rows'[j].index = n
            PROVE  j = i
        <5>1. j # m + 1
          BY <4>4, <3>2, <1>4, <1>7
        <5>2. j \in 1 .. Len(rows) /\ rows'[j] = rows[j]
          BY <5>1, <1>7 DEF m
        <5> QED
          BY <4>2, <4>4, <5>2
      <4> QED
        BY <4>2, <4>3, <4>4
    <3> QED
      BY <3>1, <3>2
  <2> QED
    BY <2>1, <2>2, <2>3, <2>4 DEF AcceptedIsRecorded
<1>11. NoTraceOfTrials'
  <2>1. ASSUME NEW i \in 1 .. Len(rows')
        PROVE  /\ rows'[i].index <= index'
               /\ rows'[i].stress = FixedAt(SubSeq(hist'.old, 1, rows'[i].index), rows'[i].load)
               /\ rows'[i].history = Append(SubSeq(hist'.old, 1, rows'[i].index),
                                            [load |-> rows'[i].load, fixed |-> TRUE])
    <3>1. CASE i = m + 1
      <4>1. rows'[i] = row /\ SubSeq(hist'.old, 1, row.index) = hist.old
        BY <3>1, <1>2, <1>4, <1>6, <1>7
      <4>2. row.index <= index'
        BY <1>1, <1>2, <1>4
      <4>3. row.stress = FixedAt(SubSeq(hist'.old, 1, row.index), row.load)
        BY <4>1, <1>4
      <4>4. row.history = Append(SubSeq(hist'.old, 1, row.index),
                                 [load |-> row.load, fixed |-> TRUE])
        BY <4>1, <1>4
      <4> QED
        BY <4>1, <4>2, <4>3, <4>4
    <3>2. CASE i # m + 1
      <4>1. i \in 1 .. Len(rows) /\ rows'[i] = rows[i]
        BY <3>2, <1>7 DEF m
      <4>2. rows[i].index \in 0 .. index
        <5>1. rows[i] \in Record
          BY <4>1, <1>2, ElementOfSeq DEF TypeOK
        <5>2. rows[i].index <= index
          BY <4>1 DEF DriverInv, NoTraceOfTrials
        <5> QED
          BY <5>1, <5>2, <1>2 DEF Record
      <4>3. SubSeq(hist'.old, 1, rows[i].index) = SubSeq(hist.old, 1, rows[i].index)
        BY <4>2, <1>6
      <4>4. rows[i].index <= index'
        BY <4>2, <1>1, <1>2
      <4>5. /\ rows[i].stress = FixedAt(SubSeq(hist.old, 1, rows[i].index), rows[i].load)
            /\ rows[i].history = Append(SubSeq(hist.old, 1, rows[i].index),
                                        [load |-> rows[i].load, fixed |-> TRUE])
        BY <4>1 DEF DriverInv, NoTraceOfTrials
      <4> QED
        BY <4>1, <4>3, <4>4, <4>5
    <3> QED
      BY <3>1, <3>2
  <2> QED
    BY <2>1 DEF NoTraceOfTrials, FixedAt
<1> QED
  BY <1>1, <1>3, <1>8, <1>9, <1>10, <1>11 DEF DriverInv, CheckEndsOnTrial, TrialStands

LEMMA RecordAndRejectKeeps == DriverInv /\ RecordAndReject => DriverInv'
<1> SUFFICES ASSUME DriverInv, RecordAndReject
             PROVE  DriverInv'
  OBVIOUS
<1> DEFINE m == Len(rows)
<1>1. /\ phase = "record" /\ phase' = "stopped" /\ ~res.converged
      /\ rows' = Append(rows, row) /\ Reset
      /\ UNCHANGED <<index, it, res, todo, row, retries>>
  BY DEF RecordAndReject
<1>2. TypeOK /\ PointTypeOK /\ index \in Nat /\ hist.old \in Seq(Entry)
  BY DriverAssumption DEF DriverInv, TypeOK, PointTypeOK, History
<1>3. /\ PointTypeOK' /\ EvaluatedIsSettled'
      /\ hist'.old = hist.old /\ load'.old = load.old
  BY <1>1, <1>2, ResetKeepsTheAccepted
<1>4. /\ hist.new = Append(hist.old, [load |-> res.load, fixed |-> TRUE])
      /\ row.index = index /\ ~row.converged /\ row.load = res.load
      /\ row.stress = FixedAt(hist.old, res.load) /\ row.history = hist.new
  BY <1>1 DEF DriverInv, TrialStands, StepIsHeld
<1>5. SubSeq(hist.old, 1, index) = hist.old
  BY <1>2, AppendKeeps, SubSeqFull DEF DriverInv, AcceptedIsRecorded
<1>6. /\ rows' \in Seq(Record) /\ Len(rows') = m + 1 /\ m \in Nat
      /\ \A i \in 1 .. m : rows'[i] = rows[i]
      /\ rows'[m + 1] = row
  BY <1>1, RowIsAdded
<1> HIDE DEF m
<1>7. TypeOK'
  BY <1>1, <1>2, <1>3, <1>6 DEF TypeOK, Phases
<1>8. StepIsHeld'
  BY <1>1, <1>3 DEF DriverInv, StepIsHeld
<1>9. \A i \in 1 .. Len(rows') : i # m + 1 => i \in 1 .. Len(rows) /\ rows'[i] = rows[i]
  BY <1>6 DEF m
<1>10. AcceptedIsRecorded'
  <2>1. \A i \in 1 .. Len(rows') : rows'[i].converged =>
          /\ i \in 1 .. Len(rows) /\ rows'[i] = rows[i]
    BY <1>4, <1>6, <1>9
  <2>2. \A i \in 1 .. Len(rows) : i \in 1 .. Len(rows') /\ rows'[i] = rows[i]
    BY <1>6 DEF m
  <2>3. ASSUME NEW i \in 1 .. Len(rows'), rows'[i].converged
        PROVE  rows'[i].index < index' /\ rows'[i].load = hist'.old[rows'[i].index + 1].load
    BY <2>1, <2>3, <1>1, <1>3 DEF DriverInv, AcceptedIsRecorded
  <2>4. ASSUME NEW n \in 0 .. index' - 1
        PROVE  \E i \in 1 .. Len(rows') :
                 /\ rows'[i].converged /\ rows'[i].index = n
                 /\ \A j \in 1 .. Len(rows') :
                      rows'[j].converged /\ rows'[j].index = n => j = i
    <3>1. PICK i \in 1 .. Len(rows) :
            /\ rows[i].converged /\ rows[i].index = n
            /\ \A j \in 1 .. Len(rows) : rows[j].converged /\ rows[j].index = n => j = i
      BY <1>1 DEF DriverInv, AcceptedIsRecorded
    <3> QED
      BY <3>1, <2>1, <2>2
  <2> QED
    BY <2>3, <2>4, <1>1, <1>3 DEF DriverInv, AcceptedIsRecorded
<1>11. NoTraceOfTrials'
  <2>1. ASSUME NEW i \in 1 .. Len(rows')
        PROVE  /\ rows'[i].index <= index'
               /\ rows'[i].stress = FixedAt(SubSeq(hist'.old, 1, rows'[i].index), rows'[i].load)
               /\ rows'[i].history = Append(SubSeq(hist'.old, 1, rows'[i].index),
                                            [load |-> rows'[i].load, fixed |-> TRUE])
    <3>1. CASE i = m + 1
      <4>1. rows'[i] = row /\ SubSeq(hist'.old, 1, row.index) = hist.old
        BY <3>1, <1>3, <1>4, <1>5, <1>6
      <4>2. row.index <= index'
        BY <1>1, <1>2, <1>4
      <4>3. row.stress = FixedAt(SubSeq(hist'.old, 1, row.index), row.load)
        BY <4>1, <1>4
      <4>4. row.history = Append(SubSeq(hist'.old, 1, row.index),
                                 [load |-> row.load, fixed |-> TRUE])
        BY <4>1, <1>4
      <4> QED
        BY <4>1, <4>2, <4>3, <4>4
    <3>2. CASE i # m + 1
      BY <3>2, <1>1, <1>3, <1>9 DEF DriverInv, NoTraceOfTrials
    <3> QED
      BY <3>1, <3>2
  <2> QED
    BY <2>1 DEF NoTraceOfTrials, FixedAt
<1> QED
  BY <1>1, <1>3, <1>7, <1>8, <1>10, <1>11 DEF DriverInv, CheckEndsOnTrial, TrialStands

\* The steps between calls, and an exception, leave the point alone.
LEMMA OutsideKeeps ==
  DriverInv /\ (Raise \/ Finish \/ Retry \/ UNCHANGED vars) => DriverInv'
<1>1. ASSUME DriverInv, Raise \/ Finish \/ Retry
      PROVE  DriverInv'
  <2>1. /\ UNCHANGED <<load, derived, hist, medium, stress, residual, failed, pass, state>>
        /\ UNCHANGED <<index, it, res, row, rows>>
        /\ phase' \in {"raised", "done", "idle"}
    BY <1>1 DEF Raise, Finish, Retry, pointVars
  <2>2. todo' \in {todo, <<>>} /\ retries' \in 0 .. MaxRetries
    BY <1>1, DriverAssumption DEF Raise, Finish, Retry, DriverInv, TypeOK
  <2>3. TypeOK' /\ EvaluatedIsSettled'
    <3>1. todo' \in Seq(Load)
      BY <1>1, <2>2, EmptySeq DEF DriverInv, TypeOK
    <3> QED
      BY <1>1, <2>1, <2>2, <3>1 DEF DriverInv, TypeOK, PointTypeOK, Phases, EvaluatedIsSettled
  <2>4. StepIsHeld' /\ CheckEndsOnTrial' /\ TrialStands'
    BY <1>1, <2>1 DEF DriverInv, StepIsHeld, CheckEndsOnTrial, TrialStands
  <2>5. Recorded'
    BY <1>1, <2>1, RecordedStays DEF DriverInv, Recorded
  <2> QED
    BY <2>3, <2>4, <2>5 DEF DriverInv, Recorded
<1>2. ASSUME DriverInv, UNCHANGED vars
      PROVE  DriverInv'
  <2>1. TypeOK' /\ EvaluatedIsSettled'
    BY <1>2 DEF DriverInv, vars, pointVars, driverVars, TypeOK, PointTypeOK, EvaluatedIsSettled, FixedAt
  <2>2. StepIsHeld' /\ CheckEndsOnTrial' /\ TrialStands'
    BY <1>2 DEF DriverInv, vars, pointVars, driverVars, StepIsHeld, Step, CheckEndsOnTrial, TrialStands, FixedAt
  <2>3. Recorded'
    BY <1>2, RecordedStays DEF DriverInv, vars, pointVars, driverVars, Recorded
  <2> QED
    BY <2>1, <2>2, <2>3 DEF DriverInv, Recorded
<1> QED
  BY <1>1, <1>2

LEMMA DriverStarts == Init => DriverInv
<1> SUFFICES ASSUME Init
             PROVE  DriverInv
  OBVIOUS
<1>1. /\ <<>> \in History /\ <<>> \in Seq(Load) /\ <<>> \in Seq(Record) /\ Len(<<>>) = 0
  BY EmptySeq DEF History
<1>2. Unfixed \in Outputs /\ Unloaded \in Load /\ Unloaded \in Strain
  BY <1>1, PointAssumption, DriverAssumption DEF Unfixed, Outputs
<1>3. PointTypeOK
  <2>1. 0 \in 0 .. MaxPasses
    BY PointAssumption
  <2>2. /\ load \in [old : Load, new : Load] /\ derived \in Load
        /\ hist \in [old : History, new : History]
    BY <1>1, <1>2 DEF Init, PointInit
  <2> QED
    BY <2>1, <2>2, <1>2 DEF Init, PointInit, PointTypeOK
<1>4. res \in StepResult /\ row \in Record
  BY <1>1, <1>2 DEF Init, NoResult, NoRow, StepResult, Record
<1>5. index \in 0 .. Len(Path) /\ it \in 0 .. MaxIter /\ retries \in 0 .. MaxRetries
  BY DriverAssumption DEF Init
<1>6. TypeOK
  BY <1>1, <1>3, <1>4, <1>5 DEF Init, TypeOK, Phases
<1>7. /\ phase = "idle" /\ state = "ready" /\ index = 0 /\ rows = <<>>
      /\ hist.old = <<>> /\ load.old = Unloaded
  BY DEF Init, PointInit
<1>8. AcceptedIsRecorded /\ NoTraceOfTrials
  BY <1>1, <1>7 DEF AcceptedIsRecorded, NoTraceOfTrials
<1> QED
  BY <1>2, <1>6, <1>7, <1>8
     DEF DriverInv, EvaluatedIsSettled, StepIsHeld, CheckEndsOnTrial, TrialStands

LEMMA DriverStep == DriverInv /\ [Next]_vars => DriverInv'
BY StartStepKeeps, PassKeeps, ReturnKeeps, CorrectKeeps, OpenRowKeeps, CheckNextKeeps,
   CheckDoneKeeps, RecordAndAcceptKeeps, RecordAndRejectKeeps, OutsideKeeps
   DEF Next, Run
-----------------------------------------------------------------------------
\* The inductive invariant of the drivers.
THEOREM DriverInvariant == Spec => []DriverInv
BY DriverStarts, DriverStep, PTL DEF Spec

\* The accepted loads are those of the converged rows, in order, whatever threw,
\* was rejected or was perturbed in between.
THEOREM AcceptedIsRecordedHolds == Spec => []AcceptedIsRecorded
<1>1. DriverInv => AcceptedIsRecorded
  BY DEF DriverInv
<1> QED
  BY <1>1, DriverInvariant, PTL

\* What is accepted is the trial that step() returned and the row shows.
THEOREM TrialStandsHolds == Spec => []TrialStands
<1>1. DriverInv => TrialStands
  BY DEF DriverInv
<1> QED
  BY <1>1, DriverInvariant, PTL

\* A row is a function of the accepted steps before it and of its own load.
THEOREM NoTraceOfTrialsHolds == Spec => []NoTraceOfTrials
<1>1. DriverInv => NoTraceOfTrials
  BY DEF DriverInv
<1> QED
  BY <1>1, DriverInvariant, PTL

LEMMA MovesByAccept == DriverInv /\ [Next]_vars => AcceptMoves
<1> SUFFICES ASSUME DriverInv, [Next]_vars, hist.old' # hist.old \/ load.old' # load.old
             PROVE  AcceptMoves
  BY DEF AcceptMoves
<1>1. PointTypeOK /\ EvaluatedIsSettled
  BY DEF DriverInv, TypeOK
<1>2. CASE RecordAndAccept
  <2>1. /\ phase = "record" /\ res.converged /\ Accept /\ rows' = Append(rows, row)
    BY <1>2 DEF RecordAndAccept
  <2>2. hist'.old = hist.new /\ load'.old = load.new
    BY <1>1, <2>1, AcceptTakesTheTrial
  <2>3. /\ hist.new = Append(hist.old, [load |-> res.load, fixed |-> TRUE])
        /\ load.new = res.load /\ row.converged
        /\ ~Step.stressed => res.load = Step.target
    BY <2>1 DEF DriverInv, TrialStands, StepIsHeld
  <2> QED
    BY <2>1, <2>2, <2>3 DEF AcceptMoves
<1>3. CASE StartStep
  <2>1. TypeOK /\ index < Len(Path) /\ load.old \in Strain /\ Evaluate(FirstGuess)
    BY <1>3 DEF StartStep, DriverInv, StepIsHeld
  <2>2. FirstGuess \in Load
    BY <2>1, StepInPath, DriverAssumption DEF FirstGuess
  <2> QED
    BY <1>1, <2>1, <2>2, EvaluateMovesTheTrial DEF AcceptMoves
<1>4. CASE Pass
  BY <1>1, <1>4, PassMovesTheTrial DEF AcceptMoves, Pass
<1>5. CASE Correct
  <2>1. TypeOK /\ index < Len(Path)
    BY <1>5 DEF Correct, DriverInv, StepIsHeld
  <2>2. PICK e \in Corrections : Evaluate(e)
    BY <1>5 DEF Correct
  <2>3. e \in Load
    BY <2>1, StepInPath, DriverAssumption DEF Corrections
  <2> QED
    BY <1>1, <2>2, <2>3, EvaluateMovesTheTrial DEF AcceptMoves
<1>6. CASE CheckNext
  <2>1. Evaluate(Head(todo)) /\ Head(todo) \in Load
    BY <1>6, HeadTailProperties DEF CheckNext, DriverInv, TypeOK
  <2> QED
    BY <1>1, <2>1, EvaluateMovesTheTrial DEF AcceptMoves
<1>7. CASE RecordAndReject
  BY <1>1, <1>7, ResetKeepsTheAccepted DEF AcceptMoves, RecordAndReject
<1>8. CASE Converge \/ OutOfIterations \/ OpenRow \/ CheckDone \/ Raise \/ Finish \/ Retry
  BY <1>8 DEF AcceptMoves, Converge, OutOfIterations, OpenRow, CheckDone, Raise, Finish,
       Retry, pointVars
<1>9. CASE UNCHANGED vars
  BY <1>9 DEF AcceptMoves, vars, pointVars
<1> QED
  BY <1>2, <1>3, <1>4, <1>5, <1>6, <1>7, <1>8, <1>9 DEF Next, Run

\* The accepted state moves by accept() of a converged and recorded step alone.
THEOREM OnlyAcceptMovesHolds == Spec => OnlyAcceptMoves
<1>1. DriverInv /\ [Next]_vars => [AcceptMoves]_vars
  BY MovesByAccept
<1> QED
  BY <1>1, DriverInvariant, PTL DEF Spec, OnlyAcceptMoves
=============================================================================
