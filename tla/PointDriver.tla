---------------------------- MODULE PointDriver ----------------------------
(***************************************************************************)
(* The drivers of a material point (driver/material_point_driver.h and     *)
(* driver/deformation_gradient_driver.h, alike but for the load) and the   *)
(* load case of a report that calls them (report/case_runner.h): a step is *)
(* a Newton iteration on the stress-controlled components, its row is      *)
(* recorded with an optional finite difference check of its tangent, then  *)
(* the step is accepted or rejected.                                       *)
(***************************************************************************)
EXTENDS MaterialPoint, Integers

CONSTANTS
  Strain,           \* the loads a step may end at
  Perturbed(_, _),  \* Perturbed(e, d): e with the component |d| moved up or down
  Probe,            \* the perturbations of a tangent check, in order
  Path,             \* the steps of the case, the unloaded state first
  MaxIter,          \* the parameter "max_iter"
  TangentEvery,     \* the case's "tangent_every"
  MaxRetries        \* bound on the times a caller tries again

ASSUME DriverAssumption ==
  /\ Unloaded \in Strain /\ Strain \subseteq Load
  /\ Probe \in Seq(Int)
  /\ \A e \in Strain : \A i \in 1 .. Len(Probe) : Perturbed(e, Probe[i]) \in Load
  /\ Path \in Seq([target : Strain, stressed : BOOLEAN]) /\ Path # <<>>
  /\ MaxIter \in Nat /\ TangentEvery \in Nat /\ MaxRetries \in Nat

VARIABLES
  phase,    \* where record_step and the driver are
  index,    \* the load step to run; as many steps are accepted
  it,       \* Newton corrections of this step
  res,      \* step_result of the last step
  todo,     \* the loads tangent_error() has yet to evaluate
  row,      \* the step_record being filled
  rows,     \* what the sink has received
  retries   \* the times the caller tried again

driverVars == <<phase, index, it, res, todo, row, rows, retries>>
vars == <<pointVars, driverVars>>

Phases == {"idle", "step", "stepped", "check", "record", "raised", "stopped", "done"}
StepResult == [load : Load, stress : Outputs, converged : BOOLEAN]
Record == [index : Nat, load : Load, stress : Outputs, history : History,
           converged : BOOLEAN, checked : BOOLEAN]

NoResult == [load |-> Unloaded, stress |-> Unfixed, converged |-> FALSE]
NoRow == [index |-> 0, load |-> Unloaded, stress |-> Unfixed, history |-> <<>>,
          converged |-> FALSE, checked |-> FALSE]

TypeOK ==
  /\ PointTypeOK
  /\ phase \in Phases
  /\ index \in 0 .. Len(Path) /\ it \in 0 .. MaxIter
  /\ res \in StepResult /\ row \in Record /\ rows \in Seq(Record)
  /\ todo \in Seq(Load)
  /\ retries \in 0 .. MaxRetries

Init ==
  /\ PointInit
  /\ phase = "idle" /\ index = 0 /\ it = 0 /\ retries = 0
  /\ res = NoResult /\ row = NoRow /\ rows = <<>> /\ todo = <<>>

Step == Path[index + 1]

\* The strain-controlled components are the step's, the others start from the
\* accepted strain.
FirstGuess == IF Step.stressed THEN load.old ELSE Step.target

\* A mutant of Corrections: the projector is missing.
CorrectsAll == Strain

\* A Newton correction moves the stress-controlled components only.
Corrections == IF Step.stressed THEN Strain ELSE {Step.target}

\* step()
StartStep ==
  /\ phase = "idle" /\ index < Len(Path)
  /\ Evaluate(FirstGuess)
  /\ phase' = "step" /\ it' = 0
  /\ UNCHANGED <<index, res, todo, row, rows, retries>>

\* evaluate() goes on inside step() or tangent_error().
Pass ==
  /\ phase \in {"step", "check"}
  /\ Repeat \/ GiveUp
  /\ UNCHANGED driverVars

TrialOf(converged) == [load |-> load.new, stress |-> stress, converged |-> converged]

\* The stress residual is within the tolerance.
Converge ==
  /\ phase = "step" /\ state = "evaluated"
  /\ res' = TrialOf(TRUE) /\ phase' = "stepped"
  /\ UNCHANGED <<pointVars, index, it, todo, row, rows, retries>>

\* It is not, or it is NaN, and the iterations are used up: the result stays
\* the evaluated trial.
OutOfIterations ==
  /\ phase = "step" /\ state = "evaluated" /\ it = MaxIter
  /\ res' = TrialOf(FALSE) /\ phase' = "stepped"
  /\ UNCHANGED <<pointVars, index, it, todo, row, rows, retries>>

\* A mutant of Correct: the corrections are not counted.
CorrectUncounted ==
  /\ phase = "step" /\ state = "evaluated" /\ it < MaxIter
  /\ \E e \in Corrections : Evaluate(e)
  /\ UNCHANGED <<phase, index, it, res, todo, row, rows, retries>>

Correct ==
  /\ phase = "step" /\ state = "evaluated" /\ it < MaxIter
  /\ \E e \in Corrections : Evaluate(e)
  /\ it' = it + 1
  /\ UNCHANGED <<phase, index, res, todo, row, rows, retries>>

\* The unloaded state is not checked.
CheckDue ==
  /\ res.converged /\ index > 0 /\ TangentEvery > 0
  /\ index % TangentEvery = 0

\* tangent_error(): the perturbed trials, then the trial again.
Perturbations == [i \in 1 .. Len(Probe) |-> Perturbed(res.load, Probe[i])]
\* A mutant of CheckLoads: the trial is not evaluated again.
NoTrialAgain == Perturbations

CheckLoads == Append(Perturbations, res.load)

Columns == [index |-> index, load |-> load.new, stress |-> stress,
            history |-> hist.new, converged |-> res.converged, checked |-> FALSE]

\* record_step(): the columns are those of the trial, before any check.
OpenRow ==
  /\ phase = "stepped"
  /\ row' = Columns
  /\ \/ CheckDue /\ phase' = "check" /\ todo' = CheckLoads
     \/ ~CheckDue /\ phase' = "record" /\ UNCHANGED todo
  /\ UNCHANGED <<pointVars, index, it, res, rows, retries>>

CheckNext ==
  /\ phase = "check" /\ state = "evaluated" /\ todo # <<>>
  /\ Evaluate(Head(todo))
  /\ todo' = Tail(todo)
  /\ UNCHANGED <<phase, index, it, res, row, rows, retries>>

CheckDone ==
  /\ phase = "check" /\ state = "evaluated" /\ todo = <<>>
  /\ row' = [row EXCEPT !.checked = TRUE] /\ phase' = "record"
  /\ UNCHANGED <<pointVars, index, it, res, todo, rows, retries>>

\* sink.record(), then accept().
RecordAndAccept ==
  /\ phase = "record" /\ res.converged
  /\ Accept
  /\ rows' = Append(rows, row)
  /\ index' = index + 1 /\ phase' = "idle"
  /\ UNCHANGED <<it, res, todo, row, retries>>

\* A mutant of RecordAndReject: accept() whether the step converged or not.
RejectCommits ==
  /\ phase = "record" /\ ~res.converged
  /\ Accept
  /\ rows' = Append(rows, row)
  /\ phase' = "stopped"
  /\ UNCHANGED <<index, it, res, todo, row, retries>>

\* sink.record(), then reject(): the case stops.
RecordAndReject ==
  /\ phase = "record" /\ ~res.converged
  /\ Reset
  /\ rows' = Append(rows, row)
  /\ phase' = "stopped"
  /\ UNCHANGED <<index, it, res, todo, row, retries>>

\* An exception leaves step() or tangent_error(): no row, no accept, no reject.
Raise ==
  /\ phase \in {"step", "check"} /\ state = "thrown"
  /\ phase' = "raised" /\ todo' = <<>>
  /\ UNCHANGED <<pointVars, index, it, res, row, rows, retries>>

Finish ==
  /\ phase = "idle" /\ index = Len(Path)
  /\ phase' = "done"
  /\ UNCHANGED <<pointVars, index, it, res, todo, row, rows, retries>>

\* A caller of the driver may run the step again, without a reject() of its own.
\* A load case does not.
Retry ==
  /\ phase \in {"raised", "stopped"} /\ retries < MaxRetries
  /\ phase' = "idle" /\ retries' = retries + 1
  /\ UNCHANGED <<pointVars, index, it, res, todo, row, rows>>

Run ==
  \/ StartStep \/ Pass \/ Converge \/ OutOfIterations \/ Correct
  \/ OpenRow \/ CheckNext \/ CheckDone
  \/ RecordAndAccept \/ RecordAndReject \/ Raise \/ Finish

Next == Run \/ Retry

Spec == Init /\ [][Next]_vars

\* The driver runs in the caller's thread, which goes on; whether a caller tries
\* again is its own decision.
FairSpec == Spec /\ WF_vars(Run)
-----------------------------------------------------------------------------
\* The accepted loads are those of the converged rows, one row per step and in
\* its order: a step that threw, was rejected or was only a perturbation is not
\* among them, and none is missing.
AcceptedIsRecorded ==
  /\ Len(hist.old) = index
  /\ load.old = IF index = 0 THEN Unloaded ELSE hist.old[index].load
  /\ \A i \in 1 .. Len(rows) : rows[i].converged =>
       /\ rows[i].index < index
       /\ rows[i].load = hist.old[rows[i].index + 1].load
  /\ \A n \in 0 .. index - 1 : \E i \in 1 .. Len(rows) :
       /\ rows[i].converged /\ rows[i].index = n
       /\ \A j \in 1 .. Len(rows) : rows[j].converged /\ rows[j].index = n => j = i

\* What accept() is about to commit is the trial step() returned and the row
\* shows, evaluated from the accepted state, although a tangent check has
\* evaluated others in between.
TrialStands ==
  phase \in {"stepped", "record"} =>
    /\ ~failed
    /\ load.new = res.load /\ derived = res.load /\ stress = res.stress
    /\ hist.new = Append(hist.old, [load |-> res.load, fixed |-> TRUE])
    /\ phase = "record" =>
         /\ row.index = index /\ row.converged = res.converged
         /\ row.load = res.load /\ row.stress = stress /\ row.history = hist.new

\* A row depends on the accepted steps before it and on its own load alone: no
\* earlier trial, pass or check has left a trace in it.
NoTraceOfTrials ==
  \A i \in 1 .. Len(rows) :
    /\ rows[i].index <= index
    /\ rows[i].stress = FixedAt(SubSeq(hist.old, 1, rows[i].index), rows[i].load)
    /\ rows[i].history = Append(SubSeq(hist.old, 1, rows[i].index),
                                [load |-> rows[i].load, fixed |-> TRUE])

\* The accepted state moves by the accept() of a converged step only, which the
\* sink has a row of, and a strain-controlled one ends at the load it prescribes.
AcceptMoves ==
  hist.old' # hist.old \/ load.old' # load.old =>
    /\ res.converged /\ phase = "record"
    /\ hist.old' = Append(hist.old, [load |-> res.load, fixed |-> TRUE])
    /\ load.old' = res.load
    /\ rows' = Append(rows, row) /\ row.converged
    /\ ~Step.stressed => res.load = Step.target

\* Each step of the system is such a one.
OnlyAcceptMoves == [][AcceptMoves]_vars

\* Every call of the driver returns or throws.
CallsEnd == phase \in {"step", "stepped", "check", "record"}
              ~> phase \in {"idle", "raised", "stopped"}

\* An evaluation that returned has the fixed point of its load in the graph.
EvaluatedIsSettled ==
  /\ state \in {"evaluating", "evaluated"} => ~failed /\ derived = load.new
  /\ state = "evaluated" =>
       /\ hist.new = Append(hist.old, [load |-> load.new, fixed |-> TRUE])
       /\ stress = FixedAt(hist.old, load.new)

\* A step stays within its own components, and its load within the loads.
StepIsHeld ==
  /\ load.old \in Strain
  /\ phase \in {"step", "stepped", "check", "record"} => index < Len(Path)
  /\ phase = "step" =>
       load.new \in Strain /\ (~Step.stressed => load.new = Step.target)
  /\ phase \in {"stepped", "check", "record"} =>
       /\ res.load \in Strain /\ (~Step.stressed => res.load = Step.target)
       /\ res.stress = FixedAt(hist.old, res.load)
  /\ phase \in {"stepped", "record"} => state = "evaluated"

\* A tangent check has the row of the trial, and ends where it began.
CheckEndsOnTrial ==
  /\ phase \in {"check", "record"} =>
       /\ row.index = index /\ row.converged = res.converged
       /\ row.load = res.load /\ row.stress = res.stress
       /\ row.history = Append(hist.old, [load |-> res.load, fixed |-> TRUE])
  /\ phase = "check" =>
       IF todo = <<>> THEN load.new = res.load ELSE todo[Len(todo)] = res.load

\* The inductive invariant.
DriverInv ==
  /\ TypeOK
  /\ EvaluatedIsSettled /\ StepIsHeld /\ CheckEndsOnTrial
  /\ AcceptedIsRecorded /\ TrialStands /\ NoTraceOfTrials
=============================================================================
