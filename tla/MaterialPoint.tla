--------------------------- MODULE MaterialPoint ---------------------------
(***************************************************************************)
(* One material point (driver/material_point.h) whose history the engine   *)
(* owns: the load its driver binds, the history of its materials at both   *)
(* ends of the step, and what the graph carries from one update to the     *)
(* next outside of any history.  PropertyEngine models how an update runs; *)
(* here an update is one action with every outcome the engine allows.      *)
(*                                                                         *)
(* A history is the sequence of the loads it went through, and a result    *)
(* names the history and the load it was computed from, so that a value    *)
(* that came from a rejected or perturbed trial is seen wherever it goes.  *)
(***************************************************************************)
EXTENDS Naturals, Sequences

CONSTANTS
  Load,       \* the values a driver may bind: strains, or deformation gradients
  Unloaded,   \* what the source holds when it is created
  Iterates,   \* whether the graph has local edges and the point a residual for them
  MaxPasses   \* the parameter "max_passes"

ASSUME PointAssumption ==
  /\ Unloaded \in Load
  /\ Iterates \in BOOLEAN
  /\ MaxPasses \in Nat \ {0}

VARIABLES
  load,       \* the source's history: its accepted and its bound value
  derived,    \* the value the source's inverse and determinant were computed from
  hist,       \* the materials' history: accepted, and of the trial
  medium,     \* what the passes iterate on: the tangents the phases were localised with
  stress,     \* the outputs of the last update
  residual,   \* the residual of the last update: "met", "above" or "nan"
  failed,     \* the last update threw (property_engine::m_failed)
  pass,       \* the updates of this evaluation
  state       \* "ready", "evaluating", "evaluated" or "thrown"

pointVars == <<load, derived, hist, medium, stress, residual, failed, pass, state>>

Entry == [load : Load, fixed : BOOLEAN]
History == Seq(Entry)
Outputs == [history : History, load : Load, fixed : BOOLEAN]

\* A medium that no step's passes have agreed on.
Unfixed == [history |-> <<>>, load |-> Unloaded, fixed |-> FALSE]

\* The medium on which the passes for load e from history h agree.
FixedAt(h, e) == [history |-> h, load |-> e, fixed |-> TRUE]

\* Whether an update reads what it produces.
Agrees(h, e) == ~Iterates \/ medium = FixedAt(h, e)

\* The media an update may produce: the passes approach theirs, and stay there.
Produced(h, e) ==
  IF Agrees(h, e) THEN {FixedAt(h, e)} ELSE {Unfixed, FixedAt(h, e)}

Result(h, e) == [history |-> h, load |-> e, fixed |-> Agrees(h, e)]
Trial(h, e) == Append(h, [load |-> e, fixed |-> Agrees(h, e)])

PointTypeOK ==
  /\ load \in [old : Load, new : Load]
  /\ derived \in Load
  /\ hist \in [old : History, new : History]
  /\ medium \in Outputs /\ stress \in Outputs
  /\ residual \in {"met", "above", "nan"}
  /\ failed \in BOOLEAN
  /\ pass \in 0 .. MaxPasses
  /\ state \in {"ready", "evaluating", "evaluated", "thrown"}

PointInit ==
  /\ load = [old |-> Unloaded, new |-> Unloaded] /\ derived = Unloaded
  /\ hist = [old |-> <<>>, new |-> <<>>]
  /\ medium = Unfixed /\ stress = Unfixed
  /\ residual = "above" /\ failed = FALSE
  /\ pass = 0 /\ state = "ready"

\* A mutant of Done: one update is enough.
DoneAtOnce(r) == TRUE

\* evaluate() returns once the residual, if there is one, is within its
\* tolerance: NaN is not.
Done(r) == ~Iterates \/ r = "met"

\* One update of the graph for load e, from history h; new is the trial's history
\* before it.
Update(h, new, e) ==
  /\ medium' \in Produced(h, e)
  /\ residual' \in IF Agrees(h, e) THEN {"met"} ELSE {"above", "nan"}
  /\ hist' = [old |-> h, new |-> Trial(h, e)]
  /\ stress' = Result(h, e)
  /\ failed' = FALSE
  /\ state' = IF Done(residual') THEN "evaluated" ELSE "evaluating"

\* A callback throws: what ran before it has been written, the rest has not.
UpdateThrows(h, new, e) ==
  /\ medium' \in {medium} \cup Produced(h, e)
  /\ hist' \in {[old |-> h, new |-> n] : n \in {new, Trial(h, e)}}
  /\ stress' \in {stress, Result(h, e)}
  /\ failed' = TRUE /\ state' = "thrown"
  /\ UNCHANGED residual

\* A mutant of Evaluate: bind() leaves the inverse and the determinant.
EvaluateUnderived(e) ==
  /\ load' = [load EXCEPT !.new = e]
  /\ pass' = 1
  /\ Update(hist.old, hist.old, e) \/ UpdateThrows(hist.old, hist.old, e)
  /\ UNCHANGED derived

\* reset() of the history, then the source is bound to e and the graph updated.
\* The gate of update() for a failed context is passed: reset() has cleared it.
Evaluate(e) ==
  /\ load' = [load EXCEPT !.new = e] /\ derived' = e
  /\ pass' = 1
  /\ Update(hist.old, hist.old, e) \/ UpdateThrows(hist.old, hist.old, e)

\* Another pass is due.
Repeats == state = "evaluating" /\ pass < MaxPasses /\ residual # "nan"

\* The next pass to the fixed point, without a reset.
Repeat ==
  /\ Repeats /\ ~failed
  /\ pass' = pass + 1
  /\ \/ Update(hist.old, hist.new, load.new)
     \/ UpdateThrows(hist.old, hist.new, load.new)
  /\ UNCHANGED <<load, derived>>

\* cutback_error: the residual is NaN or the passes are used up.
GiveUp ==
  /\ state = "evaluating" /\ ~Repeats
  /\ state' = "thrown"
  /\ UNCHANGED <<load, derived, hist, medium, stress, residual, failed, pass>>

\* revert(): every history, the source's too, back to the accepted value.
Reset ==
  /\ hist' = [hist EXCEPT !.new = hist.old]
  /\ load' = [load EXCEPT !.new = load.old]
  /\ failed' = FALSE /\ state' = "ready"
  /\ UNCHANGED <<derived, medium, stress, residual, pass>>

\* commit(), refused by the engine after a failed update.
Accept ==
  /\ ~failed
  /\ hist' = [hist EXCEPT !.old = hist.new]
  /\ load' = [load EXCEPT !.old = load.new]
  /\ state' = "ready"
  /\ UNCHANGED <<derived, medium, stress, residual, failed, pass>>
=============================================================================
