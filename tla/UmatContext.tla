---------------------------- MODULE UmatContext ----------------------------
(***************************************************************************)
(* What one thread keeps for one material name (umat/umat_interface.h,     *)
(* thread_state): a finalized context and the evaluators over it, and what *)
(* umat/material_point_evaluator.h does to it in a call.  MaterialPoint    *)
(* models how an evaluation runs; here it has a result or throws.          *)
(*                                                                         *)
(* A history is the sequence of what it went through, rotations and        *)
(* evaluated strain increments with the constants they were evaluated      *)
(* with, and a stress names the history it starts from, the increment and  *)
(* the constants, so that anything left by another call is seen.           *)
(***************************************************************************)
EXTENDS Naturals, Sequences

CONSTANTS
  Plane,      \* the strain components the host prescribes
  Out,        \* the out-of-plane strain
  Rest, Flat, \* those of a virgin point
  Value,      \* the value of a material constant
  Rotation,   \* a rotation of the history by DROT
  Zero        \* the stress of a virgin point, and of a failed call

ASSUME ContextAssumption == Rest \in Plane /\ Flat \in Out

Strain == [plane : Plane, out : Out]
Increment == [old : Strain, new : Strain]
Constants == Seq(Value)
Entry == {Rotation} \cup [strain : Increment, props : Constants]
History == Seq(Entry)
Result == [hist : History, strain : Increment, props : Constants]
Stress == {Zero} \cup Result

Context == [props : Constants,   \* what the graph was built from
            live : Constants,    \* what the props_scalar readers were bound to
            hist : [old : History, new : History],
            strain : Increment,  \* the strain source
            stress : Stress, failed : BOOLEAN]

Fresh(props) == [props |-> props, live |-> props, hist |-> [old |-> <<>>, new |-> <<>>],
                 strain |-> [old |-> [plane |-> Rest, out |-> Flat],
                             new |-> [plane |-> Rest, out |-> Flat]],
                 stress |-> Zero, failed |-> FALSE]

\* reset(): revert() of every history, the strain source's too; it also clears a
\* failed update.
Reset(c) == [c EXCEPT !.hist.new = c.hist.old, !.strain.new = c.strain.old,
                      !.failed = FALSE]

\* load_history(): STATEV into both ends.
LoadHistory(c, h) == [c EXCEPT !.hist = [old |-> h, new |-> h]]

\* rotate_history(): both ends.
RotateHistory(c) == [c EXCEPT !.hist = [old |-> Append(c.hist.old, Rotation),
                                        new |-> Append(c.hist.new, Rotation)]]

\* bind() of the strain source.
BindStrain(c, d) == [c EXCEPT !.strain = d]

Loaded(c, h, rotate) ==
  IF rotate THEN RotateHistory(LoadHistory(c, h)) ELSE LoadHistory(c, h)

\* A mutant of Prepared: a failed context stays one.
PreparedUnreset(c, h, rotate, d) == BindStrain(Loaded(c, h, rotate), d)

\* What evaluate_canonical() does before the update.
Prepared(c, h, rotate, d) == BindStrain(Loaded(Reset(c), h, rotate), d)

\* The constants the materials read: those in slots of live readers are those of
\* the call, the others are part of the graph.
Read(c, live) == [i \in 1 .. Len(c.props) |-> IF i \in live THEN c.live[i] ELSE c.props[i]]

\* A mutant of Matches: only the number of constants is compared.
MatchesLength(c, live, props) == Len(props) = Len(c.props)

\* The check of thread_state_for() on a cached context.
Matches(c, live, props) ==
  /\ Len(props) = Len(c.props)
  /\ \A i \in 1 .. Len(props) : i \notin live => props[i] = c.props[i]

\* An update that returns.
Evaluated(c, live) ==
  [c EXCEPT !.hist.new = Append(c.hist.old, [strain |-> c.strain, props |-> Read(c, live)]),
            !.stress = [hist |-> c.hist.old, strain |-> c.strain, props |-> Read(c, live)]]

\* An update that throws, or does not reach its fixed point: what ran before it
\* has been written.
Thrown(c, live) ==
  {[w EXCEPT !.failed = f] : f \in BOOLEAN, w \in {c, Evaluated(c, live)}}
=============================================================================
