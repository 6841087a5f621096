-------------------------------- MODULE Cure --------------------------------
(***************************************************************************)
(* autocatalytic_reaction and the backward_euler that integrates it.       *)
(*                                                                         *)
(* The history is the degree of cure in parts of One, the exponent m is 0  *)
(* or 1 and n is 1, and the load of a step is k dt.  The solver reads      *)
(* residual and derivative, both multiplied by One, at the increment it    *)
(* tries.                                                                  *)
(***************************************************************************)
EXTENDS NewtonScalar

CONSTANT One

\* z^m (1 - z) and its derivative.
CureRate(d, z) == (IF d.m = 0 THEN One ELSE z) * (One - z)
CureSlope(d, z) == IF d.m = 0 THEN -One ELSE One - 2 * z

\* The state the rate law sees: short of 1, where the rate vanishes.
Total(z, dz) == AtMost(z + Abs(dz), One)

CureResidual(d, z, load) ==
  [dz \in Grid |-> IF z >= One THEN 0
                   ELSE One * Abs(dz) - load * CureRate(d, Total(z, dz))]
CureJacobian(d, z, load) ==
  [dz \in Grid |-> IF z >= One THEN One ELSE One - load * CureSlope(d, Total(z, dz))]

\* update() of the solver: the sign is dropped, and it publishes also what did not
\* converge.
Increments(d, z, load) ==
  {[delta |-> Abs(r.x), converged |-> r.converged] :
     r \in Solve(CureResidual(d, z, load), CureJacobian(d, z, load), 0)}

\* update() of the reaction adds to what the history holds, not to the accepted value.
Cured(z, delta) == AtMost(z + delta, One)

CureCompute(d, g, load) ==
  {[end |-> "returned",
    graph |-> [g EXCEPT !.hist = Cured(g.hist, i.delta), !.converged = i.converged]] :
      i \in Increments(d, g.hist, load)}

-----------------------------------------------------------------------------
\* Cure grows from the accepted degree o, to 1 at most; by the implicit Euler step where
\* the solver converged.
CureSolves(d, o, load, g) ==
  /\ o <= g.hist /\ g.hist <= One
  /\ g.converged /\ o < One => One * (g.hist - o) = load * CureRate(d, g.hist)
=============================================================================
