-------------------------- MODULE KinematicReturn --------------------------
(***************************************************************************)
(* j2_kinematic_plasticity: the coupled return of the multiplier and the   *)
(* increment of the back stress by a vector_newton, along one direction of *)
(* the deviator.  Parameters, history and graph as in ReturnMap, with the  *)
(* back stress beta and, as graph.solver, the solver.                      *)
(***************************************************************************)
EXTENDS ReturnMap, VectorNewton

Flow(eta) == IF eta = 0 THEN 0 ELSE Sign(eta)

\* compute_residual() at the iterate <<dl, db>>, s being the cached trial stress.  The
\* second derivative A of the yield function has no part along the one direction.
KinResidual(d, o, s, x) ==
  LET beta == o.beta + x[2]
      eta  == s - beta
  IN <<Abs(eta) - d.M * x[1] - YieldStress(d, o.kappa + x[1]),
       (1 + d.gamma * x[1]) * beta - o.beta - d.C * x[1] * Flow(eta)>>

KinJacobian(d, o, s, x) ==
  LET beta == o.beta + x[2]
      N    == Flow(s - beta)
  IN <<<<-d.M - HardeningModulus(d, o.kappa + x[1]), -N>>,
       <<d.gamma * beta - d.C * N, 1 + d.gamma * x[1]>>>>

\* What compute_residual() leaves in the history and the hardening.
ComputeResidual(d, o, g) == Hardened(d, g, o.kappa + g.solver.x[1])

KinElastic(d, o, g, s) ==
  [end |-> "returned",
   graph |-> [Hardened(d, [g EXCEPT !.solver = Reset(g.solver)], o.kappa) EXCEPT
                !.hist = o, !.stress = s]]

KinPlastic(d, o, g, s, v) ==
  LET dl   == v.x[1]
      beta == o.beta + v.x[2]
      N    == Flow(s - beta)
  IN Returned(d, [g EXCEPT !.solver = v, !.hist.beta = beta],
              o.ep + dl * N, o.kappa + dl, s - d.M * dl * N)

KinCutback(d, o, g, v) == Cutback(d, [g EXCEPT !.solver = v], o.kappa + v.x[1])

\* A mutant of KinReturn: a negative multiplier is taken.
KinReturnAnySign(d, o, g, s, v) ==
  IF ~v.converged THEN KinCutback(d, o, g, v) ELSE KinPlastic(d, o, g, s, v)

KinReturn(d, o, g, s, v) ==
  IF ~v.converged \/ v.x[1] < 0 THEN KinCutback(d, o, g, v) ELSE KinPlastic(d, o, g, s, v)

KinCompute(d, o, g, eps) ==
  LET s == d.M * (eps - o.ep)
  IN IF d.graphDriven THEN {[end |-> "refused", graph |-> g]}
     ELSE IF Abs(s - o.beta) <= YieldStress(d, o.kappa)
     THEN {KinElastic(d, o, g, s)}
     ELSE {KinReturn(d, o, g, s, v) :
             v \in Solved(g.solver, [x \in Iterate |-> KinResidual(d, o, s, x)],
                          [x \in Iterate |-> KinJacobian(d, o, s, x)], s)}

\* The engine runs compute_residual() once per update as well, no edge saying whether
\* before or after compute().
KinUpdate(d, o, g, eps) ==
  IF d.residualFirst
  THEN KinCompute(d, o, ComputeResidual(d, o, g), eps)
  ELSE {IF r.end = "returned" THEN [r EXCEPT !.graph = ComputeResidual(d, o, r.graph)] ELSE r :
          r \in KinCompute(d, o, g, eps)}

-----------------------------------------------------------------------------
\* Backward Euler for the plastic strain, its length and the back stress.
KinSolves(d, o, eps, g) ==
  /\ g.stress = d.M * (eps - g.hist.ep)
  /\ \/ g.hist = o /\ Abs(g.stress - o.beta) <= YieldStress(d, o.kappa)
     \/ LET dl == g.hist.kappa - o.kappa
            dp == g.hist.ep - o.ep
        IN /\ dl >= 0
           /\ dp \in {-dl, 0, dl}
           /\ (1 + d.gamma * dl) * g.hist.beta = o.beta + d.C * dp
           /\ YieldStress(d, g.hist.kappa) >= 0 =>
                Abs(g.stress - g.hist.beta) = YieldStress(d, g.hist.kappa)

\* What the solver publishes belongs to this evaluation: its root, its factorization and
\* its derivative, or nothing after an elastic step.
SolverIsCurrent(d, o, eps, g) ==
  LET s == d.M * (eps - o.ep)
      v == g.solver
  IN IF v.converged
     THEN /\ KinResidual(d, o, s, v.x) = Seed
          /\ v.lu = <<s, v.x>> /\ v.de = <<s, v.x>>
          /\ g.hist.kappa = o.kappa + v.x[1] /\ g.hist.beta = o.beta + v.x[2]
     ELSE v.x = Seed /\ v.de = None /\ g.hist = o
=============================================================================
