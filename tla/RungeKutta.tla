----------------------------- MODULE RungeKutta -----------------------------
(***************************************************************************)
(* butcher_tableau, and the two materials that integrate with one:         *)
(* j2_rk_plasticity and rk_integrator.                                     *)
(*                                                                         *)
(* The coefficients are in 24ths, rounded where they are not: what is      *)
(* zero, and every sum of a row, stays what it is.  So are strains,        *)
(* histories and states; a multiplier and a rate are whole.                *)
(***************************************************************************)
EXTENDS ReturnMap, VectorNewton, SequencesExt

Unit == 24

ButcherTableau ==
  [forward_euler     |-> [a |-> <<<<0>>>>, b |-> <<24>>],
   explicit_midpoint |-> [a |-> <<<<0, 0>>, <<12, 0>>>>, b |-> <<0, 24>>],
   rk4               |-> [a |-> <<<<0, 0, 0, 0>>, <<12, 0, 0, 0>>,
                                  <<0, 12, 0, 0>>, <<0, 0, 24, 0>>>>,
                          b |-> <<4, 8, 8, 4>>],
   implicit_euler    |-> [a |-> <<<<24>>>>, b |-> <<24>>],
   implicit_midpoint |-> [a |-> <<<<12>>>>, b |-> <<24>>],
   crank_nicolson    |-> [a |-> <<<<0, 0>>, <<12, 12>>>>, b |-> <<12, 12>>],
   sdirk3            |-> [a |-> <<<<10, 0>>, <<14, 10>>>>, b |-> <<14, 10>>],
   gauss_legendre_4  |-> [a |-> <<<<6, -1>>, <<13, 6>>>>, b |-> <<12, 12>>]]

\* tableau_by_name() knows these only.
Scheme == DOMAIN ButcherTableau
Stages(t) == DOMAIN ButcherTableau[t].b
A(t, i, j) == ButcherTableau[t].a[i][j]
B(t, i) == ButcherTableau[t].b[i]

IsExplicit(t) == \A i, j \in Stages(t) : i <= j => A(t, i, j) = 0
IsDirk(t) == \A i, j \in Stages(t) : i < j => A(t, i, j) = 0

\* The sums of a row and of the last update, over the stage values k there are.
Weighted(w, k) ==
  LET sum[j \in 0 .. Len(k)] == IF j = 0 THEN 0 ELSE sum[j - 1] + w[j] * k[j] IN sum[Len(k)]
RowSum(t, i, k) == Weighted(ButcherTableau[t].a[i], k)
LastSum(t, k) == Weighted(ButcherTableau[t].b, k)

\* A stage loop: max_iter evaluations, no last look after them.
StageRoots(R, J) ==
  LET at == Evaluated(R, J, 0)
  IN {x \in UNION {at[n] : n \in 1 .. MaxIter} : R[x] = 0}
StageSpent(R, J) == {x \in Evaluated(R, J, 0)[MaxIter] : R[x] # 0}

\* It divides by a derivative that vanishes, too: from there on the iterate is infinite or not
\* a number, never a root, and any of the grid stands for it.  n: the last evaluation that
\* may have been divided after.
StageDiverged(R, J, n) ==
  LET at == Evaluated(R, J, 0)
  IN IF \E i \in 1 .. n : \E x \in at[i] : R[x] # 0 /\ J[x] = 0 THEN Grid ELSE {}

-----------------------------------------------------------------------------
(***************************************************************************)
(* j2_rk_plasticity.  A stage is [dl, N]: the multiplier, and the flow     *)
(* direction where it ended.                                               *)
(***************************************************************************)
\* The constructor refuses a scheme whose terms above the diagonal its loop would drop.
RKConstructs(d) == d.tableau \in Scheme /\ IsDirk(d.tableau)

FlowAt(d, eps, ep) == IF eps = ep THEN 0 ELSE Sign(d.M * (eps - ep))
RKYield(d, eps, ep, kappa) == Abs(d.M * (eps - ep)) - YieldStress(d, kappa)

\* Where stage i starts from, after the stages k.
StageStart(d, o, i, k) ==
  [ep    |-> o.ep + RowSum(d.tableau, i, [j \in 1 .. Len(k) |-> k[j].dl * k[j].N]),
   kappa |-> o.kappa + RowSum(d.tableau, i, [j \in 1 .. Len(k) |-> k[j].dl])]

\* Consistency, at the start of the stage.  Bound: a modulus that vanishes, which the code
\* divides by and goes on from, has no outcome.
ExplicitStages(d, eps, at) ==
  LET F == RKYield(d, eps, at.ep, at.kappa)
  IN IF F > 0 /\ eps # at.ep
     THEN {[dl |-> dl, N |-> FlowAt(d, eps, at.ep), ok |-> TRUE] :
             dl \in Step(0, F, -Unit * (d.M + HardeningModulus(d, at.kappa)))}
     ELSE {[dl |-> 0, N |-> 0, ok |-> TRUE]}

\* F = 0 at the stage, with the flow direction n of the trial state.
StageResidual(d, eps, at, a, n) ==
  [dl \in Grid |-> RKYield(d, eps, at.ep + a * dl * n, at.kappa + a * dl)]
StageJacobian(d, at, a) ==
  [dl \in Grid |-> -a * (d.M + HardeningModulus(d, at.kappa + a * dl))]

\* One that does not converge ends the loop, the history being that of its last evaluation.
ImplicitStages(d, eps, at, a, n) ==
  LET R == StageResidual(d, eps, at, a, n)
      J == StageJacobian(d, at, a)
  IN {[dl |-> dl, N |-> FlowAt(d, eps, at.ep + a * dl * n), ok |-> TRUE] : dl \in StageRoots(R, J)}
     \cup {[dl |-> dl, N |-> 0, ok |-> FALSE] :
              dl \in StageSpent(R, J) \cup StageDiverged(R, J, MaxIter - 1)}

NextStages(d, o, eps, i, k) ==
  LET at == StageStart(d, o, i, k)
      a  == A(d.tableau, i, i)
  IN IF a = 0 THEN ExplicitStages(d, eps, at)
              ELSE ImplicitStages(d, eps, at, a, FlowAt(d, eps, o.ep))

StageSequences(d, o, eps) ==
  LET upto[i \in {0} \cup Stages(d.tableau)] ==
        IF i = 0 THEN {<<>>}
        ELSE UNION {IF k # <<>> /\ ~Last(k).ok THEN {k}
                    ELSE {Append(k, e) : e \in NextStages(d, o, eps, i, k)} : k \in upto[i - 1]}
  IN upto[Len(ButcherTableau[d.tableau].b)]

RKReturn(d, o, g, eps, k) ==
  LET last == StageStart(d, o, Len(k), Front(k))
      ep   == o.ep + LastSum(d.tableau, [j \in 1 .. Len(k) |-> k[j].dl * k[j].N])
  IN IF ~Last(k).ok
     THEN Cutback(d, g, last.kappa + A(d.tableau, Len(k), Len(k)) * Last(k).dl)
     ELSE Returned(d, g, ep, o.kappa + LastSum(d.tableau, [j \in 1 .. Len(k) |-> k[j].dl]),
                   d.M * (eps - ep))

RKCompute(d, o, g, eps) ==
  IF RKYield(d, eps, o.ep, o.kappa) <= 0
  THEN {Elastic(d, o, g, d.M * (eps - o.ep))}
  ELSE {RKReturn(d, o, g, eps, k) : k \in StageSequences(d, o, eps)}

-----------------------------------------------------------------------------
(***************************************************************************)
(* rk_integrator, with curing_rate or kamal_sourour_rate; the exponents m  *)
(* and n are 1.  A residual and its derivative are multiplied by Unit.     *)
(***************************************************************************)
Whole(d) == Unit * d.whole    \* the state 1

Inside(d, y) == AtMost(AtLeast(y, 0), Whole(d))

\* curing_rate is zero at both ends; kamal_sourour_rate starts by itself.
Rate(d, y) ==
  IF y >= Whole(d) \/ (d.law = "curing" /\ y <= 0) THEN 0
  ELSE ((d.k1 * Whole(d) + d.k2 * Inside(d, y)) * (Whole(d) - Inside(d, y))) \div (Unit * Whole(d))

RateDerivative(d, y) ==
  IF y >= Whole(d) \/ (d.law = "curing" /\ y <= 0) THEN 0
  ELSE d.k2 - d.k1 - (2 * d.k2 * Inside(d, y)) \div Whole(d)

\* k - rate(y), at y = from + h a k.
RateResidual(d, from, a) == [k \in Grid |-> Unit * (k - Rate(d, from + d.h * a * k))]
RateJacobian(d, from, a) ==
  [k \in Grid |-> Unit - d.h * a * RateDerivative(d, from + d.h * a * k)]

\* Stage i after the stages k: explicit, or the root, or where the iteration is after
\* max_iter steps, which goes into the sum like a root.
RateStages(d, y, i, k) ==
  LET from == y + d.h * RowSum(d.tableau, i, k.at)
      a    == A(d.tableau, i, i)
      R    == RateResidual(d, from, a)
      J    == RateJacobian(d, from, a)
  IN IF a = 0 THEN {[k EXCEPT !.at = Append(@, Rate(d, from))]}
     ELSE {[k EXCEPT !.at = Append(@, r)] : r \in StageRoots(R, J)}
          \cup {[at |-> Append(k.at, r), converged |-> FALSE] :
                  r \in (Evaluated(R, J, 0)[MaxIter + 1] \ StageRoots(R, J))
                       \cup StageDiverged(R, J, MaxIter)}

DirkStages(d, y) ==
  LET upto[i \in {0} \cup Stages(d.tableau)] ==
        IF i = 0 THEN {[at |-> <<>>, converged |-> TRUE]}
        ELSE UNION {RateStages(d, y, i, k) : k \in upto[i - 1]}
  IN upto[Len(ButcherTableau[d.tableau].b)]

\* Two coupled stages, by a Newton iteration for both.
CoupledStages(d, y) ==
  LET at(i, k) == y + d.h * RowSum(d.tableau, i, k)
      df(i, k) == d.h * RateDerivative(d, at(i, k))
      R == [k \in Iterate |-> [i \in 1 .. 2 |-> Unit * (k[i] - Rate(d, at(i, k)))]]
      J == [k \in Iterate |-> [i \in 1 .. 2 |-> [j \in 1 .. 2 |->
              (IF i = j THEN Unit ELSE 0) - df(i, k) * A(d.tableau, i, j)]]]
      its == IteratesOf(R, J)
      roots == {k \in UNION {its[n] : n \in 1 .. MaxIter} : R[k] = Seed}
      singular == {k \in UNION {its[n] : n \in 1 .. MaxIter} : R[k] # Seed /\ Det(J[k]) = 0}
  IN {[at |-> k, converged |-> TRUE] : k \in roots}
     \cup {[at |-> k, converged |-> FALSE] :
              k \in (its[MaxIter + 1] \ roots) \cup (IF singular = {} THEN {} ELSE Iterate)}

\* Whether it converged is for the caller to ask.
IntegratorCompute(d, o, g) ==
  {[end |-> "returned",
    graph |-> [g EXCEPT !.hist = o + d.h * LastSum(d.tableau, k.at), !.converged = k.converged]] :
      k \in IF IsDirk(d.tableau) THEN DirkStages(d, o) ELSE CoupledStages(d, o)}

-----------------------------------------------------------------------------
\* Plastic flow along the trial stress, no more of it than hardening.
RKSolves(d, o, eps, g) ==
  /\ g.stress = d.M * (eps - g.hist.ep)
  /\ Abs(g.hist.ep - o.ep) <= g.hist.kappa - o.kappa
  /\ Abs(d.M * (eps - o.ep)) <= YieldStress(d, o.kappa) => g.hist = o

\* The implicit schemes of one stage, where they converge.
IntegratorSolves(d, o, g) ==
  /\ g.converged /\ d.tableau = "implicit_euler" => g.hist = o + Unit * d.h * Rate(d, g.hist)
  /\ g.converged /\ d.tableau = "implicit_midpoint" =>
       g.hist = o + Unit * d.h * Rate(d, (o + g.hist) \div 2)
=============================================================================
