----------------------------- MODULE ReturnMap -----------------------------
(***************************************************************************)
(* The return maps that hold a local_newton: j2_plasticity and             *)
(* drucker_prager_plasticity, with the hardening they rerun.               *)
(*                                                                         *)
(* Along one direction of the deviator a tensor is a number, and for the   *)
(* cone a second one, its trace.  d is a material with its parameters, o   *)
(* the accepted history of a point, g what the graph holds.  compute() is  *)
(* the set of its outcomes: the graph afterwards, and whether it returns.  *)
(***************************************************************************)
EXTENDS NewtonScalar

Sign(a) == IF a < 0 THEN -1 ELSE 1

\* linear_isotropic_hardening, and the saturating one, flat from d.flat on.
HardeningStress(d, kappa) ==
  d.K * (IF d.law = "linear" THEN kappa ELSE AtMost(kappa, d.flat))
HardeningModulus(d, kappa) ==
  IF d.law = "linear" \/ kappa < d.flat THEN d.K ELSE 0

YieldStress(d, kappa) == d.sigma0 + HardeningStress(d, kappa)

\* The hardening material, rerun on the history being tried.
Hardened(d, g, kappa) ==
  [g EXCEPT !.hist.kappa = kappa, !.H = HardeningStress(d, kappa),
            !.dH = HardeningModulus(d, kappa)]

\* cutback_error: the last evaluation stays in the graph.
Cutback(d, g, kappa) == [end |-> "cutback", graph |-> Hardened(d, g, kappa)]

Returned(d, g, ep, kappa, s) ==
  [end |-> "returned",
   graph |-> [Hardened(d, g, kappa) EXCEPT !.hist.ep = ep, !.stress = s]]

Elastic(d, o, g, s) == Returned(d, g, o.ep, o.kappa, s)

\* The residual of both returns: phi - G_eff dl - sigma_0 - H(kappa_n + dl).
Residual(d, o, phi, geff) == [dl \in Grid |-> phi - geff * dl - YieldStress(d, o.kappa + dl)]
Jacobian(d, o, geff) == [dl \in Grid |-> -geff - HardeningModulus(d, o.kappa + dl)]

ScalarReturn(d, o, phi, geff) == Solve(Residual(d, o, phi, geff), Jacobian(d, o, geff), 0)

-----------------------------------------------------------------------------
(***************************************************************************)
(* j2_plasticity: strain and history along one direction, d.M is 3G.       *)
(***************************************************************************)
J2Trial(d, o, eps) == d.M * (eps - o.ep)

J2Plastic(d, o, g, s, dl) ==
  Returned(d, g, o.ep + dl * Sign(s), o.kappa + dl, s - d.M * dl * Sign(s))

\* A mutant of J2Return: the multiplier is clamped, as it used to be.
J2ReturnClamped(d, o, g, s, r) ==
  IF ~r.converged THEN Cutback(d, g, o.kappa + r.x) ELSE J2Plastic(d, o, g, s, AtLeast(r.x, 0))

J2Return(d, o, g, s, r) ==
  IF ~r.converged \/ r.x < 0 THEN Cutback(d, g, o.kappa + r.x) ELSE J2Plastic(d, o, g, s, r.x)

J2Compute(d, o, g, eps) ==
  LET s == J2Trial(d, o, eps)
  IN IF Abs(s) <= YieldStress(d, o.kappa)
     THEN {Elastic(d, o, g, s)}
     ELSE {J2Return(d, o, g, s, r) : r \in ScalarReturn(d, o, Abs(s), d.M)}

-----------------------------------------------------------------------------
(***************************************************************************)
(* drucker_prager_plasticity: strain, stress and plastic strain are        *)
(* [dev, vol]; the stress is [s, p].                                       *)
(***************************************************************************)
DPStress(d, eps, ep) == [s |-> d.G * (eps.dev - ep.dev), p |-> d.Kb * (eps.vol - ep.vol)]
DPYield(d, sig, kappa) == Abs(sig.s) + d.eta * sig.p - YieldStress(d, kappa)

ApexModulus(d) == d.Kb * d.eta * d.beta
NeedsApexReturn(d, dl, q) == d.G * dl >= q

SmoothReturn(d, o, g, sig, dl) ==
  Returned(d, g, [dev |-> o.ep.dev + dl * Sign(sig.s), vol |-> o.ep.vol + d.beta * dl],
           o.kappa + dl,
           [s |-> sig.s - d.G * dl * Sign(sig.s), p |-> sig.p - d.Kb * d.beta * dl])

\* The deviator goes into the plastic strain; the multiplier is clamped here.
ApexReturn(d, o, g, eps, r) ==
  LET dk == AtLeast(r.x, 0)
      ep == [dev |-> eps.dev, vol |-> o.ep.vol + d.beta * dk]
  IN IF ~r.converged THEN Cutback(d, g, o.kappa + r.x)
     ELSE Returned(d, g, ep, o.kappa + dk, DPStress(d, eps, ep))

DPApex(d, o, g, eps, sig) ==
  {ApexReturn(d, o, g, eps, r) : r \in ScalarReturn(d, o, d.eta * sig.p, ApexModulus(d))}

\* The apex is what is left, also when the smooth solve fails.
DPReturn(d, o, g, eps, sig, r) ==
  IF r.converged /\ r.x < 0 THEN {Cutback(d, g, o.kappa + r.x)}
  ELSE IF ~r.converged \/ NeedsApexReturn(d, AtLeast(r.x, 0), Abs(sig.s))
       THEN DPApex(d, o, g, eps, sig)
       ELSE {SmoothReturn(d, o, g, sig, r.x)}

DPCompute(d, o, g, eps) ==
  LET sig == DPStress(d, eps, o.ep)
      phi == Abs(sig.s) + d.eta * sig.p
  IN IF DPYield(d, sig, o.kappa) <= 0
     THEN {Elastic(d, o, g, sig)}
     ELSE UNION {DPReturn(d, o, g, eps, sig, r) :
                   r \in ScalarReturn(d, o, phi, d.G + ApexModulus(d))}

-----------------------------------------------------------------------------
(***************************************************************************)
(* What a return map promises of the accepted history o and the strain.    *)
(***************************************************************************)
\* Backward Euler: elastic as long as that is admissible, otherwise on the yield surface
\* of the hardened material, with as much plastic strain as hardening.
J2Solves(d, o, eps, g) ==
  /\ g.stress = d.M * (eps - g.hist.ep)
  /\ \/ g.hist = o /\ Abs(g.stress) <= YieldStress(d, o.kappa)
     \/ /\ g.hist.kappa >= o.kappa
        /\ Abs(g.hist.ep - o.ep) = g.hist.kappa - o.kappa
        /\ YieldStress(d, g.hist.kappa) >= 0 => Abs(g.stress) = YieldStress(d, g.hist.kappa)

\* In or on the cone, hardening only on it.
DPSolves(d, o, eps, g) ==
  /\ g.stress = DPStress(d, eps, g.hist.ep)
  /\ DPYield(d, g.stress, g.hist.kappa) <= 0
  /\ g.hist.kappa >= o.kappa
  /\ g.hist.kappa > o.kappa => DPYield(d, g.stress, g.hist.kappa) = 0
  /\ g.hist.kappa = o.kappa => g.hist.ep.vol = o.ep.vol

\* The hardening is that of the history beside it.
HardeningIsCurrent(d, g) ==
  g.H = HardeningStress(d, g.hist.kappa) /\ g.dH = HardeningModulus(d, g.hist.kappa)
=============================================================================
