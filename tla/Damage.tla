------------------------------- MODULE Damage -------------------------------
(***************************************************************************)
(* Isotropic damage: strain_threshold_yield, a scalar damage law and the   *)
(* isotropic_damage that assembles them, for a strain along one direction  *)
(* that is its own equivalent strain.                                      *)
(*                                                                         *)
(* The history is kappa.  Damage is in parts of Full.                      *)
(***************************************************************************)
EXTENDS Integers

CONSTANT Full

Larger(a, b) == IF a < b THEN b ELSE a

\* What the constructors accept.
DamageConstructs(d) ==
  /\ d.kappa0 >= 0 /\ d.dmax > 0 /\ d.dmax <= Full
  /\ d.law = "linear" => d.kappaf >= d.kappa0
  /\ d.law = "peerlings" => d.kappa0 > 0

\* strain_threshold_yield
Threshold(d, o) == Larger(o, d.critical)
IsYielding(d, o, eps) == eps > Threshold(d, o)

\* evaluate(kappa) past kappa_0: linear_damage_law, and peerlings_damage_law for alpha = 1
\* and beta = 0.
LawAt(d, kappa) ==
  IF d.law = "peerlings"
  THEN [d |-> Full - (Full * d.kappa0) \div kappa, dd |-> (Full * d.kappa0) \div (kappa * kappa)]
  ELSE IF kappa >= d.kappaf THEN [d |-> Full, dd |-> 0]
  ELSE [d |-> (Full * (kappa - d.kappa0)) \div (d.kappaf - d.kappa0),
        dd |-> Full \div (d.kappaf - d.kappa0)]

\* scalar_damage_law::compute
DamageOf(d, kappa) ==
  IF kappa <= d.kappa0 THEN [d |-> 0, dd |-> 0]
  ELSE IF LawAt(d, kappa).d < d.dmax THEN LawAt(d, kappa)
  ELSE [d |-> d.dmax, dd |-> 0]

\* Stress and tangent are multiplied by Full.
DamageCompute(d, o, g, eps) ==
  LET kappa == Larger(eps, Threshold(d, o))
      D     == DamageOf(d, kappa)
      stiff == (Full - D.d) * d.M
  IN {[end |-> "returned",
       graph |-> [g EXCEPT !.hist = kappa, !.damage = D.d, !.stress = stiff * eps,
                           !.tangent = IF IsYielding(d, o, eps)
                                       THEN stiff - D.dd * d.M * eps ELSE stiff]]}

-----------------------------------------------------------------------------
\* kappa is the largest strain there has been, the damage stays below its cap and grows
\* with kappa; the tangent softens only where a larger strain means more damage.
DamageSolves(d, o, eps, g) ==
  /\ g.hist >= o /\ g.hist >= eps /\ g.hist \in {o, eps, d.critical}
  /\ g.damage \in 0 .. d.dmax
  /\ o > d.kappa0 => g.damage >= DamageOf(d, o).d
  /\ g.stress = (Full - g.damage) * d.M * eps
  /\ g.tangent < (Full - g.damage) * d.M => eps > o /\ g.damage < d.dmax
=============================================================================
