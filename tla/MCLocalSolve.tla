---------------------------- MODULE MCLocalSolve ----------------------------
(***************************************************************************)
(* Materials of every model: hardening, perfect and softening ones,        *)
(* cones with and without dilatancy, recovering back stress, every scheme, *)
(* slow and fast cure, and damage up to its cap.                           *)
(***************************************************************************)
EXTENDS LocalSolve

CONSTANTS p1, p2

J2(sigma0, law, K, flat) ==
  [model |-> "j2", M |-> 3, sigma0 |-> sigma0, law |-> law, K |-> K, flat |-> flat,
   loads |-> {-4, 0, 1, 4}]

DP(eta, beta, K) ==
  [model |-> "drucker_prager", G |-> 2, Kb |-> 1, eta |-> eta, beta |-> beta, sigma0 |-> 2,
   law |-> "linear", K |-> K, flat |-> 0,
   loads |-> {[dev |-> e, vol |-> v] : e \in {0, 1, 4}, v \in {-2, 5}}]

Kinematic(C, gamma, K, first, driven) ==
  [model |-> "kinematic", M |-> 1, sigma0 |-> 2, law |-> "linear", K |-> K, flat |-> 0,
   C |-> C, gamma |-> gamma, residualFirst |-> first, graphDriven |-> driven,
   loads |-> IF gamma = 0 THEN {-6, 4, 8} ELSE {-3, 7}]

RK(tableau, K) ==
  [model |-> "j2_rk", M |-> 1, sigma0 |-> 48, law |-> "linear", K |-> K, flat |-> 0,
   tableau |-> tableau, loads |-> {-288, 0, 288}]

Integrator(tableau, law, k1, k2) ==
  [model |-> "integrator", tableau |-> tableau, law |-> law, k1 |-> k1, k2 |-> k2, h |-> 1,
   whole |-> 4, start |-> 24, loads |-> {0}]

CureDeck(m, start) == [model |-> "cure", m |-> m, start |-> start, loads |-> 0 .. 3]

DamageDeck(law, kappa0, kappaf, dmax) ==
  [model |-> "damage", critical |-> 1, law |-> law, kappa0 |-> kappa0, kappaf |-> kappaf,
   dmax |-> dmax, M |-> 1, loads |-> {0, 1, 2, 3, 5}]

MCReturns ==
  {J2(2, law, K, 2) : law \in {"linear", "flat"}, K \in {-1, 0, 3}}
  \cup {J2(2, "linear", -5, 0)}
  \cup {DP(1, beta, K) : beta \in {0, 1}, K \in {0, 3}}
  \cup {Kinematic(1, 0, K, first, FALSE) : K \in {-3, 0}, first \in BOOLEAN}
  \cup {Kinematic(4, 1, 0, first, FALSE) : first \in BOOLEAN}
  \cup {Kinematic(1, 0, 0, FALSE, TRUE)}

MCIntegrals ==
  {RK(t, K) : t \in Scheme, K \in {0, 1}}
  \cup {RK(t, -1) : t \in {"implicit_euler", "implicit_midpoint", "sdirk3"}}   \* no modulus is left
  \cup {Integrator(t, "curing", 0, 2) : t \in Scheme \cup {"heun"}}
  \cup {Integrator(t, "kamal", 1, 1) : t \in Scheme}

MCLaws ==
  {CureDeck(m, s) : m \in {0, 1}, s \in {0, 2, 3, 8}}
  \cup {DamageDeck(law, k0, kf, dmax) : law \in {"linear", "peerlings"}, k0 \in {0, 1, 2},
                                        kf \in {1, 2, 4}, dmax \in {8, 12, 13}}

-----------------------------------------------------------------------------
(***************************************************************************)
(* Systems of the solver: a multiplier and a back stress, two multipliers  *)
(* with blocks declared zero, and unknowns whose blocks share a name.      *)
(***************************************************************************)
Unknown(n, kind) == [name |-> n, kind |-> kind]
System(u, zeros, verify) == [unknowns |-> u, zeros |-> zeros, verify |-> verify]

Multiplier == Unknown(<<"g">>, "scalar")
BackStress == Unknown(<<"back", "stress">>, "tensor")
Both(u)    == {<<u[1].name, u[2].name>>, <<u[2].name, u[1].name>>}

MCSystems ==
  {System(<<Multiplier, BackStress>>, {}, FALSE), System(<<BackStress, Multiplier>>, {}, FALSE),
   System(<<BackStress, Multiplier, Unknown(<<"h">>, "scalar")>>, {}, FALSE),
   System(<<Unknown(<<"x">>, "scalar"), Unknown(<<"x", "x">>, "scalar")>>, {}, FALSE)}
    \cup {System(u, Both(u), verify) : verify \in BOOLEAN,
             u \in {<<Multiplier, Unknown(<<"h">>, "scalar")>>, <<Multiplier, BackStress>>}}

SystemDeck(s) == [model |-> "system", system |-> s, loads |-> Entries(s.unknowns)]

-----------------------------------------------------------------------------
(***************************************************************************)
(* Hosts: every element family, CalculiX with two elements of two points,  *)
(* every kind of history, graphs of another order, rotations in and out of *)
(* the plane, and materials that have no stiffness out of it or a skewed   *)
(* history.                                                                *)
(***************************************************************************)
History(owner, n, kind) == [id |-> <<owner, n>>, kind |-> kind]
Few == {History(2, 1, "scalar"), History(1, 2, "strain"), History(1, 1, "stress"),
        History(3, 1, "strain")}
Orders == {<<History(2, 1, "scalar"), History(3, 1, "strain"), History(1, 2, "strain"),
             History(1, 1, "stress")>>,
           <<History(1, 1, "stress"), History(2, 1, "scalar"), History(1, 2, "strain"),
             History(3, 1, "strain")>>}
FourthOrder == {<<History(2, 1, "tangent"), History(1, 1, "scalar")>>}

\* No two entries alike; the stiffness out of the plane is that of a unit, or none.
MCStiffness(c33) ==
  [n \in 1 .. 36 |-> IF n = 15 THEN c33 ELSE ((n - 1) \div 6) + 2 * ((n - 1) % 6) + (n % 5)]

ArrayDeck(family, nstatv, histories, exclusions, c33, skewed, elements, loads) ==
  [model |-> "arrays", family |-> family, nstatv |-> nstatv, histories |-> histories,
   exclusions |-> exclusions, stiffness |-> MCStiffness(c33), skewed |-> skewed, maxIter |-> 2,
   mi1 |-> elements, elements |-> elements, loads |-> loads]

Prefix(n, t) == SubSeq(t, 1, n)
AbaqusLoad(n, order, drot) ==
  [order |-> order, drot |-> drot, stran |-> Prefix(n, <<1, 3, 2, 4, 6, 2>>),
   dstran |-> Prefix(n, <<0, 1, -2, 2, 0, 4>>)]
AboutThree == <<0, 1, 0, -1, 0, 0, 0, 0, 1>>
AboutOne == <<1, 0, 0, 0, 0, 1, 0, -1, 0>>
AbaqusLoads(n, orders) ==
  {AbaqusLoad(n, o, NoRotation) : o \in orders} \cup {AbaqusLoad(n, CHOOSE o \in orders : TRUE, r) : r \in {AboutThree, AboutOne}}

CalculixLoad(order, iint, iel, ielas, stressOnly) ==
  [order |-> order, iint |-> iint, iel |-> iel, ielas |-> ielas, iorien |-> FALSE, beta |-> FALSE,
   stressOnly |-> stressOnly, emec0 |-> <<0, 1, 2, 0, 3, 1>>, emec |-> <<1, 1, 0, 2, 3, 2>>]
CalculixLoads ==
  {CalculixLoad(CHOOSE o \in Orders : iel = 1 <=> Head(o).kind = "scalar", iint, iel, FALSE, iint = 2)
     : iint \in 1 .. 2, iel \in 1 .. 2}
  \cup {CalculixLoad(CHOOSE o \in Orders : TRUE, iint, 1, iint = 1, FALSE) : iint \in {1, 3}}

MCArrays ==
  {ArrayDeck("solid3d", 13, Few, {<<3, 1>>}, 1, FALSE, 1, AbaqusLoads(6, Orders)),
   ArrayDeck("solid3d", 37, {History(2, 1, "tangent"), History(1, 1, "scalar")}, {}, 1, FALSE, 1,
             AbaqusLoads(6, FourthOrder)),
   ArrayDeck("solid3d", 19, Few, {}, 1, TRUE, 1, AbaqusLoads(6, Orders)),
   ArrayDeck("solid3d", 37, {History(2, 1, "tangent"), History(1, 1, "scalar")}, {}, 1, TRUE, 1,
             AbaqusLoads(6, FourthOrder)),
   ArrayDeck("solid3d", 19, Few, {<<3, 2>>}, 1, FALSE, 1, AbaqusLoads(6, Orders)),
   ArrayDeck("plane_strain", 12, Few, {<<3, 1>>}, 1, FALSE, 1, AbaqusLoads(4, Orders)),
   ArrayDeck("plane_strain", 20, Few, {}, 1, FALSE, 1, AbaqusLoads(4, Orders)),
   ArrayDeck("plane_stress", 14, Few, {<<3, 1>>}, 1, FALSE, 1, AbaqusLoads(3, Orders)),
   ArrayDeck("plane_stress", 14, Few, {<<3, 1>>}, 0, FALSE, 1, AbaqusLoads(3, Orders)),
   ArrayDeck("calculix", 13, Few, {<<3, 1>>}, 1, FALSE, 2, CalculixLoads)}

MCDecks == MCArrays \cup MCReturns \cup MCIntegrals \cup MCLaws \cup {SystemDeck(s) : s \in MCSystems}
MCAllButCure == {"j2", "drucker_prager", "kinematic", "j2_rk", "integrator", "damage"}
\* What is checked of arrays and systems shows in the step after the first.
MCMaxAccepts(model) == IF model \in {"arrays", "system"} THEN 1 ELSE 2
MCGrid == -12 .. 24
=============================================================================
