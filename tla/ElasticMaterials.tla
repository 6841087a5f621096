-------------------------- MODULE ElasticMaterials --------------------------
(***************************************************************************)
(* The materials without a local solve: elasticity, the parts an isotropic *)
(* damage model is put together from, scalars, and what records values.    *)
(*                                                                         *)
(* n is the material's name; the other parameters are the properties its   *)
(* inputs are wired to, an optional one as a set of at most one.  A        *)
(* callback that goes on from the last value of what it fills, or adds to  *)
(* something it keeps, reads its own output.                               *)
(***************************************************************************)
EXTENDS MaterialDeclarations

\* A callback of the material n with no more to it than what it reads.
Filling(n, outputs, declared, read) ==
  Callback([i \in DOMAIN outputs |-> <<n, outputs[i]>>], declared, Reading(read))

-----------------------------------------------------------------------------
(***************************************************************************)
(* Elasticity.                                                             *)
(***************************************************************************)
LinearElasticity(n, strain, eigenstrain) ==
  Declare(n,
    {Filling(n, <<"tangent">>, {}, {}),
     Filling(n, <<"stress">>, Own({<<n, "tangent">>}) \cup Global({strain} \cup eigenstrain),
             {<<n, "tangent">>, strain} \cup eigenstrain)})

IncrementalLinearElasticity(n, strain, tangent) ==
  Varying(Declare(n,
    {Filling(n, <<"tangent">>, Global({tangent}), {tangent}),
     Filling(n, <<"stress">>, Global({strain}) \cup Own({<<n, "tangent">>}),
             {<<n, "stress">>, <<n, "tangent">>, strain})}), {"stress"})

\* What a deformation gradient source publishes.
F(source)    == <<source, "deformation_gradient">>
FInv(source) == <<source, "inverse">>
DetF(source) == <<source, "determinant">>

HenckyElasticity(n, tangent, source, eigenstrain) ==
  Declare(n,
    {Filling(n, <<"stress", "tangent", "log_strain">>,
             Global({tangent, F(source), FInv(source)} \cup eigenstrain),
             {F(source), FInv(source), tangent} \cup eigenstrain)})

NeoHooke(n, source) ==
  Declare(n, {Filling(n, <<"stress", "tangent">>, Global({F(source), FInv(source), DetF(source)}),
                       {F(source), FInv(source), DetF(source)})})

\* The elastic tangent is a member, set in the constructor.
SaintVenantKirchhoff(n, source) ==
  Declare(n, {Filling(n, <<"stress", "tangent">>, Global({F(source)}), {F(source)})})

IsotropicTangent(n, K, G) ==
  Declare(n, {Filling(n, <<"tangent">>, Global({K, G}), {K, G})})

IsotropicModuli(n, tangent) ==
  Declare(n, {Filling(n, <<"K", "G", "poisson_ratio">>, Global({tangent}), {tangent})})

LinearStress(n, tangent, strain) ==
  Declare(n, {Filling(n, <<"stress">>, Global({tangent, strain}), {tangent, strain})})

ThermalEigenstrain(n, alpha, temperature) ==
  Declare(n, {Filling(n, <<"eigenstrain">>, Global({alpha, temperature}), {alpha, temperature})})

-----------------------------------------------------------------------------
(***************************************************************************)
(* Isotropic damage.                                                       *)
(***************************************************************************)
VonMisesStateFunction(n, strain) ==
  Declare(n, {Filling(n, <<"equivalent_strain", "d_equivalent_strain">>, Global({strain}), {strain})})

VectorStrainStateFunction(n, strain) ==
  Declare(n, {Filling(n, <<"equivalent_strain", "d_equivalent_strain">>, Global({strain}), {strain})})

StrainEnergyStateFunction(n, strain, tangent) ==
  Declare(n, {Filling(n, <<"equivalent_strain", "d_equivalent_strain">>,
                       Global({strain, tangent}), {strain, tangent})})

StrainThresholdYield(n, state) ==
  Varying(Declare(n, {Filling(n, <<"kappa", "is_yielding">>,
                               Global({<<state, "equivalent_strain">>}),
                               {<<n, "kappa">>, <<state, "equivalent_strain">>})}), {"kappa"})

\* What the laws share; they differ in evaluate(), a function of kappa.
ScalarDamageLaw(n, yield) ==
  Declare(n, {Filling(n, <<"damage", "d_damage">>, Global({<<yield, "kappa">>}), {<<yield, "kappa">>})})

LinearDamageLaw(n, yield)      == ScalarDamageLaw(n, yield)
PowerDamageLaw(n, yield)       == ScalarDamageLaw(n, yield)
SaturationDamageLaw(n, yield)  == ScalarDamageLaw(n, yield)
ExponentialDamageLaw(n, yield) == ScalarDamageLaw(n, yield)
PeerlingsDamageLaw(n, yield)   == ScalarDamageLaw(n, yield)

\* The derivatives enter the tangent only of a point that yields.
IsotropicDamage(n, elastic, tangents, damage, state, yield) ==
  LET elasticity == {<<elastic, "stress">>}
                      \cup (IF tangents = {} THEN {<<elastic, "tangent">>} ELSE tangents)
      always == elasticity \cup {<<damage, "damage">>, <<yield, "is_yielding">>}
      slopes == {<<damage, "d_damage">>, <<state, "d_equivalent_strain">>}
  IN  Declare(n, {Callback(<< <<n, "damaged_stress">>, <<n, "damaged_tangent">> >>,
                            Global(always \cup slopes),
                            Reading(always) \cup Reading(always \cup slopes))})

-----------------------------------------------------------------------------
(***************************************************************************)
(* Scalars.                                                                *)
(***************************************************************************)
ConstantScalar(n) == Declare(n, {Filling(n, <<"value">>, {}, {})})

PoissonRatioFromModuli(n) == Declare(n, {Filling(n, <<"value">>, {}, {})})

\* Filled by bind(), from the host.
PropsScalar(n) == Bare(Declare(n, {}), {"value"})

ScalarStepper(n) ==
  Varying(Declare(n, {Filling(n, <<"state">>, {}, {<<n, "state">>})}), {"state"})

\* Mutant: its step is not declared as a state.
TensorComponentStepperPure(n) == Declare(n, {Filling(n, <<"strain">>, {}, {<<n, "strain">>})})

TensorComponentStepper(n) ==
  Varying(Declare(n, {Filling(n, <<"strain">>, {}, {<<n, "strain">>})}), {"strain"})

ScalarSplit(n, source, parts) ==
  Declare(n, {Filling(n, parts, Global({source}), {source})})

ScalarComplementWeight(n, source) ==
  Declare(n, {Filling(n, <<"value">>, Global({source}), {source})})

ScalarIdentityWeight(n, source) ==
  Declare(n, {Filling(n, <<"value">>, Global({source}), {source})})

-----------------------------------------------------------------------------
(***************************************************************************)
(* What the host fills before an update, and what records after one.       *)
(***************************************************************************)
ExternalStrainSource(n) == Varying(Bare(Declare(n, {}), {"strain"}), {"strain"})

ExternalDeformationGradientSource(n) ==
  Varying(Bare(Declare(n, {}), {"deformation_gradient", "inverse", "determinant"}),
          {"deformation_gradient"})

ExternalScalarSource(n) == Varying(Bare(Declare(n, {}), {"state"}), {"state"})

PropertyRecorder(n, sources) ==
  Varying(Declare(n, {Filling(n, <<"_record_tick">>, Global(sources),
                               {<<n, "_record_tick">>} \cup sources)}), {"_record_tick"})

PropertyConsoleLogger(n, sources) ==
  Varying(Declare(n, {Filling(n, <<"tick">>, Global(sources), {<<n, "tick">>} \cup sources)}),
          {"tick"})

\* Nothing is read until a backend is set.
PropertyPlot(n, x, ys) ==
  Varying(Declare(n, {Callback(<< <<n, "_plot_tick">> >>, Global({x} \cup ys),
                                Reading({}) \cup Reading({<<n, "_plot_tick">>, x} \cup ys))}), {"_plot_tick"})
=============================================================================
