------------------------- MODULE MCMaterialLibrary -------------------------
(***************************************************************************)
(* Decks after the tests and the documentation: every material of the      *)
(* library is in one of them.                                              *)
(***************************************************************************)
EXTENDS MaterialLibrary

Strain == <<"strain", "strain">>
Theta  == <<"temperature", "state">>

StrainHost      == ExternalStrainSource("strain")
GradientHost    == ExternalDeformationGradientSource("gradient")
TemperatureHost == ExternalScalarSource("temperature")

Expansion == {ConstantScalar("alpha"), ThermalEigenstrain("thermal", <<"alpha", "value">>, Theta)}
Eigenstrain == <<"thermal", "eigenstrain">>

ThermoelasticDeck ==
  Expansion \cup
  {StrainHost, TemperatureHost, LinearElasticity("elastic", Strain, {Eigenstrain}),
   PropertyRecorder("record", {<<"elastic", "stress">>})}

SteppedDeck ==
  {TensorComponentStepper("strain"), ScalarStepper("time"), LinearElasticity("elastic", Strain, {}),
   PropertyConsoleLogger("log", {<<"time", "state">>}),
   PropertyPlot("plot", <<"time", "state">>, {<<"log", "tick">>})}

\* The tangent from two moduli, of a kind.
TangentOf(K, G) == IsotropicTangent("C", <<K, "value">>, <<G, "value">>)
C == <<"C", "tangent">>

FiniteStrainDeck ==
  Expansion \cup
  {GradientHost, TemperatureHost, ConstantScalar("K"), ConstantScalar("G"), TangentOf("K", "G"),
   HenckyElasticity("hencky", C, "gradient", {Eigenstrain}), NeoHooke("neo", "gradient"),
   SaintVenantKirchhoff("svk", "gradient")}

\* With the moduli from the host's PROPS, and with one of them constant.
IncrementalDeck(K) ==
  {StrainHost, K, PropsScalar("G"), TangentOf("K", "G"),
   IncrementalLinearElasticity("rate", Strain, C), LinearStress("total", C, Strain),
   IsotropicModuli("moduli", C)}

DamageDeck(state, law, tangents) ==
  {StrainHost, LinearElasticity("elastic", Strain, {}), state, StrainThresholdYield("yield", "state"),
   law,
   IsotropicDamage("damage", "elastic", tangents, "law", "state", "yield"),
   PropertyRecorder("record", {<<"yield", "kappa">>, <<"damage", "damaged_stress">>})}

DamageDecks ==
  {DamageDeck(state, law, {}) :
     state \in {VonMisesStateFunction("state", Strain), VectorStrainStateFunction("state", Strain)},
     law \in {LinearDamageLaw("law", "yield"), PowerDamageLaw("law", "yield"),
              SaturationDamageLaw("law", "yield")}}
    \cup
  {DamageDeck(StrainEnergyStateFunction("state", Strain, <<"elastic", "tangent">>), law,
              {<<"elastic", "tangent">>}) :
     law \in {ExponentialDamageLaw("law", "yield"), PeerlingsDamageLaw("law", "yield")}}

PlasticDeck(return) ==
  {StrainHost, LocalNewton("newton"), LinearIsotropicHardening("hardening", "plastic"), return,
   PropertyRecorder("record", {<<"plastic", "equivalent_plastic_strain">>, <<"plastic", "stress">>})}

PlasticDecks ==
  {PlasticDeck(J2Plasticity("plastic", Strain, "hardening", "newton")),
   PlasticDeck(DruckerPragerPlasticity("plastic", Strain, "hardening", "newton")),
   PlasticDeck(J2RkPlasticity("plastic", Strain, "hardening"))}

KinematicDeck ==
  {StrainHost, VectorNewton("system", "plastic"), ExponentialIsotropicHardening("hardening", "plastic"),
   J2KinematicPlasticity("plastic", Strain, "hardening", "system"),
   PropertyRecorder("record", {<<"plastic", "back_stress">>, <<"plastic", "equivalent_plastic_strain">>})}

\* A cure that hardens a mixture of two elastic materials.
Mixture(weight) ==
  {LinearElasticity("soft", Strain, {}), LinearElasticity("hard", Strain, {}),
   ScalarIdentityWeight("cured", weight), ScalarComplementWeight("raw", weight),
   WeightedSum("mixture",
     {[weight |-> <<"cured", "value">>, stress |-> <<"hard", "stress">>, tangent |-> <<"hard", "tangent">>],
      [weight |-> <<"raw", "value">>, stress |-> <<"soft", "stress">>, tangent |-> <<"soft", "tangent">>]})}

IntegratedCureDeck(law, implicit) ==
  Mixture(<<"cure", "state">>) \cup
  {StrainHost, TemperatureHost, law,
   RkIntegrator("cure", "rate", implicit)}

ReactionDeck ==
  {ScalarStepper("time"), ScalarStepper("temperature"), BackwardEuler("solver", "reaction"),
   AutocatalyticReaction("reaction", "temperature", "time", "solver"),
   PropertyRecorder("record", {<<"reaction", "current_state">>})}

(***************************************************************************)
(* Two phases: a matrix and inclusions.                                    *)
(***************************************************************************)
Shares == {ConstantScalar("content"), ScalarSplit("share", <<"content", "value">>, <<"value_0", "value_1">>)}

Nu == <<"nu", "value">>

\* Shapes of the inclusions: equal as far as a deck can tell.
Shapes ==
  {EshelbySphere("S", Nu), EshelbyCylinder("S", Nu), EshelbySpheroid("S", Nu), EshelbyEllipsoid("S", Nu)}

FieldShapes ==
  {DepolarisationSphere("N"), DepolarisationCylinder("N"), DepolarisationSpheroid("N"),
   DepolarisationEllipsoid("N")}

Inclusions(source) ==
  {PoissonRatioFromModuli("nu"),
   Phase("inclusion", <<source, "tangent">>, {}, <<"share", "value_1">>, {<<"S", "tensor">>}, {})}
    \cup Shapes

Matrix(source) == Phase("matrix", <<source, "tangent">>, {}, <<"share", "value_0">>, {}, {})

Phases == <<"matrix", "inclusion">>

Averages(n, answer, used) ==
  [concentration |-> Concentration("strains", n), stress |-> <<answer, "stress">>,
   tangent |-> <<answer, "tangent">>, fraction |-> Fraction(n), used |-> used]

GlobalDeck(kernel) ==
  Shares \cup Inclusions("fibres") \cup
  {StrainHost, LinearElasticity("resin", Strain, {}), LinearElasticity("fibres", Strain, {}),
   Matrix("resin"), MeanFieldCompositeGlobal("composite", kernel, Phases),
   LinearStress("stress", <<"composite", "tangent">>, Strain)}

LocalDeck(kernel) ==
  Shares \cup Inclusions("fibres") \cup
  {StrainHost, MeanFieldStrain("strains", kernel, Strain, Phases),
   LinearElasticity("resin", PhaseStrain("strains", "matrix"), {}),
   LinearElasticity("fibres", PhaseStrain("strains", "inclusion"), {}), Matrix("resin"),
   MeanFieldCompositeLocalLinear("composite",
     {Averages("matrix", "resin", {}), Averages("inclusion", "fibres", {})})}

\* A plastic matrix is localised with the tangent of its last update.
NonlinearDeck(kernel) ==
  Shares \cup Inclusions("fibres") \cup
  {StrainHost, MeanFieldStrain("strains", kernel, Strain, Phases),
   LinearElasticity("virgin", Strain, {}), LocalNewton("newton"),
   LinearIsotropicHardening("hardening", "resin"),
   J2Plasticity("resin", PhaseStrain("strains", "matrix"), "hardening", "newton"),
   LinearElasticity("fibres", PhaseStrain("strains", "inclusion"), {}),
   Phase("matrix", <<"resin", "tangent">>, {<<"virgin", "tangent">>}, <<"share", "value_0">>, {}, {}),
   MeanFieldCompositeLocalNonlinear("composite",
     {Averages("matrix", "resin", {<<"matrix", "tangent">>}), Averages("inclusion", "fibres", {})})}

ShortFibreDeck ==
  Shares \cup FieldShapes \cup
  {StrainHost, LinearElasticity("resin", Strain, {}), LinearElasticity("fibres", Strain, {}),
   Matrix("resin"), IsotropicModuli("moduli", <<"resin", "tangent">>),
   EshelbySpheroid("S", <<"moduli", "poisson_ratio">>),
   Phase("inclusion", <<"fibres", "tangent">>, {}, <<"share", "value_1">>, {<<"S", "tensor">>},
         {<<"N", "tensor">>}),
   ShortFibreComposite("composite", "matrix", "inclusion")}

MCDecks ==
  {ThermoelasticDeck, SteppedDeck, FiniteStrainDeck, KinematicDeck, ReactionDeck, ShortFibreDeck}
    \cup {IncrementalDeck(K) : K \in {ConstantScalar("K"), PropsScalar("K")}}
    \cup DamageDecks \cup PlasticDecks
    \cup {IntegratedCureDeck(law, implicit) : implicit \in BOOLEAN,
            law \in {CuringRate("rate", "temperature", "cure"), KamalSourourRate("rate", "temperature", "cure")}}
    \cup {GlobalDeck(kernel) : kernel \in Kernels}
    \cup {LocalDeck(kernel) : kernel \in Kernels}
    \cup {NonlinearDeck(kernel) : kernel \in {"voigt", "mori_tanaka"}}

\* What the theorems about the declarations ask of a deck.
ASSUME MCDecksAreWired == \A M \in MCDecks : Wired(M)
=============================================================================
