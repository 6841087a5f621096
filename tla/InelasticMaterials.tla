------------------------- MODULE InelasticMaterials -------------------------
(***************************************************************************)
(* The materials with a local solve.  The solver, or the material itself,  *)
(* reruns callbacks of other materials at trial states; what comes over a  *)
(* local input that is not rerun is the value the last run left behind.    *)
(***************************************************************************)
EXTENDS ElasticMaterials

\* A curve over the accumulated plastic strain.
HardeningCurve(n, source) ==
  LET kappa == <<source, "equivalent_plastic_strain">>
  IN  Declare(n, {Filling(n, <<"hardening_stress", "hardening_modulus">>, Local({kappa}), {kappa})})

LinearIsotropicHardening(n, source)      == HardeningCurve(n, source)
ExponentialIsotropicHardening(n, source) == HardeningCurve(n, source)

Hardening(n) == {<<n, "hardening_stress">>, <<n, "hardening_modulus">>}

\* Publishes its iterations, which the return map that calls solve() fills.
LocalNewton(n) == Bare(Declare(n, {}), {"iterations"})

-----------------------------------------------------------------------------
(***************************************************************************)
(* Plasticity.  The hardening is rerun at every trial.  A plastic step     *)
(* also reads the slope, and goes through the solver.                      *)
(***************************************************************************)
ReturnMapOutputs == <<"stress", "tangent", "plastic_strain", "equivalent_plastic_strain">>
ReturnMapState(n) == {<<n, "plastic_strain">>, <<n, "equivalent_plastic_strain">>}

ReturnMap(n, strain, hardening, iterations) ==
  LET reruns == {<<hardening, "hardening_stress">>}
      elastic == ReturnMapState(n) \cup {strain, <<hardening, "hardening_stress">>}
  IN  Callback([i \in DOMAIN ReturnMapOutputs |-> <<n, ReturnMapOutputs[i]>>],
               Global({strain}) \cup Drives(Hardening(hardening)),
               {Run(elastic, reruns, {}), Run(elastic \cup Hardening(hardening), reruns, iterations)})

Plastic(n, callbacks) ==
  Varying(Declare(n, callbacks), {"plastic_strain", "equivalent_plastic_strain"})

J2Plasticity(n, strain, hardening, solver) ==
  Referring(Plastic(n, {ReturnMap(n, strain, hardening, {<<solver, "iterations">>})}), {solver})

DruckerPragerPlasticity(n, strain, hardening, solver) ==
  Referring(Plastic(n, {ReturnMap(n, strain, hardening, {<<solver, "iterations">>})}), {solver})

J2RkPlasticity(n, strain, hardening) == Plastic(n, {ReturnMap(n, strain, hardening, {})})

-----------------------------------------------------------------------------
(***************************************************************************)
(* Kinematic hardening: a system of two unknowns, solved by a              *)
(* vector_newton that nothing in the graph runs.  It reruns the residual   *)
(* callback of this material, and that one the hardening.                  *)
(***************************************************************************)
Unknowns == {"dlambda", "dbeta"}

Solution(solver) ==
  {<<solver, "dlambda">>, <<solver, "dbeta">>,
   <<solver, "d_dlambda_d_strain">>, <<solver, "d_dbeta_d_strain">>}

ResidualOutputs ==
  <<"residual_dlambda", "residual_dbeta", "jacobian_dlambda_dlambda", "jacobian_dlambda_dbeta",
    "jacobian_dbeta_dlambda", "jacobian_dbeta_dbeta", "d_residual_dlambda_d_strain",
    "d_residual_dbeta_d_strain">>

\* graph_driven = false and strain_derivative = true: no callback, its outputs bare.
VectorNewton(n, function) ==
  [Bare(Declare(n, {}), {p[2] : p \in Solution(n)}) EXCEPT
     !.wires = Local({<<function, r>> : r \in ToSet(ResidualOutputs)})]

KinematicOutputs == ReturnMapOutputs \o <<"back_stress">>

\* Mutant: an elastic step leaves the unknowns alone.
KinematicReturnNoReset(n, strain, hardening, solver) ==
  LET state == ReturnMapState(n) \cup {<<n, "back_stress">>}
      elastic == state \cup {strain, <<hardening, "hardening_stress">>}
      stress == <<hardening, "hardening_stress">>
  IN  Callback([i \in DOMAIN KinematicOutputs |-> <<n, KinematicOutputs[i]>>],
               Global({strain}) \cup Drives(Hardening(hardening)) \cup Local(Solution(solver)),
               {Run(elastic, {stress}, {}),
                Run(elastic \cup Hardening(hardening) \cup Solution(solver),
                    {stress, <<n, "residual_dlambda">>}, Solution(solver))})

\* An elastic step resets the unknowns, a plastic one has the solver fill them.
KinematicReturn(n, strain, hardening, solver) ==
  LET state == ReturnMapState(n) \cup {<<n, "back_stress">>}
      elastic == state \cup {strain, <<hardening, "hardening_stress">>}
      stress == <<hardening, "hardening_stress">>
  IN  Callback([i \in DOMAIN KinematicOutputs |-> <<n, KinematicOutputs[i]>>],
               Global({strain}) \cup Drives(Hardening(hardening)) \cup Local(Solution(solver)),
               {Run(elastic, {stress}, Solution(solver)),
                Run(elastic \cup Hardening(hardening) \cup Solution(solver),
                    {stress, <<n, "residual_dlambda">>}, Solution(solver))})

\* Declares neither the committed histories it starts from nor the trial stress, a member
\* that the return leaves, nor that it writes the strain the hardening is to see: the engine
\* runs it once per update as well, before the return or after it.
KinematicResidual(n, hardening, solver) ==
  LET unknowns == {solver} \X Unknowns
  IN  Keeping(
        Callback([i \in DOMAIN ResidualOutputs |-> <<n, ResidualOutputs[i]>>],
                 Local(unknowns) \cup Drives(Hardening(hardening)),
                 {Run(unknowns \cup Hardening(hardening), {<<hardening, "hardening_stress">>},
                      {<<n, "equivalent_plastic_strain">>})}),
        {<<n, "back_stress">>, <<n, "equivalent_plastic_strain">>, <<n, "m_s_tr">>})

J2KinematicPlasticity(n, strain, hardening, solver) ==
  Referring(
    Varying(Declare(n, {KinematicReturn(n, strain, hardening, solver),
                         KinematicResidual(n, hardening, solver)}),
            {"plastic_strain", "equivalent_plastic_strain", "back_stress"}),
    {solver})

-----------------------------------------------------------------------------
(***************************************************************************)
(* Curing.                                                                 *)
(***************************************************************************)
\* The rate law of an integrator.
RateLaw(n, temperature, integrator) ==
  Declare(n, {Filling(n, <<"rate", "rate_derivative">>,
                       Global({<<temperature, "state">>}) \cup Local({<<integrator, "state">>}),
                       {<<temperature, "state">>, <<integrator, "state">>})})

CuringRate(n, temperature, integrator)       == RateLaw(n, temperature, integrator)
KamalSourourRate(n, temperature, integrator) == RateLaw(n, temperature, integrator)

\* An explicit scheme is not wired to the derivative.
RkIntegrator(n, function, implicit) ==
  LET rate == <<function, "rate">>
      slope == IF implicit THEN {<<function, "rate_derivative">>} ELSE {}
  IN  Varying(Declare(n, {Callback(<< <<n, "state">> >>, Drives({rate} \cup slope),
                                    {Run({<<n, "state">>, rate} \cup slope, {rate}, {})})}), {"state"})

BackwardEuler(n, function) ==
  LET system == {<<function, "residual">>, <<function, "jacobian">>}
  IN  Declare(n, {Callback(<< <<n, "delta">> >>, Drives(system), {Run(system, system, {})})})

\* Mutant: the time step is not declared.
AutocatalyticSystemTimeless(n, output, temperature, time, delta) ==
  Filling(n, <<output>>, Global({temperature, delta}) \cup Own({<<n, "current_state">>}),
          {temperature, time, delta, <<n, "current_state">>})

\* The residual and the jacobian.
AutocatalyticSystem(n, output, temperature, time, delta) ==
  Filling(n, <<output>>, Global({temperature, time, delta}) \cup Own({<<n, "current_state">>}),
          {temperature, time, delta, <<n, "current_state">>})

AutocatalyticReaction(n, temperature, time, solver) ==
  LET theta == <<temperature, "state">>
      dz == <<solver, "delta">>
      z == <<n, "current_state">>
  IN  Varying(
        Declare(n,
          {Filling(n, <<"current_state">>, Global({theta, dz}), {z, dz, theta}),
           AutocatalyticSystem(n, "residual", theta, <<time, "state">>, dz),
           AutocatalyticSystem(n, "jacobian", theta, <<time, "state">>, dz),
           Filling(n, <<"rate", "rate_derivative">>, Global({theta}) \cup Own({z}), {theta, z})}),
        {"current_state"})
=============================================================================
