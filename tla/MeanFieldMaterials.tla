------------------------- MODULE MeanFieldMaterials -------------------------
(***************************************************************************)
(* Mean-field homogenization: phases, the localisation of the strain by a  *)
(* kernel, and the composites that average the answers of the phases.      *)
(***************************************************************************)
EXTENDS ElasticMaterials

\* The shape is a parameter; a direction is turned into a rotation in the constructor.
DepolarisationTensor(n) == Declare(n, {Filling(n, <<"tensor">>, {}, {})})

DepolarisationSphere(n)    == DepolarisationTensor(n)
DepolarisationCylinder(n)  == DepolarisationTensor(n)
DepolarisationSpheroid(n)  == DepolarisationTensor(n)
DepolarisationEllipsoid(n) == DepolarisationTensor(n)

EshelbyTensor(n, nu) == Declare(n, {Filling(n, <<"tensor">>, Global({nu}), {nu})})

EshelbySphere(n, nu)    == EshelbyTensor(n, nu)
EshelbyCylinder(n, nu)  == EshelbyTensor(n, nu)
EshelbySpheroid(n, nu)  == EshelbyTensor(n, nu)
EshelbyEllipsoid(n, nu) == EshelbyTensor(n, nu)

-----------------------------------------------------------------------------
(***************************************************************************)
(* A phase hands on what it is wired to, one callback each.  Over a local  *)
(* edge its tangent is the one the last update left at the source, and     *)
(* before that the initial one: a member says whether it has run.          *)
(***************************************************************************)
\* Mutant: over a global edge, whatever the parameter says.
PhaseTangentGlobal(n, tangent, initial) ==
  Filling(n, <<"tangent">>, Global({tangent} \cup initial), {tangent} \cup initial)

PhaseTangent(n, tangent, initial) ==
  IF initial = {}
  THEN Filling(n, <<"tangent">>, Global({tangent}), {tangent})
  ELSE Keeping(Callback(<< <<n, "tangent">> >>, Local({tangent}) \cup Global(initial),
                        Reading(initial) \cup Reading({tangent})),
               {<<n, "m_first">>})

Relay(n, output, source) == Filling(n, <<output>>, Global({source}), {source})

Phase(n, tangent, initial, fraction, eshelby, depolarisation) ==
  Declare(n,
    {PhaseTangent(n, tangent, initial), Relay(n, "volume_fraction", fraction)}
      \cup {Relay(n, "eshelby", e) : e \in eshelby}
      \cup {Relay(n, "depolarisation", d) : d \in depolarisation})

-----------------------------------------------------------------------------
(***************************************************************************)
(* The kernels: what each asks for, and what it uses of a phase.  The      *)
(* self-consistent one has the shapes itself; where it starts from does    *)
(* not matter up to its tolerance.                                         *)
(***************************************************************************)
Kernels == {"voigt", "reuss", "hill", "dilute", "mori_tanaka", "self_consistent"}

NeedsTangents(kernel) == kernel # "voigt"
NeedsEshelby(kernel)  == kernel \in {"dilute", "mori_tanaka"}

UsedByKernel(kernel, p, isMatrix) ==
  CASE kernel = "voigt" -> {}
    [] kernel \in {"reuss", "hill", "self_consistent"} -> {<<p, "tangent">>}
    [] kernel \in {"dilute", "mori_tanaka"} ->
         IF isMatrix THEN {<<p, "tangent">>} ELSE {<<p, "tangent">>, <<p, "eshelby">>}

Fraction(p) == <<p, "volume_fraction">>

\* The inputs for the phase p of a composite: the first phase is the matrix.
PhaseInputs(phases, p, tangents, eshelby) ==
  {Fraction(p)} \cup (IF tangents THEN {<<p, "tangent">>} ELSE {})
    \cup (IF eshelby /\ p # Head(phases) THEN {<<p, "eshelby">>} ELSE {})

Localised(phases, kernel) ==
  UNION {{Fraction(p)} \cup UsedByKernel(kernel, p, p = Head(phases)) : p \in ToSet(phases)}

Concentration(n, p) == <<n, "concentration_" \o p>>
PhaseStrain(n, p)   == <<n, "strain_" \o p>>

KernelInputs(kernel, phases) ==
  UNION {PhaseInputs(phases, p, NeedsTangents(kernel), NeedsEshelby(kernel)) : p \in ToSet(phases)}

MeanFieldStrain(n, kernel, strain, phases) ==
  LET A   == [i \in DOMAIN phases |-> Concentration(n, phases[i])]
      eps == [i \in DOMAIN phases |-> PhaseStrain(n, phases[i])]
  IN  [Declare(n, {Callback(A, Global(KernelInputs(kernel, phases)), Reading(Localised(phases, kernel))),
                    Callback(eps, Global({strain}) \cup Own(ToSet(A)),
                             Reading({strain} \cup ToSet(A) \cup ToSet(eps)))})
         EXCEPT !.varying = ToSet(eps)]

-----------------------------------------------------------------------------
(***************************************************************************)
(* The composites.                                                         *)
(***************************************************************************)
MeanFieldCompositeGlobal(n, kernel, phases) ==
  LET A == [i \in DOMAIN phases |-> Concentration(n, phases[i])]
  IN  Declare(n,
        {Callback(<< <<n, "tangent">> >> \o A,
                  Global(UNION {PhaseInputs(phases, p, TRUE, NeedsEshelby(kernel)) : p \in ToSet(phases)}),
                  Reading(Localised(phases, kernel) \cup (ToSet(phases) \X {"tangent"})))})

\* phases: for each the concentration, stress, tangent and fraction it is averaged with,
\* and where it has one the tangent its strain was localised with.
Averaged(phases) ==
  UNION {{p.concentration, p.stress, p.tangent, p.fraction} : p \in phases}

MeanFieldCompositeLocalLinear(n, phases) ==
  Declare(n, {Filling(n, <<"stress", "tangent">>, Global(Averaged(phases)), Averaged(phases))})

MeanFieldCompositeLocalNonlinear(n, phases) ==
  LET read == Averaged(phases) \cup UNION {p.used : p \in phases}
  IN  Declare(n, {Filling(n, <<"stress", "tangent", "residual">>, Global(read), read)})

ShortFibreComposite(n, matrix, fibre) ==
  LET read == {<<matrix, "tangent">>, Fraction(matrix), <<fibre, "tangent">>, Fraction(fibre),
               <<fibre, "eshelby">>}
  IN  Declare(n, {Filling(n, <<"tangent", "concentration_matrix", "concentration_fibre">>,
                           Global(read), read)})

\* terms: for each its weight, stress and tangent.
WeightedSum(n, terms) ==
  LET all(k) == {t[k] : t \in terms}
  IN  Declare(n, {Filling(n, <<"stress">>, Global(all("weight") \cup all("stress")),
                           all("weight") \cup all("stress")),
                   Filling(n, <<"tangent">>, Global(all("weight") \cup all("tangent")),
                           all("weight") \cup all("tangent"))})
=============================================================================
