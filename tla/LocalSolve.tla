----------------------------- MODULE LocalSolve -----------------------------
(***************************************************************************)
(* One material, the graph that one thread holds for it, and the points it *)
(* is evaluated at: every evaluation loads the accepted history of its     *)
(* point, and the host accepts what it returns, or evaluates again, or     *)
(* goes to another point.  What else the graph holds, the last evaluation  *)
(* has left there.                                                         *)
(***************************************************************************)
EXTENDS KinematicReturn, RungeKutta, Cure, Damage, UnknownLayout, StateArrays

CONSTANTS
  Point,
  Decks,       \* the materials; see Constructs
  Repeated,    \* the models whose host may update again without restoring the history
  MaxAccepts(_)   \* bound: the steps accepted, for each model

(***************************************************************************)
(* The parameters of each model.                                           *)
(***************************************************************************)
Law == {"linear", "flat"}

J2Parameters ==
  [model : {"j2"}, M : Int, sigma0 : Int, law : Law, K : Int, flat : Int, loads : SUBSET Int]

DPParameters ==
  [model : {"drucker_prager"}, G : Int, Kb : Int, eta : Int, beta : Int, sigma0 : Int, law : Law,
   K : Int, flat : Int, loads : SUBSET [dev : Int, vol : Int]]

KinParameters ==
  [model : {"kinematic"}, M : Int, sigma0 : Int, law : Law, K : Int, flat : Int, C : Int, gamma : Int,
   residualFirst : BOOLEAN, graphDriven : BOOLEAN, loads : SUBSET Int]

RKParameters ==
  [model : {"j2_rk"}, M : Int, sigma0 : Int, law : Law, K : Int, flat : Int, tableau : STRING,
   loads : SUBSET Int]

IntegratorParameters ==
  [model : {"integrator"}, tableau : STRING, law : {"curing", "kamal"}, k1 : Int, k2 : Int, h : Int,
   whole : Nat \ {0}, start : Int, loads : SUBSET Int]

CureParameters == [model : {"cure"}, m : {0, 1}, start : 0 .. One, loads : SUBSET Int]

DamageParameters ==
  [model : {"damage"}, critical : Int, law : {"linear", "peerlings"}, kappa0 : Int, kappaf : Int,
   dmax : Int, M : Int, loads : SUBSET Int]

Parameters(d) ==
  \/ d \in J2Parameters \cup DPParameters \cup KinParameters \cup RKParameters
           \cup IntegratorParameters \cup CureParameters \cup DamageParameters
  \/ d.model = "system"
  \/ d.model = "arrays" /\ ArrayParameters(d)

ASSUME LocalSolveAssumption ==
  /\ One \in Nat \ {0} /\ Full \in Int
  /\ \A d \in Decks : MaxAccepts(d.model) \in Nat /\ Parameters(d)
  /\ \A d \in Decks : d.model = "system" =>
       d.system \in Systems /\ d.loads \subseteq Entries(d.system.unknowns)
  /\ "arrays" \notin Repeated   \* a call unpacks STATEV first

VARIABLES
  deck,        \* the material, with the loads it is under; constant
  acc,         \* the accepted history of each point
  accepts,     \* and how many steps have been accepted
  graph,       \* what the graph holds
  end,         \* how the last evaluation ended, or "none"
  point, load  \* and what it was of

localVars == <<deck, acc, accepts, graph, end, point, load>>

\* A constructor throws on a deck it cannot integrate.
Constructs(d) ==
  /\ d.model = "j2_rk" => RKConstructs(d)
  /\ d.model = "integrator" => d.tableau \in Scheme
  /\ d.model = "damage" => DamageConstructs(d)
  /\ d.model = "system" => CheckNames(d.system.unknowns, d.system.zeros, TRUE)
  /\ d.model = "arrays" => MapConstructs(d)

\* The history a constructed material starts with.
Start(d) ==
  CASE d.model \in {"j2", "j2_rk"} -> [ep |-> 0, kappa |-> 0]
    [] d.model = "drucker_prager"  -> [ep |-> [dev |-> 0, vol |-> 0], kappa |-> 0]
    [] d.model = "kinematic"       -> [ep |-> 0, kappa |-> 0, beta |-> 0]
    [] d.model = "cure"            -> d.start
    [] d.model = "integrator"      -> d.start
    [] d.model = "damage"          -> d.critical
    [] d.model = "system"         -> 0
    [] d.model = "arrays"         -> StartArrays(d)

StartGraph(d) ==
  [hist |-> Start(d), H |-> 0, dH |-> 0, stress |-> 0, tangent |-> 0, damage |-> 0,
   converged |-> FALSE, solver |-> Fresh]

\* The loads of a bare system are the jacobians its function material may have.
LoadedJacobian(d, l) == UnitJacobian(d.system.unknowns, l[1], l[2])

\* update() of the graph g, the accepted history being o.
Outcomes(d, o, g, l) ==
  CASE d.model = "j2"             -> J2Compute(d, o, g, l)
    [] d.model = "drucker_prager" -> DPCompute(d, o, g, l)
    [] d.model = "kinematic"      -> KinUpdate(d, o, g, l)
    [] d.model = "j2_rk"          -> RKCompute(d, o, g, l)
    [] d.model = "cure"           -> CureCompute(d, g, l)
    [] d.model = "integrator"     -> IntegratorCompute(d, o, g)
    [] d.model = "damage"         -> DamageCompute(d, o, g, l)
    [] d.model = "system"         -> SystemCompute(d.system, g, LoadedJacobian(d, l))
    [] d.model = "arrays"         -> ArrayCompute(d, o, g, l)

Ended(out) == end' = out.end /\ graph' = out.graph

LocalInit ==
  /\ deck \in {d \in Decks : Constructs(d)}
  /\ acc = [p \in Point |-> Start(deck)] /\ accepts = 0
  /\ graph = StartGraph(deck) /\ end = "none"
  /\ point = CHOOSE p \in Point : TRUE
  /\ load = CHOOSE l \in deck.loads : TRUE

\* load_history() writes both values of every history.
Evaluate(p, l) ==
  /\ \E out \in Outcomes(deck, acc[p], [graph EXCEPT !.hist = acc[p]], l) : Ended(out)
  /\ point' = p /\ load' = l
  /\ UNCHANGED <<deck, acc, accepts>>

\* update() once more, on the history as the last one left it; a failed context refuses.
UpdateAgain(l) ==
  /\ deck.model \in Repeated /\ end = "returned"
  /\ \E out \in Outcomes(deck, acc[point], graph, l) : Ended(out)
  /\ load' = l
  /\ UNCHANGED <<deck, acc, accepts, point>>

Accept ==
  /\ end = "returned" /\ accepts < MaxAccepts(deck.model)
  /\ acc' = [acc EXCEPT ![point] = graph.hist]
  /\ accepts' = accepts + 1
  /\ end' = "none"
  /\ UNCHANGED <<deck, graph, point, load>>

LocalNext ==
  \/ \E p \in Point, l \in deck.loads : Evaluate(p, l)
  \/ \E l \in deck.loads : UpdateAgain(l)
  \/ Accept

LocalSpec == LocalInit /\ [][LocalNext]_localVars

-----------------------------------------------------------------------------
\* What the model promises of the graph g it returns.
Solves(d, o, l, g) ==
  CASE d.model = "j2"             -> J2Solves(d, o, l, g) /\ HardeningIsCurrent(d, g)
    [] d.model = "drucker_prager" -> DPSolves(d, o, l, g) /\ HardeningIsCurrent(d, g)
    [] d.model = "kinematic"      -> KinSolves(d, o, l, g) /\ HardeningIsCurrent(d, g)
    [] d.model = "j2_rk"          -> RKSolves(d, o, l, g) /\ HardeningIsCurrent(d, g)
    [] d.model = "cure"           -> CureSolves(d, o, l, g)
    [] d.model = "integrator"     -> IntegratorSolves(d, o, g)
    [] d.model = "damage"         -> DamageSolves(d, o, l, g)
    [] d.model \in {"system", "arrays"} -> TRUE

\* An evaluation that returns has solved the equations of its model, at its point and under
\* its load, from the accepted history, whatever was evaluated and where before it.
ReturnsSolve == end = "returned" => Solves(deck, acc[point], load, graph)

\* The unknowns, the factorization and the strain derivative a coupled return map reads
\* are of its own evaluation: of its root, or zero where it did not solve.
DerivativesAreOfThisPoint ==
  deck.model = "kinematic" /\ end = "returned" =>
    SolverIsCurrent(deck, acc[point], load, graph)

Grown(d, h, g) ==
  CASE d.model \in {"j2", "drucker_prager", "kinematic", "j2_rk"} -> g.hist.kappa >= h.kappa
    [] d.model = "integrator" -> g.converged => g.hist >= h
    [] d.model = "arrays"     -> TRUE
    [] OTHER                  -> g.hist >= h

\* Hardening, cure and damage only grow from step to step; those of an integrator as long
\* as it converged.
HistoryOnlyGrows ==
  [][\A p \in Point : acc'[p] # acc[p] => Grown(deck, acc[p], graph)]_localVars

\* The flat system is the one of the material, block by block, and a block declared zero
\* that is not is found when it is verified.
SystemIsPacked ==
  deck.model = "system" /\ end # "none" =>
    LET s == deck.system
        J == LoadedJacobian(deck, load)
    IN  /\ s.verify => (end = "returned" <=> ZerosHold(s, J))
        /\ end = "returned" /\ ZerosHold(s, J) => IsPacked(s.unknowns, J, graph.solver)

\* The state array of the host has, at every integration point and for every process that
\* reads it, what the material has stored there, in the frame of the host; its stresses and
\* its matrix are those of the material for the strains it passed.
ArraysCarryTensors ==
  deck.model = "arrays" /\ end = "returned" => CarryTensors(deck, acc[point], load, graph)
=============================================================================
