-------------------------- MODULE LocalSolveProofs --------------------------
EXTENDS LocalSolve, LayoutProofs

-----------------------------------------------------------------------------
LEMMA Products ==
  ASSUME NEW a \in Int, NEW b \in Int, NEW c \in Int
  PROVE  /\ a * b \in Int /\ a * b * c = a * (b * c) /\ a * (b - c) = a * b - a * c
         /\ a * (b + c) = a * b + a * c
OBVIOUS

\* A result of the scalar solver is of the grid, and converged at a root only.
LEMMA SolveResult ==
  ASSUME NEW R, NEW J, NEW x0, NEW r \in Solve(R, J, x0)
  PROVE  r.x \in Grid /\ (r.converged <=> R[r.x] = 0)
<1> DEFINE at == Evaluated(R, J, x0)
<1> HIDE DEF at
<1>1. PICK n \in 1 .. MaxIter + 1 :
        r \in {[x |-> x, converged |-> R[x] = 0, iterations |-> AtMost(n, MaxIter)] :
               x \in {x \in at[n] \cap Grid : n > MaxIter \/ R[x] = 0 \/ J[x] = 0}}
  BY DEF Solve, at
<1>2. PICK x \in at[n] \cap Grid :
        r = [x |-> x, converged |-> R[x] = 0, iterations |-> AtMost(n, MaxIter)]
  BY <1>1
<1> QED
  BY <1>2

\* Yield stresses are numbers.
LEMMA HardeningTyped ==
  ASSUME NEW d, d.sigma0 \in Int, d.K \in Int, d.flat \in Int, NEW kappa \in Int
  PROVE  /\ HardeningStress(d, kappa) \in Int /\ HardeningModulus(d, kappa) \in Int
         /\ YieldStress(d, kappa) \in Int
BY DEF HardeningStress, HardeningModulus, YieldStress, AtMost

GraphFields == {"hist", "H", "dH", "stress", "tangent", "damage", "converged", "solver"}

\* A graph whose history has these entries.
GraphOf(g, entries) == DOMAIN g = GraphFields /\ DOMAIN g.hist = entries

\* What hardening does to a graph.
HardenedTo(h, d, g, E, kappa) ==
  /\ GraphOf(h, E) /\ h.hist = [g.hist EXCEPT !.kappa = kappa] /\ h.solver = g.solver
  /\ h.H = HardeningStress(d, kappa) /\ h.dH = HardeningModulus(d, kappa)
  /\ h.stress = g.stress

LEMMA HardenedGraph ==
  ASSUME NEW d, NEW g, NEW E, GraphOf(g, E), "kappa" \in E, NEW kappa
  PROVE  HardenedTo(Hardened(d, g, kappa), d, g, E, kappa)
BY DEF HardenedTo, Hardened, GraphFields, GraphOf

\* A return with a history of multiplier and plastic strain.
ReturnsWith(out, d, g, E, ep, kappa, s) ==
  /\ out.end = "returned" /\ GraphOf(out.graph, E)
  /\ out.graph.hist = [[g.hist EXCEPT !.kappa = kappa] EXCEPT !.ep = ep]
  /\ out.graph.hist.ep = ep /\ out.graph.hist.kappa = kappa /\ out.graph.stress = s
  /\ out.graph.solver = g.solver /\ HardeningIsCurrent(d, out.graph)

LEMMA ReturnedGraph ==
  ASSUME NEW d, NEW g, NEW E, GraphOf(g, E), "kappa" \in E, "ep" \in E, NEW ep, NEW kappa, NEW s
  PROVE  ReturnsWith(Returned(d, g, ep, kappa, s), d, g, E, ep, kappa, s)
<1> DEFINE h == Hardened(d, g, kappa)
           q == [h EXCEPT !.hist.ep = ep, !.stress = s]
           out == Returned(d, g, ep, kappa, s)
<1>1. out.end = "returned" /\ out.graph = q
  BY DEF Returned
<1>2. /\ GraphOf(h, E) /\ h.hist = [g.hist EXCEPT !.kappa = kappa]
      /\ h.H = HardeningStress(d, kappa) /\ h.dH = HardeningModulus(d, kappa)
      /\ h.solver = g.solver
  BY HardenedGraph DEF HardenedTo
<1> HIDE DEF h
<1>3. /\ DOMAIN q = GraphFields /\ q.hist = [h.hist EXCEPT !.ep = ep] /\ q.stress = s
      /\ q.H = h.H /\ q.dH = h.dH /\ q.solver = h.solver
  BY <1>2 DEF GraphFields, GraphOf
<1> HIDE DEF q, out
<1>4. GraphOf(q, E) /\ q.hist.ep = ep /\ q.hist.kappa = kappa
  BY <1>2, <1>3 DEF GraphOf
<1>5. HardeningIsCurrent(d, q)
  BY <1>2, <1>3, <1>4 DEF HardeningIsCurrent
<1>6. q.hist = [[g.hist EXCEPT !.kappa = kappa] EXCEPT !.ep = ep]
  BY <1>2, <1>3
<1>7. ReturnsWith(out, d, g, E, ep, kappa, s)
  BY <1>1, <1>2, <1>3, <1>4, <1>5, <1>6 DEF ReturnsWith
<1> QED
  BY <1>7 DEF out

\* An elastic step gives back an accepted history of the two.
LEMMA ElasticGraph ==
  ASSUME NEW d, NEW g, GraphOf(g, {"ep", "kappa"}), NEW S, NEW o \in [ep : S, kappa : Int], NEW s
  PROVE  /\ ReturnsWith(Elastic(d, o, g, s), d, g, {"ep", "kappa"}, o.ep, o.kappa, s)
         /\ Elastic(d, o, g, s).graph.hist = o
<1> DEFINE out == Elastic(d, o, g, s)
<1>1. ReturnsWith(out, d, g, {"ep", "kappa"}, o.ep, o.kappa, s)
  BY ReturnedGraph DEF Elastic
<1> HIDE DEF out
<1>2. out.graph.hist = o
  BY <1>1 DEF GraphOf, ReturnsWith
<1> QED
  BY <1>1, <1>2 DEF out

LEMMA CutbackGraph ==
  ASSUME NEW d, NEW g, NEW E, GraphOf(g, E), "kappa" \in E, NEW kappa
  PROVE  /\ Cutback(d, g, kappa).end = "cutback"
         /\ GraphOf(Cutback(d, g, kappa).graph, E) /\ Cutback(d, g, kappa).graph.solver = g.solver
<1>1. Cutback(d, g, kappa).end = "cutback" /\ Cutback(d, g, kappa).graph = Hardened(d, g, kappa)
  BY DEF Cutback
<1>2. HardenedTo(Hardened(d, g, kappa), d, g, E, kappa)
  BY HardenedGraph
<1> QED
  BY <1>1, <1>2 DEF HardenedTo

-----------------------------------------------------------------------------
(***************************************************************************)
(* j2_plasticity.                                                          *)
(***************************************************************************)
J2History == [ep : Int, kappa : Int]

J2Typed(d) == d.M \in Int /\ d.sigma0 \in Int /\ d.K \in Int /\ d.flat \in Int

LEMMA J2PlasticSolves ==
  ASSUME NEW d, J2Typed(d), NEW o \in J2History, NEW eps \in Int, NEW g,
         GraphOf(g, {"ep", "kappa"}), NEW dl \in Nat,
         Abs(J2Trial(d, o, eps)) - d.M * dl - YieldStress(d, o.kappa + dl) = 0
  PROVE  LET out == J2Plastic(d, o, g, J2Trial(d, o, eps), dl)
         IN  /\ out.end = "returned" /\ GraphOf(out.graph, {"ep", "kappa"})
             /\ out.graph.hist \in J2History
             /\ J2Solves(d, o, eps, out.graph) /\ HardeningIsCurrent(d, out.graph)
<1> DEFINE s == J2Trial(d, o, eps)
           ep == o.ep + dl * Sign(s)
           kappa == o.kappa + dl
           out == J2Plastic(d, o, g, s, dl)
           q == out.graph
<1>1. ReturnsWith(out, d, g, {"ep", "kappa"}, ep, kappa, s - d.M * dl * Sign(s))
  BY ReturnedGraph DEF J2Plastic
<1>a. Abs(s) - d.M * dl - YieldStress(d, kappa) = 0
  OBVIOUS
<1>2. /\ d.M \in Int /\ o.ep \in Int /\ o.kappa \in Int /\ s \in Int /\ s = d.M * (eps - o.ep)
      /\ d.sigma0 \in Int /\ d.K \in Int /\ d.flat \in Int
  BY DEF J2Typed, J2History, J2Trial
<1> HIDE DEF s, q, out
<1>3. Sign(s) \in {-1, 1} /\ Abs(s) = s * Sign(s) /\ Sign(s) * Sign(s) = 1
  BY <1>2 DEF Sign, Abs
<1>b. /\ out.end = "returned" /\ GraphOf(q, {"ep", "kappa"})
      /\ q.hist.ep = ep /\ q.hist.kappa = kappa /\ q.stress = s - d.M * dl * Sign(s)
      /\ HardeningIsCurrent(d, q)
      /\ q.hist = [[g.hist EXCEPT !.kappa = kappa] EXCEPT !.ep = ep]
  BY <1>1 DEF ReturnsWith, q
<1>c. ep \in Int /\ kappa \in Int
  BY <1>2, <1>3
<1>4. q.hist \in J2History
  <2> HIDE DEF ep, kappa
  <2>1. DOMAIN q.hist = {"ep", "kappa"} /\ q.hist = [n \in DOMAIN g.hist |-> IF n = "ep" THEN ep ELSE IF n = "kappa" THEN kappa ELSE g.hist[n]]
    BY <1>b DEF GraphOf
  <2>2. q.hist = [ep |-> ep, kappa |-> kappa]
    BY <2>1 DEF GraphOf
  <2> QED
    BY <1>c, <2>2 DEF J2History
<1>5. q.stress = d.M * (eps - q.hist.ep)
  BY <1>b, <1>2, <1>3
<1>6. Abs(q.hist.ep - o.ep) = q.hist.kappa - o.kappa /\ q.hist.kappa >= o.kappa
  BY <1>b, <1>2, <1>3 DEF Abs
<1>7. YieldStress(d, q.hist.kappa) \in Int /\ Abs(s) \in Int /\ d.M * dl \in Int
  BY <1>b, <1>2, <1>c, HardeningTyped DEF Abs
<1>8. Abs(s) - d.M * dl = YieldStress(d, q.hist.kappa)
  BY <1>a, <1>b, <1>7
<1>9. YieldStress(d, q.hist.kappa) >= 0 => Abs(q.stress) = YieldStress(d, q.hist.kappa)
  <2>1. q.stress = (Abs(s) - d.M * dl) * Sign(s)
    BY <1>b, <1>2, <1>3, <1>7
  <2> QED
    BY <1>3, <1>7, <1>8, <2>1 DEF Abs
<1>10. J2Solves(d, o, eps, q)
  BY <1>5, <1>6, <1>9 DEF J2Solves
<1> QED
  BY <1>b, <1>4, <1>10 DEF q, out, s

\* Every outcome keeps the shape of the graph; one that returns solves.
LEMMA J2Outcome ==
  ASSUME NEW d, J2Typed(d), NEW o \in J2History, NEW eps \in Int, NEW g,
         GraphOf(g, {"ep", "kappa"}), NEW out \in J2Compute(d, o, g, eps)
  PROVE  /\ GraphOf(out.graph, {"ep", "kappa"})
         /\ out.end = "returned" =>
              /\ out.graph.hist \in J2History
              /\ J2Solves(d, o, eps, out.graph) /\ HardeningIsCurrent(d, out.graph)
<1> DEFINE s == J2Trial(d, o, eps)
<1>1. CASE Abs(s) <= YieldStress(d, o.kappa)
  <2>1. out = Elastic(d, o, g, s)
    BY <1>1 DEF J2Compute
  <2>2. /\ ReturnsWith(out, d, g, {"ep", "kappa"}, o.ep, o.kappa, s)
        /\ out.graph.hist = o
    BY <2>1, ElasticGraph DEF J2History
  <2>3. J2Solves(d, o, eps, out.graph)
    BY <1>1, <2>2 DEF J2Solves, ReturnsWith, J2Trial
  <2> QED
    BY <2>2, <2>3 DEF ReturnsWith
<1>2. CASE ~(Abs(s) <= YieldStress(d, o.kappa))
  <2>1. PICK r \in ScalarReturn(d, o, Abs(s), d.M) : out = J2Return(d, o, g, s, r)
    BY <1>2 DEF J2Compute
  <2>2. r.x \in Grid /\ (r.converged <=> Residual(d, o, Abs(s), d.M)[r.x] = 0)
    BY SolveResult DEF ScalarReturn
  <2>3. CASE ~r.converged \/ r.x < 0
    <3>1. out = Cutback(d, g, o.kappa + r.x)
      BY <2>1, <2>3 DEF J2Return
    <3> QED
      BY <3>1, CutbackGraph
  <2>4. CASE ~(~r.converged \/ r.x < 0)
    <3>1. out = J2Plastic(d, o, g, s, r.x)
      BY <2>1, <2>4 DEF J2Return
    <3>a. r.x \in Int /\ ~(r.x < 0)
      BY <2>2, <2>4, NewtonAssumption
    <3>2. r.x \in Nat
      BY <3>a
    <3>3. Abs(s) - d.M * r.x - YieldStress(d, o.kappa + r.x) = 0
      BY <2>2, <2>4 DEF Residual
    <3> QED
      BY <3>1, <3>2, <3>3, J2PlasticSolves
  <2> QED
    BY <2>3, <2>4
<1> QED
  BY <1>1, <1>2

-----------------------------------------------------------------------------
(***************************************************************************)
(* drucker_prager_plasticity.                                              *)
(***************************************************************************)
Pair == [dev : Int, vol : Int]
DPHistory == [ep : Pair, kappa : Int]
DPTyped(d) ==
  /\ d.G \in Int /\ d.Kb \in Int /\ d.eta \in Int /\ d.beta \in Int
  /\ d.sigma0 \in Int /\ d.K \in Int /\ d.flat \in Int /\ d.law \in Law

\* The apex return clamps its multiplier, which is a solution only where no negative
\* multiplier lowers the yield function.
DPStable(d) == ApexModulus(d) >= 0 /\ ApexModulus(d) + d.K >= 0

\* The history a return of two entries writes.
LEMMA WrittenHistory ==
  ASSUME NEW d, NEW g, GraphOf(g, {"ep", "kappa"}), NEW ep, NEW kappa, NEW s, NEW out,
         ReturnsWith(out, d, g, {"ep", "kappa"}, ep, kappa, s)
  PROVE  out.graph.hist = [ep |-> ep, kappa |-> kappa]
<1>1. DOMAIN out.graph.hist = {"ep", "kappa"} /\ out.graph.hist = [[g.hist EXCEPT !.kappa = kappa] EXCEPT !.ep = ep]
  BY DEF ReturnsWith, GraphOf
<1> QED
  BY <1>1 DEF GraphOf

LEMMA DPYieldTyped ==
  ASSUME NEW d, DPTyped(d), NEW eps \in Pair, NEW ep \in Pair
  PROVE  /\ DPStress(d, eps, ep).s = d.G * (eps.dev - ep.dev) /\ DPStress(d, eps, ep).s \in Int
         /\ DPStress(d, eps, ep).p = d.Kb * (eps.vol - ep.vol) /\ DPStress(d, eps, ep).p \in Int
         /\ ApexModulus(d) \in Int /\ ApexModulus(d) = d.Kb * d.eta * d.beta
BY DEF DPTyped, Pair, DPStress, ApexModulus

LEMMA SmoothReturnSolves ==
  ASSUME NEW d, DPTyped(d), NEW o \in DPHistory, NEW eps \in Pair, NEW g,
         GraphOf(g, {"ep", "kappa"}), NEW sig, sig = DPStress(d, eps, o.ep), NEW dl \in Nat,
         (Abs(sig.s) + d.eta * sig.p) - (d.G + ApexModulus(d)) * dl - YieldStress(d, o.kappa + dl) = 0,
         ~NeedsApexReturn(d, AtLeast(dl, 0), Abs(sig.s)), NEW out, out = SmoothReturn(d, o, g, sig, dl)
  PROVE  /\ out.end = "returned" /\ GraphOf(out.graph, {"ep", "kappa"})
         /\ out.graph.hist \in DPHistory
         /\ DPSolves(d, o, eps, out.graph) /\ HardeningIsCurrent(d, out.graph)
<1> DEFINE ep == [dev |-> o.ep.dev + dl * Sign(sig.s), vol |-> o.ep.vol + d.beta * dl]
           kappa == o.kappa + dl
           sg == [s |-> sig.s - d.G * dl * Sign(sig.s), p |-> sig.p - d.Kb * d.beta * dl]
           q == out.graph
<1>1. ReturnsWith(out, d, g, {"ep", "kappa"}, ep, kappa, sg)
  BY ReturnedGraph DEF SmoothReturn
<1>2. /\ o.ep \in Pair /\ o.ep.dev \in Int /\ o.ep.vol \in Int /\ o.kappa \in Int
      /\ eps.dev \in Int /\ eps.vol \in Int
      /\ d.G \in Int /\ d.Kb \in Int /\ d.eta \in Int /\ d.beta \in Int
  BY DEF DPTyped, Pair, DPHistory
<1>3. /\ sig.s = d.G * (eps.dev - o.ep.dev) /\ sig.s \in Int
      /\ sig.p = d.Kb * (eps.vol - o.ep.vol) /\ sig.p \in Int
      /\ ApexModulus(d) \in Int /\ ApexModulus(d) = d.Kb * d.eta * d.beta
  BY <1>2, DPYieldTyped
<1>4. Sign(sig.s) \in {-1, 1} /\ Abs(sig.s) = sig.s * Sign(sig.s) /\ Abs(sig.s) \in Int
  BY <1>3 DEF Sign, Abs
<1>5. ep \in Pair /\ kappa \in Int
  BY <1>2, <1>4 DEF Pair
<1>6. YieldStress(d, kappa) \in Int
  BY <1>5, HardeningTyped DEF DPTyped
<1>7. sg = DPStress(d, eps, ep)
  <2>1. sg.s = d.G * (eps.dev - ep.dev)
    BY <1>2, <1>3, <1>4
  <2>2. sg.p = d.Kb * (eps.vol - ep.vol)
    BY <1>2, <1>3, <1>4
  <2> QED
    BY <2>1, <2>2 DEF DPStress
<1>8. d.G * dl < Abs(sig.s)
  BY <1>2, <1>4 DEF NeedsApexReturn, AtLeast
<1>9. DPYield(d, sg, kappa) = 0
  <2>1. Abs(sg.s) = Abs(sig.s) - d.G * dl
    <3>1. d.G * dl \in Int /\ sg.s = sig.s - (d.G * dl) * Sign(sig.s)
      BY <1>2, <1>4
    <3> HIDE DEF sg
    <3> QED
      BY <1>3, <1>4, <1>8, <3>1 DEF Abs
  <2>2. sg.p = sig.p - d.Kb * d.beta * dl
    OBVIOUS
  <2>3. d.eta * (d.Kb * d.beta * dl) = ApexModulus(d) * dl
    BY <1>2, <1>3
  <2>4. d.eta * sg.p = d.eta * sig.p - ApexModulus(d) * dl
    BY <1>2, <1>3, <2>2, <2>3
  <2>5. (d.G + ApexModulus(d)) * dl = d.G * dl + ApexModulus(d) * dl
    BY <1>2, <1>3
  <2> HIDE DEF sg, kappa
  <2>6. d.G * dl \in Int /\ ApexModulus(d) * dl \in Int /\ d.eta * sig.p \in Int
    BY <1>2, <1>3
  <2>7. (Abs(sig.s) + d.eta * sig.p) - (d.G + ApexModulus(d)) * dl - YieldStress(d, kappa) = 0
    BY DEF kappa
  <2> QED
    BY <1>4, <1>6, <2>1, <2>4, <2>5, <2>6, <2>7 DEF DPYield
<1> HIDE DEF ep, kappa, sg
<1>10. /\ q.hist = [ep |-> ep, kappa |-> kappa] /\ q.stress = sg /\ HardeningIsCurrent(d, q)
       /\ out.end = "returned" /\ GraphOf(q, {"ep", "kappa"})
  <2>1. q.hist = [ep |-> ep, kappa |-> kappa]
    BY <1>1, WrittenHistory
  <2> QED
    BY <1>1, <2>1 DEF ReturnsWith
<1>11. q.hist \in DPHistory /\ q.hist.ep = ep /\ q.hist.kappa = kappa
  BY <1>5, <1>10 DEF DPHistory
<1>12. kappa >= o.kappa /\ (kappa = o.kappa => ep.vol = o.ep.vol)
  BY <1>2 DEF kappa, ep
<1>13. DPSolves(d, o, eps, q)
  BY <1>5, <1>2, <1>7, <1>9, <1>10, <1>11, <1>12 DEF DPSolves
<1> QED
  BY <1>10, <1>11, <1>13

\* A yield stress at a smaller hardening exceeds no more than the modulus allows.
LEMMA SofteningBound ==
  ASSUME NEW d, DPTyped(d), NEW a \in Int, a >= 0, a + d.K >= 0,
         NEW kappa \in Int, NEW x \in Int, x < 0
  PROVE  a * x + YieldStress(d, kappa + x) - YieldStress(d, kappa) <= 0
<1>1. PICK y \in Int : x <= y /\ y <= 0 /\ YieldStress(d, kappa + x) - YieldStress(d, kappa) = d.K * y
  <2>1. CASE d.law = "linear"
    BY <2>1 DEF DPTyped, YieldStress, HardeningStress
  <2>2. CASE d.law # "linear"
    <3> DEFINE y == AtMost(kappa + x, d.flat) - AtMost(kappa, d.flat)
    <3>1. y \in Int /\ x <= y /\ y <= 0
      BY DEF DPTyped, AtMost
    <3>2. AtMost(kappa + x, d.flat) \in Int /\ AtMost(kappa, d.flat) \in Int
      BY DEF DPTyped, AtMost
    <3>3. YieldStress(d, kappa + x) - YieldStress(d, kappa) = d.K * y
      BY <2>2, <3>2 DEF DPTyped, YieldStress, HardeningStress
    <3> QED
      BY <3>1, <3>3
  <2> QED
    BY <2>1, <2>2
<1>2. a * x + d.K * y <= 0
  <2>1. d.K \in Int
    BY DEF DPTyped
  <2>2. CASE d.K >= 0
    <3>1. a * x <= 0 /\ d.K * y <= 0
      BY <1>1, <2>1, <2>2
    <3> QED
      BY <1>1, <2>1, <3>1
  <2>3. CASE d.K < 0
    <3>1. d.K * y <= d.K * x
      BY <1>1, <2>1, <2>3
    <3>2. (a + d.K) * x <= 0
      BY <2>1
    <3>3. a * x + d.K * x = (a + d.K) * x /\ a * x \in Int /\ d.K * x \in Int /\ d.K * y \in Int
      BY <1>1, <2>1
    <3> QED
      BY <3>1, <3>2, <3>3
  <2> QED
    BY <2>1, <2>2, <2>3
<1>3. YieldStress(d, kappa + x) \in Int /\ YieldStress(d, kappa) \in Int /\ a * x \in Int
  BY HardeningTyped DEF DPTyped
<1> QED
  BY <1>1, <1>2, <1>3

LEMMA ApexReturnSolves ==
  ASSUME NEW d, DPTyped(d), DPStable(d), NEW o \in DPHistory, NEW eps \in Pair, NEW g,
         GraphOf(g, {"ep", "kappa"}), NEW sig, sig = DPStress(d, eps, o.ep),
         NEW out \in DPApex(d, o, g, eps, sig)
  PROVE  /\ GraphOf(out.graph, {"ep", "kappa"})
         /\ out.end = "returned" =>
              /\ out.graph.hist \in DPHistory
              /\ DPSolves(d, o, eps, out.graph) /\ HardeningIsCurrent(d, out.graph)
<1>1. PICK r \in ScalarReturn(d, o, d.eta * sig.p, ApexModulus(d)) : out = ApexReturn(d, o, g, eps, r)
  BY DEF DPApex
<1>2. r.x \in Grid /\ (r.converged <=> Residual(d, o, d.eta * sig.p, ApexModulus(d))[r.x] = 0)
  BY SolveResult DEF ScalarReturn
<1>3. CASE ~r.converged
  <2>1. out = Cutback(d, g, o.kappa + r.x)
    BY <1>1, <1>3 DEF ApexReturn
  <2> QED
    BY <2>1, CutbackGraph
<1>4. CASE r.converged
  <2> DEFINE dk == AtLeast(r.x, 0)
             ep == [dev |-> eps.dev, vol |-> o.ep.vol + d.beta * dk]
             kappa == o.kappa + dk
             sg == DPStress(d, eps, ep)
             q == out.graph
  <2>1. ReturnsWith(out, d, g, {"ep", "kappa"}, ep, kappa, sg)
    BY <1>1, <1>4, ReturnedGraph DEF ApexReturn
  <2>2. /\ o.ep \in Pair /\ o.ep.dev \in Int /\ o.ep.vol \in Int /\ o.kappa \in Int
        /\ eps.dev \in Int /\ eps.vol \in Int
        /\ d.G \in Int /\ d.Kb \in Int /\ d.eta \in Int /\ d.beta \in Int /\ d.K \in Int
    BY DEF DPTyped, Pair, DPHistory
  <2>3. r.x \in Int /\ dk \in Nat /\ dk = (IF r.x < 0 THEN 0 ELSE r.x)
    <3>1. r.x \in Int
      BY <1>2, NewtonAssumption
    <3> QED
      BY <3>1 DEF AtLeast
  <2> HIDE DEF dk
  <2>4. ep \in Pair /\ kappa \in Int
    BY <2>2, <2>3 DEF Pair
  <2>5. /\ sig.p = d.Kb * (eps.vol - o.ep.vol) /\ sig.p \in Int
        /\ ApexModulus(d) \in Int /\ ApexModulus(d) = d.Kb * d.eta * d.beta
    BY <2>2, DPYieldTyped
  <2>6. sg.s = 0 /\ sg.p = sig.p - d.Kb * (d.beta * dk)
    <3>1. sg.s = d.G * (eps.dev - ep.dev) /\ sg.p = d.Kb * (eps.vol - ep.vol)
      BY DEF DPStress
    <3>2. ep.dev = eps.dev /\ ep.vol = o.ep.vol + d.beta * dk /\ d.beta * dk \in Int
      BY <2>2, <2>3
    <3> HIDE DEF sg, ep
    <3> QED
      BY <2>2, <2>5, <3>1, <3>2
  <2>7. d.eta * sig.p - ApexModulus(d) * r.x - YieldStress(d, o.kappa + r.x) = 0
    BY <1>2, <1>4 DEF Residual
  <2> DEFINE F == d.eta * sig.p - ApexModulus(d) * dk - YieldStress(d, kappa)
  <2>8. DPYield(d, sg, kappa) = F
    <3> HIDE DEF sg, kappa, ep
    <3>1. d.eta * (d.Kb * (d.beta * dk)) = ApexModulus(d) * dk /\ d.beta * dk \in Int
      BY <2>2, <2>3, <2>5
    <3>2. d.eta * sg.p = d.eta * sig.p - ApexModulus(d) * dk
      <4> DEFINE X == d.Kb * (d.beta * dk)
      <4>1. X \in Int
        BY <2>2, <3>1
      <4> HIDE DEF X
      <4>2. d.eta * (sig.p - X) = d.eta * sig.p - d.eta * X
        BY <2>2, <2>5, <4>1
      <4>3. d.eta * X = ApexModulus(d) * dk /\ sg.p = sig.p - X
        BY <2>6, <3>1 DEF X
      <4> QED
        BY <4>2, <4>3
    <3>3. YieldStress(d, kappa) \in Int /\ d.eta * sig.p \in Int /\ ApexModulus(d) * dk \in Int
      BY <2>2, <2>3, <2>4, <2>5, HardeningTyped DEF DPTyped
    <3> QED
      BY <2>6, <3>2, <3>3 DEF DPYield, Abs
  <2>9. F <= 0 /\ (dk > 0 => F = 0)
    <3>1. CASE r.x >= 0
      <4>1. dk = r.x
        BY <2>3, <3>1
      <4> QED
        BY <2>7, <4>1
    <3>2. CASE r.x < 0
      <4>1. dk = 0 /\ kappa = o.kappa
        BY <2>2, <2>3, <3>2
      <4>2. ApexModulus(d) * r.x + YieldStress(d, o.kappa + r.x) - YieldStress(d, o.kappa) <= 0
        BY <2>2, <2>3, <2>5, <3>2, SofteningBound DEF DPStable
      <4>3. /\ YieldStress(d, o.kappa + r.x) \in Int /\ YieldStress(d, o.kappa) \in Int
            /\ d.eta * sig.p \in Int /\ ApexModulus(d) * r.x \in Int /\ ApexModulus(d) * 0 = 0
        BY <2>2, <2>3, <2>5, HardeningTyped DEF DPTyped
      <4> QED
        BY <2>7, <4>1, <4>2, <4>3
    <3> QED
      BY <2>3, <3>1, <3>2
  <2> HIDE DEF ep, sg, kappa, F
  <2>10. q.hist = [ep |-> ep, kappa |-> kappa]
    BY <2>1, WrittenHistory
  <2>11. /\ q.stress = sg /\ HardeningIsCurrent(d, q)
         /\ out.end = "returned" /\ GraphOf(q, {"ep", "kappa"})
    BY <2>1 DEF ReturnsWith
  <2>12. q.hist \in DPHistory /\ q.hist.ep = ep /\ q.hist.kappa = kappa
    BY <2>4, <2>10 DEF DPHistory
  <2>13. kappa = o.kappa + dk /\ (dk = 0 => ep.vol = o.ep.vol)
    <3>1. d.beta * 0 = 0 /\ o.ep.vol + 0 = o.ep.vol
      BY <2>2
    <3> QED
      BY <2>2, <3>1 DEF ep, kappa
  <2>14. /\ kappa >= o.kappa /\ (kappa > o.kappa <=> dk > 0) /\ (kappa = o.kappa <=> dk = 0)
    BY <2>2, <2>3, <2>13
  <2>15. DPSolves(d, o, eps, q)
    BY <2>8, <2>9, <2>11, <2>12, <2>13, <2>14 DEF DPSolves, sg
  <2> QED
    BY <2>11, <2>12, <2>15
<1> QED
  BY <1>3, <1>4

LEMMA DPOutcome ==
  ASSUME NEW d, DPTyped(d), DPStable(d), NEW o \in DPHistory, NEW eps \in Pair, NEW g,
         GraphOf(g, {"ep", "kappa"}), NEW out \in DPCompute(d, o, g, eps)
  PROVE  /\ GraphOf(out.graph, {"ep", "kappa"})
         /\ out.end = "returned" =>
              /\ out.graph.hist \in DPHistory
              /\ DPSolves(d, o, eps, out.graph) /\ HardeningIsCurrent(d, out.graph)
<1> DEFINE sig == DPStress(d, eps, o.ep)
           phi == Abs(sig.s) + d.eta * sig.p
           geff == d.G + ApexModulus(d)
<1>1. CASE DPYield(d, sig, o.kappa) <= 0
  <2>1. out = Elastic(d, o, g, sig)
    BY <1>1 DEF DPCompute
  <2>2. /\ ReturnsWith(out, d, g, {"ep", "kappa"}, o.ep, o.kappa, sig)
        /\ out.graph.hist = o
    BY <2>1, ElasticGraph DEF DPHistory
  <2>3. out.graph.stress = sig /\ o.kappa \in Int
    BY <2>2 DEF ReturnsWith, DPHistory
  <2>4. DPSolves(d, o, eps, out.graph)
    <3> HIDE DEF sig
    <3>1. out.graph.hist.kappa = o.kappa /\ out.graph.hist.ep = o.ep
      BY <2>2
    <3> QED
      BY <1>1, <2>2, <2>3, <3>1 DEF DPSolves, sig
  <2> QED
    BY <2>2, <2>4 DEF ReturnsWith
<1>2. CASE ~(DPYield(d, sig, o.kappa) <= 0)
  <2>1. PICK r \in ScalarReturn(d, o, phi, geff) : out \in DPReturn(d, o, g, eps, sig, r)
    BY <1>2 DEF DPCompute
  <2>2. r.x \in Grid /\ (r.converged <=> Residual(d, o, phi, geff)[r.x] = 0)
    BY SolveResult DEF ScalarReturn
  <2>3. CASE r.converged /\ r.x < 0
    <3>1. out = Cutback(d, g, o.kappa + r.x)
      BY <2>1, <2>3 DEF DPReturn
    <3> QED
      BY <3>1, CutbackGraph
  <2>4. CASE /\ ~(r.converged /\ r.x < 0)
             /\ ~r.converged \/ NeedsApexReturn(d, AtLeast(r.x, 0), Abs(sig.s))
    <3>1. out \in DPApex(d, o, g, eps, sig)
      BY <2>1, <2>4 DEF DPReturn
    <3> QED
      BY <3>1, ApexReturnSolves
  <2>5. CASE /\ ~(r.converged /\ r.x < 0)
             /\ ~(~r.converged \/ NeedsApexReturn(d, AtLeast(r.x, 0), Abs(sig.s)))
    <3>1. out = SmoothReturn(d, o, g, sig, r.x)
      BY <2>1, <2>5 DEF DPReturn
    <3>2. r.x \in Int /\ ~(r.x < 0)
      BY <2>2, <2>5, NewtonAssumption
    <3>3. r.x \in Nat
      BY <3>2
    <3> HIDE DEF sig, phi, geff
    <3>a. phi - geff * r.x - YieldStress(d, o.kappa + r.x) = 0
      BY <2>2, <2>5 DEF Residual
    <3>4. (Abs(sig.s) + d.eta * sig.p) - (d.G + ApexModulus(d)) * r.x - YieldStress(d, o.kappa + r.x) = 0
      BY <3>a DEF phi, geff
    <3>5. ~NeedsApexReturn(d, AtLeast(r.x, 0), Abs(sig.s))
      BY <2>5
    <3>6. sig = DPStress(d, eps, o.ep)
      BY DEF sig
    <3> QED
      BY <3>1, <3>3, <3>4, <3>5, <3>6, SmoothReturnSolves
  <2> QED
    BY <2>3, <2>4, <2>5
<1> QED
  BY <1>1, <1>2

-----------------------------------------------------------------------------
(***************************************************************************)
(* j2_kinematic_plasticity and its vector_newton.                          *)
(***************************************************************************)
KinEntries == {"ep", "kappa", "beta"}
KinHistory == [ep : Int, kappa : Int, beta : Int]
KinTyped(d) ==
  /\ d.M \in Int /\ d.sigma0 \in Int /\ d.K \in Int /\ d.flat \in Int
  /\ d.C \in Int /\ d.gamma \in Int /\ d.residualFirst \in BOOLEAN

SolverFields == {"x", "converged", "lu", "de"}
KinGraph(g) == GraphOf(g, KinEntries) /\ DOMAIN g.solver = SolverFields

LEMMA SolvedResult ==
  ASSUME NEW v, DOMAIN v = SolverFields, NEW R, NEW J, NEW data, NEW w \in Solved(v, R, J, data)
  PROVE  /\ DOMAIN w = SolverFields
         /\ w.converged => /\ w.x \in Iterate /\ R[w.x] = Seed
                           /\ w.lu = <<data, w.x>> /\ w.de = <<data, w.x>>
<1> DEFINE at == IteratesOf(R, J)
           before == UNION {at[n] : n \in 1 .. MaxIter}
           roots == {x \in (before \cup at[MaxIter + 1]) \cap Iterate : R[x] = Seed}
           stuck == {x \in before : R[x] # Seed /\ Det(J[x]) = 0}
           spent == {xy \in at[MaxIter] \X at[MaxIter + 1] :
                       /\ R[xy[1]] # Seed /\ R[xy[2]] # Seed
                       /\ xy[2] \in StepFrom(xy[1], R[xy[1]], J[xy[1]])}
<1>1. \/ \E x \in roots : w = [x |-> x, converged |-> TRUE, lu |-> <<data, x>>, de |-> <<data, x>>]
      \/ \E x \in stuck : w = [v EXCEPT !.x = x, !.converged = FALSE, !.lu = <<data, x>>]
      \/ \E xy \in spent : w = [v EXCEPT !.x = xy[2], !.converged = FALSE, !.lu = <<data, xy[1]>>]
  BY DEF Solved
<1> HIDE DEF stuck, spent, before
<1>2. CASE \E x \in roots : w = [x |-> x, converged |-> TRUE, lu |-> <<data, x>>, de |-> <<data, x>>]
  BY <1>2 DEF SolverFields
<1> HIDE DEF roots
<1>3. CASE \E x \in stuck : w = [v EXCEPT !.x = x, !.converged = FALSE, !.lu = <<data, x>>]
  BY <1>3 DEF SolverFields
<1>4. CASE \E xy \in spent : w = [v EXCEPT !.x = xy[2], !.converged = FALSE, !.lu = <<data, xy[1]>>]
  BY <1>4 DEF SolverFields
<1> QED
  BY <1>1, <1>2, <1>3, <1>4

\* What a return of the coupled solve leaves.
KinReturned(d, o, eps, q) ==
  /\ q.hist \in KinHistory /\ q.hist.kappa = o.kappa + q.solver.x[1]
  /\ KinSolves(d, o, eps, q) /\ HardeningIsCurrent(d, q) /\ SolverIsCurrent(d, o, eps, q)

LEMMA KinElasticSolves ==
  ASSUME NEW d, KinTyped(d), NEW o \in KinHistory, NEW eps \in Int, NEW g, KinGraph(g),
         Abs(d.M * (eps - o.ep) - o.beta) <= YieldStress(d, o.kappa)
  PROVE  LET out == KinElastic(d, o, g, d.M * (eps - o.ep))
         IN  KinGraph(out.graph) /\ KinReturned(d, o, eps, out.graph)
<1> DEFINE s == d.M * (eps - o.ep)
           g2 == [g EXCEPT !.solver = Reset(g.solver)]
           h == Hardened(d, g2, o.kappa)
           out == KinElastic(d, o, g, s)
           q == out.graph
<1>1. GraphOf(g2, KinEntries) /\ g2.solver = Reset(g.solver)
  BY DEF KinGraph, GraphOf, GraphFields
<1> HIDE DEF g2
<1>2. HardenedTo(h, d, g2, KinEntries, o.kappa)
  BY <1>1, HardenedGraph DEF KinEntries
<1>3. q = [h EXCEPT !.hist = o, !.stress = s]
  BY DEF KinElastic, g2
<1> HIDE DEF h, q, s
<1>4. /\ DOMAIN q = GraphFields /\ q.hist = o /\ q.stress = s /\ q.solver = Reset(g.solver)
      /\ q.H = HardeningStress(d, o.kappa) /\ q.dH = HardeningModulus(d, o.kappa)
  BY <1>1, <1>2, <1>3 DEF HardenedTo, GraphOf, GraphFields
<1>5. /\ DOMAIN q.solver = SolverFields /\ q.solver.x = Seed /\ q.solver.converged = FALSE
      /\ q.solver.de = None
  BY <1>4 DEF KinGraph, Reset, SolverFields
<1>6. DOMAIN o = KinEntries /\ o.kappa \in Int /\ Seed[1] = 0
  BY DEF KinHistory, KinEntries, Seed
<1>7. KinGraph(q)
  BY <1>4, <1>5, <1>6 DEF KinGraph, GraphOf
<1>8. SolverIsCurrent(d, o, eps, q) /\ HardeningIsCurrent(d, q)
  BY <1>4, <1>5 DEF SolverIsCurrent, HardeningIsCurrent
<1>9. KinSolves(d, o, eps, q)
  BY <1>4 DEF KinSolves, s
<1>10. q.hist.kappa = o.kappa + q.solver.x[1]
  BY <1>4, <1>5, <1>6
<1>11. KinReturned(d, o, eps, q)
  BY <1>4, <1>8, <1>9, <1>10 DEF KinReturned
<1> QED
  BY <1>7, <1>11 DEF q, s

LEMMA KinPlasticSolves ==
  ASSUME NEW d, KinTyped(d), d.M >= 0, NEW o \in KinHistory, NEW eps \in Int, NEW g, KinGraph(g),
         NEW v, DOMAIN v = SolverFields, v.converged = TRUE, v.x \in Iterate, v.x[1] >= 0,
         KinResidual(d, o, d.M * (eps - o.ep), v.x) = Seed,
         v.lu = <<d.M * (eps - o.ep), v.x>>, v.de = <<d.M * (eps - o.ep), v.x>>
  PROVE  LET out == KinPlastic(d, o, g, d.M * (eps - o.ep), v)
         IN  out.end = "returned" /\ KinGraph(out.graph) /\ KinReturned(d, o, eps, out.graph)
<1> DEFINE s == d.M * (eps - o.ep)
           dl == v.x[1]
           beta == o.beta + v.x[2]
           eta == s - beta
           N == Flow(eta)
           ep == o.ep + dl * N
           kappa == o.kappa + dl
           st == s - d.M * dl * N
           g2 == [g EXCEPT !.solver = v, !.hist.beta = beta]
           out == KinPlastic(d, o, g, s, v)
           q == out.graph
<1>1. /\ dl \in Nat /\ v.x[2] \in Int /\ v.x = <<dl, v.x[2]>>
  <2>1. v.x \in Int \X Int
    BY NewtonAssumption DEF Iterate
  <2> QED
    BY <2>1
<1>2. /\ o.ep \in Int /\ o.kappa \in Int /\ o.beta \in Int /\ DOMAIN o = KinEntries
      /\ d.M \in Int /\ d.C \in Int /\ d.gamma \in Int
  BY DEF KinTyped, KinHistory, KinEntries
<1> HIDE DEF dl
<1>3. s \in Int /\ beta \in Int /\ eta \in Int
  BY <1>1, <1>2
<1>4. N \in {-1, 0, 1} /\ Abs(eta) = eta * N /\ eta = Abs(eta) * N /\ Abs(eta) \in Nat
  <2> HIDE DEF eta
  <2> QED
    BY <1>3 DEF Flow, Sign, Abs
<1>5. ep \in Int /\ kappa \in Int
  <2> HIDE DEF N
  <2> QED
    BY <1>1, <1>2, <1>4
<1>6. /\ Abs(eta) - d.M * dl - YieldStress(d, kappa) = 0
      /\ (1 + d.gamma * dl) * beta - o.beta - d.C * dl * N = 0
  BY DEF KinResidual, Seed, dl
<1>7. GraphOf(g2, KinEntries) /\ g2.solver = v /\ g2.hist = [g.hist EXCEPT !.beta = beta]
  <2> HIDE DEF beta
  <2> QED
    BY DEF KinGraph, GraphOf, GraphFields, KinEntries
<1>8. out = Returned(d, g2, ep, kappa, st)
  BY DEF KinPlastic, dl
<1> HIDE DEF g2
<1>9. ReturnsWith(Returned(d, g2, ep, kappa, st), d, g2, KinEntries, ep, kappa, st)
  BY <1>7, ReturnedGraph DEF KinEntries
<1> HIDE DEF out, ep, kappa, st, beta
<1>10. /\ out.end = "returned" /\ GraphOf(q, KinEntries) /\ q.stress = st /\ q.solver = v
       /\ HardeningIsCurrent(d, q) /\ q.hist = [[g2.hist EXCEPT !.kappa = kappa] EXCEPT !.ep = ep]
  BY <1>7, <1>8, <1>9 DEF ReturnsWith
<1>11. q.hist = [ep |-> ep, kappa |-> kappa, beta |-> beta]
  <2>1. DOMAIN g.hist = KinEntries
    BY DEF KinGraph, GraphOf
  <2>2. q.hist = [[[g.hist EXCEPT !.beta = beta] EXCEPT !.kappa = kappa] EXCEPT !.ep = ep]
    BY <1>7, <1>10
  <2> QED
    BY <2>1, <2>2 DEF KinEntries
<1>12. q.hist \in KinHistory /\ q.hist.ep = ep /\ q.hist.kappa = kappa /\ q.hist.beta = beta
  BY <1>3, <1>5, <1>11 DEF KinHistory
<1> HIDE DEF q, N, eta
<1>13. st = d.M * (eps - ep)
  <2> DEFINE X == dl * N
  <2>1. X \in Int /\ N \in Int /\ d.M * dl * N = d.M * X
    BY <1>1, <1>2, <1>4, Products
  <2>2. st = d.M * (eps - o.ep) - d.M * X /\ ep = o.ep + X
    BY <2>1 DEF st, ep, s
  <2> HIDE DEF X
  <2>3. d.M * ((eps - o.ep) - X) = d.M * (eps - o.ep) - d.M * X
    <3> DEFINE Y == eps - o.ep
    <3>1. Y \in Int
      BY <1>2
    <3> HIDE DEF Y
    <3>2. d.M * (Y - X) = d.M * Y - d.M * X
      BY <1>2, <2>1, <3>1, Products
    <3> QED
      BY <3>2 DEF Y
  <2>4. eps - (o.ep + X) = (eps - o.ep) - X
    BY <1>2, <2>1
  <2> QED
    BY <2>2, <2>3, <2>4
<1>14. ep - o.ep = dl * N /\ kappa - o.kappa = dl
  BY <1>1, <1>2, <1>4 DEF ep, kappa
<1>15. dl * N \in {-dl, 0, dl}
  BY <1>1, <1>4
<1>16. (1 + d.gamma * dl) * beta = o.beta + d.C * (dl * N)
  <2> DEFINE X == dl * N
             lhs == (1 + d.gamma * dl) * beta
  <2>1. N \in Int /\ dl \in Int /\ X \in Int /\ d.gamma * dl \in Int
    BY <1>1, <1>2, <1>4, Products
  <2>2. d.C * dl * N = d.C * X /\ d.C * X \in Int /\ lhs \in Int
    BY <1>2, <1>3, <2>1, Products
  <2>3. lhs - o.beta - d.C * dl * N = 0
    BY <1>6
  <2> HIDE DEF lhs, X
  <2>4. lhs = o.beta + d.C * X
    BY <1>2, <2>2, <2>3
  <2> QED
    BY <2>4 DEF lhs, X
<1>17. YieldStress(d, kappa) >= 0 => Abs(st - beta) = YieldStress(d, kappa)
  <2>1. YieldStress(d, kappa) \in Int
    BY <1>5, HardeningTyped DEF KinTyped
  <2>2. d.M * dl \in Nat
    BY <1>1, <1>2
  <2>3. YieldStress(d, kappa) = Abs(eta) - d.M * dl
    BY <1>4, <1>6, <2>1, <2>2
  <2>4. st - beta = eta - (d.M * dl) * N
    BY <1>1, <1>2, <1>3, <1>4 DEF st, eta
  <2>5. CASE eta = 0
    <3>1. N = 0
      BY <2>5 DEF N, Flow
    <3>2. Abs(eta) = 0 /\ (d.M * dl) * N = 0
      BY <2>2, <2>5, <3>1 DEF Abs
    <3> QED
      BY <2>2, <2>3, <2>4, <2>5, <3>2 DEF Abs
  <2>6. CASE eta # 0
    <3>1. N \in {-1, 1} /\ N * N = 1
      BY <2>6, <1>3 DEF N, Flow, Sign
    <3>2. st - beta = YieldStress(d, kappa) * N
      <4> DEFINE m == d.M * dl
      <4> HIDE DEF m
      <4>1. m \in Nat /\ YieldStress(d, kappa) = Abs(eta) - m /\ st - beta = eta - m * N
        BY <2>2, <2>3, <2>4 DEF m
      <4>2. (Abs(eta) - m) * N = Abs(eta) * N - m * N
        BY <1>4, <3>1, <4>1
      <4> QED
        BY <1>4, <4>1, <4>2
    <3> QED
      BY <2>1, <3>1, <3>2 DEF Abs
  <2> QED
    BY <2>5, <2>6
<1>18. KinSolves(d, o, eps, q)
  <2>1. q.hist.kappa - o.kappa >= 0
    BY <1>1, <1>12, <1>14
  <2> QED
    BY <1>10, <1>12, <1>13, <1>14, <1>15, <1>16, <1>17, <2>1 DEF KinSolves
<1>19. SolverIsCurrent(d, o, eps, q)
  BY <1>10, <1>12 DEF SolverIsCurrent, kappa, beta, dl
<1>20. q.hist.kappa = o.kappa + q.solver.x[1]
  BY <1>10, <1>12 DEF kappa, dl
<1>21. KinReturned(d, o, eps, q) /\ KinGraph(q)
  BY <1>10, <1>12, <1>18, <1>19, <1>20 DEF KinReturned, KinGraph
<1> QED
  BY <1>10, <1>21 DEF out, q, s

LEMMA KinComputeOutcome ==
  ASSUME NEW d, KinTyped(d), d.M >= 0, NEW o \in KinHistory, NEW eps \in Int,
         NEW g, KinGraph(g), NEW out \in KinCompute(d, o, g, eps)
  PROVE  KinGraph(out.graph) /\ (out.end = "returned" => KinReturned(d, o, eps, out.graph))
<1> DEFINE s == d.M * (eps - o.ep)
<1>1. CASE d.graphDriven
  <2>1. out = [end |-> "refused", graph |-> g]
    BY <1>1 DEF KinCompute
  <2> QED
    BY <2>1
<1>2. CASE ~d.graphDriven /\ Abs(s - o.beta) <= YieldStress(d, o.kappa)
  <2>1. out = KinElastic(d, o, g, s)
    BY <1>2 DEF KinCompute
  <2> QED
    BY <1>2, <2>1, KinElasticSolves
<1>3. CASE ~d.graphDriven /\ ~(Abs(s - o.beta) <= YieldStress(d, o.kappa))
  <2> DEFINE R == [x \in Iterate |-> KinResidual(d, o, s, x)]
             J == [x \in Iterate |-> KinJacobian(d, o, s, x)]
  <2>1. PICK v \in Solved(g.solver, R, J, s) : out = KinReturn(d, o, g, s, v)
    BY <1>3 DEF KinCompute
  <2> HIDE DEF J
  <2>2. /\ DOMAIN v = SolverFields
        /\ v.converged => /\ v.x \in Iterate /\ R[v.x] = Seed
                          /\ v.lu = <<s, v.x>> /\ v.de = <<s, v.x>>
    <3> HIDE DEF R, s
    <3> QED
      BY SolvedResult DEF KinGraph
  <2>3. CASE ~v.converged \/ v.x[1] < 0
    <3> DEFINE g2 == [g EXCEPT !.solver = v]
    <3>1. out = Cutback(d, g2, o.kappa + v.x[1])
      BY <2>1, <2>3 DEF KinReturn, KinCutback
    <3>2. GraphOf(g2, KinEntries) /\ g2.solver = v
      BY DEF KinGraph, GraphOf, GraphFields
    <3> HIDE DEF g2
    <3>3. /\ out.end = "cutback" /\ GraphOf(out.graph, KinEntries) /\ out.graph.solver = v
      BY <3>1, <3>2, CutbackGraph DEF KinEntries
    <3> QED
      BY <2>2, <3>3 DEF KinGraph
  <2>4. CASE ~(~v.converged \/ v.x[1] < 0)
    <3>1. out = KinPlastic(d, o, g, s, v)
      BY <2>1, <2>4 DEF KinReturn
    <3>2. v.converged /\ ~(v.x[1] < 0) /\ v.x \in Iterate
      BY <2>2, <2>4
    <3>3. v.x[1] \in Int
      BY <3>2, NewtonAssumption DEF Iterate
    <3>4. v.x[1] >= 0
      BY <3>2, <3>3
    <3>5. KinResidual(d, o, s, v.x) = Seed
      BY <2>2, <3>2
    <3>6. v.lu = <<s, v.x>> /\ v.de = <<s, v.x>>
      BY <2>2, <3>2
    <3> QED
      BY <2>2, <3>1, <3>2, <3>4, <3>5, <3>6, KinPlasticSolves
  <2> QED
    BY <2>3, <2>4
<1> QED
  BY <1>1, <1>2, <1>3

\* The residual once more, at the iterate that is there, changes nothing of a return.
LEMMA ResidualAgain ==
  ASSUME NEW d, NEW o \in KinHistory, NEW eps, NEW q, KinGraph(q)
  PROVE  /\ KinGraph(ComputeResidual(d, o, q))
         /\ KinReturned(d, o, eps, q) => KinReturned(d, o, eps, ComputeResidual(d, o, q))
<1> DEFINE h == ComputeResidual(d, o, q)
           kappa == o.kappa + q.solver.x[1]
<1>1. HardenedTo(Hardened(d, q, kappa), d, q, KinEntries, kappa)
  BY HardenedGraph DEF KinGraph, KinEntries
<1>2. HardenedTo(h, d, q, KinEntries, kappa)
  BY <1>1 DEF ComputeResidual
<1> HIDE DEF h
<1>3. KinGraph(h)
  BY <1>2 DEF HardenedTo, KinGraph
<1>4. ASSUME KinReturned(d, o, eps, q) PROVE KinReturned(d, o, eps, h)
  <2>1. q.hist.kappa = kappa /\ q.hist \in KinHistory
    BY <1>4 DEF KinReturned
  <2>2. h.hist = q.hist /\ h.solver = q.solver /\ h.stress = q.stress
    BY <1>2, <2>1 DEF HardenedTo, KinHistory
  <2>3. HardeningIsCurrent(d, h)
    BY <1>2, <2>1, <2>2 DEF HardenedTo, HardeningIsCurrent
  <2> QED
    BY <1>4, <2>2, <2>3 DEF KinReturned, KinSolves, SolverIsCurrent
<1> QED
  BY <1>3, <1>4 DEF h

LEMMA KinOutcome ==
  ASSUME NEW d, KinTyped(d), d.M >= 0, NEW o \in KinHistory, NEW eps \in Int,
         NEW g, KinGraph(g), NEW out \in KinUpdate(d, o, g, eps)
  PROVE  KinGraph(out.graph) /\ (out.end = "returned" => KinReturned(d, o, eps, out.graph))
<1>1. CASE d.residualFirst
  <2>1. out \in KinCompute(d, o, ComputeResidual(d, o, g), eps)
    BY <1>1 DEF KinUpdate
  <2>2. KinGraph(ComputeResidual(d, o, g))
    BY ResidualAgain
  <2> QED
    BY <2>1, <2>2, KinComputeOutcome
<1>2. CASE ~d.residualFirst
  <2>1. PICK r \in KinCompute(d, o, g, eps) :
          out = IF r.end = "returned" THEN [r EXCEPT !.graph = ComputeResidual(d, o, r.graph)] ELSE r
    BY <1>2 DEF KinUpdate
  <2>2. KinGraph(r.graph) /\ (r.end = "returned" => KinReturned(d, o, eps, r.graph))
    BY KinComputeOutcome
  <2>3. CASE r.end = "returned"
    <3>1. out.graph = ComputeResidual(d, o, r.graph)
      BY <2>1, <2>3
    <3> QED
      BY <2>2, <2>3, <3>1, ResidualAgain
  <2>4. CASE r.end # "returned"
    BY <2>1, <2>2, <2>4
  <2> QED
    BY <2>3, <2>4
<1> QED
  BY <1>1, <1>2

-----------------------------------------------------------------------------
(***************************************************************************)
(* Iterates and weighted sums.                                             *)
(***************************************************************************)
LEMMA EvaluatedIn ==
  ASSUME NEW R, NEW J, NEW x0, NEW n \in 1 .. MaxIter + 1
  PROVE  Evaluated(R, J, x0)[n] \subseteq Grid \cup {x0}
<1> DEFINE S == SUBSET (Grid \cup {x0})
           next(X) == UNION {Step(x, R[x], J[x]) : x \in {x \in X : R[x] # 0 /\ J[x] # 0}}
           at[m \in 1 .. MaxIter + 1] == IF m = 1 THEN {x0} ELSE next(at[m - 1])
           G == [p \in (1 .. MaxIter) \X S |-> next(p[2])]
<1>1. MaxIter \in Nat \ {0}
  BY NewtonAssumption
<1>2. \A X : next(X) \in S
  BY DEF Step
<1> HIDE DEF next, S
<1>3. {x0} \in S /\ G \in [(1 .. MaxIter) \X S -> S]
  BY <1>2 DEF S
<1>4. PICK f \in [0 .. MaxIter -> S] : Recursive(f, MaxIter, {x0}, G)
  <2> HIDE DEF G, at
  <2>1. MaxIter \in Nat
    BY <1>1
  <2> QED
    BY <2>1, <1>3, RecursiveFunction
<1>5. ASSUME NEW i \in 1 .. MaxIter PROVE f[i] = next(f[i - 1])
  <2>1. i - 1 \in 0 .. MaxIter
    BY <1>1
  <2>2. <<i, f[i - 1]>> \in (1 .. MaxIter) \X S
    BY <1>4, <2>1
  <2>3. G[<<i, f[i - 1]>>] = next(<<i, f[i - 1]>>[2])
    BY <2>2
  <2> QED
    BY <1>4, <2>3 DEF Recursive
<1> DEFINE g == [m \in 1 .. MaxIter + 1 |-> f[m - 1]]
<1>6. g = [m \in 1 .. MaxIter + 1 |-> IF m = 1 THEN {x0} ELSE next(g[m - 1])]
  <2>1. ASSUME NEW m \in 1 .. MaxIter + 1 PROVE g[m] = IF m = 1 THEN {x0} ELSE next(g[m - 1])
    <3>1. CASE m = 1
      BY <1>4, <3>1 DEF Recursive
    <3>2. CASE m # 1
      <4>1. m - 1 \in 1 .. MaxIter /\ g[m - 1] = f[m - 2] /\ (m - 1) - 1 = m - 2
        BY <1>1, <3>2
      <4> QED
        BY <1>5, <3>2, <4>1
    <3> QED
      BY <3>1, <3>2
  <2> QED
    BY <2>1
<1> HIDE DEF g
<1>7. at = [m \in 1 .. MaxIter + 1 |-> IF m = 1 THEN {x0} ELSE next(at[m - 1])]
  BY <1>6
<1> HIDE DEF at
<1>10. at[n] \in S
  <2>1. CASE n = 1
    BY <1>1, <1>3, <1>7, <2>1
  <2>2. CASE n # 1
    BY <1>2, <1>7, <2>2
  <2> QED
    BY <2>1, <2>2
<1>11. Evaluated(R, J, x0) = at
  BY DEF Evaluated, at, next
<1> QED
  BY <1>10, <1>11 DEF S

\* f has the partial sums.
SumsTo(f, n, w, k) ==
  f[0] = 0 /\ (\A j \in 1 .. n : f[j] = f[j - 1] + w[j] * k[j]) /\ Weighted(w, k) = f[n]

LEMMA WeightedSum ==
  ASSUME NEW n \in Nat, NEW k \in [1 .. n -> Int], NEW w, \A j \in 1 .. n : w[j] \in Int
  PROVE  \E f \in [0 .. n -> Int] : SumsTo(f, n, w, k)
<1> DEFINE sum[j \in 0 .. Len(k)] == IF j = 0 THEN 0 ELSE sum[j - 1] + w[j] * k[j]
           G == [p \in (1 .. n) \X Int |-> p[2] + w[p[1]] * k[p[1]]]
<1>1. k \in Seq(Int) /\ Len(k) = n
  OBVIOUS
<1>2. G \in [(1 .. n) \X Int -> Int]
  <2>1. ASSUME NEW p \in (1 .. n) \X Int PROVE p[2] + w[p[1]] * k[p[1]] \in Int
    <3>1. p[1] \in 1 .. n /\ p[2] \in Int /\ w[p[1]] \in Int /\ k[p[1]] \in Int
      OBVIOUS
    <3> QED
      BY <3>1, Products
  <2> QED
    BY <2>1
<1>3. PICK f \in [0 .. n -> Int] : Recursive(f, n, 0, G)
  <2> HIDE DEF G, sum
  <2>1. 0 \in Int
    OBVIOUS
  <2> QED
    BY <1>2, <2>1, RecursiveFunction
<1>4. ASSUME NEW i \in 1 .. n PROVE f[i] = f[i - 1] + w[i] * k[i]
  <2>1. <<i, f[i - 1]>> \in (1 .. n) \X Int
    OBVIOUS
  <2> QED
    BY <1>3, <2>1 DEF Recursive
<1>5. f = [j \in 0 .. Len(k) |-> IF j = 0 THEN 0 ELSE f[j - 1] + w[j] * k[j]]
  <2>1. ASSUME NEW j \in 0 .. n PROVE f[j] = IF j = 0 THEN 0 ELSE f[j - 1] + w[j] * k[j]
    BY <1>3, <1>4 DEF Recursive
  <2> QED
    BY <1>1, <2>1
<1>6. sum = [j \in 0 .. Len(k) |-> IF j = 0 THEN 0 ELSE sum[j - 1] + w[j] * k[j]]
  BY <1>5
<1>7. Weighted(w, k) = sum[n]
  BY <1>1 DEF Weighted
<1> HIDE DEF sum
<1>8. DOMAIN sum = 0 .. n /\ sum[0] = 0 /\ \A j \in 1 .. n : sum[j] = sum[j - 1] + w[j] * k[j]
  BY <1>1, <1>6
<1>9. \A l \in 0 .. n : l \in {j \in 0 .. n : sum[j] \in Int}
  <2> DEFINE T == {j \in 0 .. n : sum[j] \in Int}
  <2>1. 0 \in T
    BY <1>8
  <2>2. ASSUME NEW i \in 0 .. n - 1, i \in T PROVE i + 1 \in T
    <3>1. i + 1 \in 1 .. n /\ sum[i] \in Int /\ (i + 1) - 1 = i
      BY <2>2
    <3>2. w[i + 1] * k[i + 1] \in Int
      BY <3>1, Products
    <3>3. sum[i + 1] = sum[i] + w[i + 1] * k[i + 1]
      BY <1>8, <3>1
    <3> QED
      BY <3>1, <3>2, <3>3
  <2> HIDE DEF T
  <2>3. \A j \in 0 .. n : j \in T
    BY <2>1, <2>2, UpTo
  <2> QED
    BY <2>3 DEF T
<1>10. sum \in [0 .. n -> Int]
  BY <1>6, <1>8, <1>9, <1>1
<1>11. SumsTo(sum, n, w, k)
  BY <1>7, <1>8 DEF SumsTo
<1> QED
  BY <1>10, <1>11

LEMMA WeightedTyped ==
  ASSUME NEW n \in Nat, NEW k \in [1 .. n -> Int], NEW w, \A j \in 1 .. n : w[j] \in Int
  PROVE  Weighted(w, k) \in Int /\ (n = 0 => Weighted(w, k) = 0) /\ (n = 1 => Weighted(w, k) = w[1] * k[1])
<1>0. PICK f \in [0 .. n -> Int] : SumsTo(f, n, w, k)
  BY WeightedSum
<1>1. /\ f[0] = 0 /\ \A j \in 1 .. n : f[j] = f[j - 1] + w[j] * k[j]
      /\ Weighted(w, k) = f[n]
  BY <1>0 DEF SumsTo
<1>2. n = 1 => f[1] = w[1] * k[1]
  <2>1. ASSUME n = 1 PROVE f[1] = w[1] * k[1]
    <3>1. f[1] = f[0] + w[1] * k[1] /\ w[1] * k[1] \in Int
      BY <1>1, <2>1, Products
    <3> QED
      BY <1>1, <3>1
  <2> QED
    BY <2>1
<1> QED
  BY <1>1, <1>2

\* Weights that are not negative keep one sum between another and its negative.
LEMMA WeightedBound ==
  ASSUME NEW n \in Nat, NEW x \in [1 .. n -> Int], NEW y \in [1 .. n -> Int], NEW w,
         \A j \in 1 .. n : w[j] \in Nat /\ x[j] >= 0 /\ y[j] \in {-x[j], 0, x[j]}
  PROVE  /\ Weighted(w, x) \in Int /\ Weighted(w, y) \in Int
         /\ -Weighted(w, x) <= Weighted(w, y) /\ Weighted(w, y) <= Weighted(w, x)
<1>a. \A j \in 1 .. n : w[j] \in Int
  OBVIOUS
<1>b. PICK f \in [0 .. n -> Int] : SumsTo(f, n, w, x)
  BY <1>a, WeightedSum
<1>c. PICK g \in [0 .. n -> Int] : SumsTo(g, n, w, y)
  BY <1>a, WeightedSum
<1>1. /\ f[0] = 0 /\ \A j \in 1 .. n : f[j] = f[j - 1] + w[j] * x[j]
      /\ Weighted(w, x) = f[n]
  BY <1>b DEF SumsTo
<1>2. /\ g[0] = 0 /\ \A j \in 1 .. n : g[j] = g[j - 1] + w[j] * y[j]
      /\ Weighted(w, y) = g[n]
  BY <1>c DEF SumsTo
<1> DEFINE T == {j \in 0 .. n : -f[j] <= g[j] /\ g[j] <= f[j]}
<1>3. 0 \in T
  BY <1>1, <1>2
<1>4. ASSUME NEW i \in 0 .. n - 1, i \in T PROVE i + 1 \in T
  <2>1. i + 1 \in 1 .. n /\ i \in 0 .. n /\ i + 1 \in 0 .. n /\ (i + 1) - 1 = i
    OBVIOUS
  <2> DEFINE j == i + 1
  <2>2. f[j] = f[i] + w[j] * x[j] /\ g[j] = g[i] + w[j] * y[j]
    BY <1>1, <1>2, <2>1
  <2>3. w[j] \in Nat /\ x[j] \in Nat /\ y[j] \in {-x[j], 0, x[j]}
    BY <2>1
  <2> HIDE DEF j
  <2>4. w[j] * x[j] \in Nat /\ w[j] * y[j] \in {-(w[j] * x[j]), 0, w[j] * x[j]}
    <3>1. \A a, b \in Nat : a * b \in Nat /\ a * (-b) = -(a * b) /\ a * 0 = 0
      OBVIOUS
    <3>2. w[j] * x[j] \in Nat /\ w[j] * (-x[j]) = -(w[j] * x[j]) /\ w[j] * 0 = 0
      BY <2>3, <3>1
    <3>3. y[j] = -x[j] \/ y[j] = 0 \/ y[j] = x[j]
      BY <2>3
    <3> QED
      BY <3>2, <3>3
  <2>5. f[i] \in Int /\ g[i] \in Int /\ -f[i] <= g[i] /\ g[i] <= f[i]
    BY <1>4, <2>1
  <2>6. -f[j] <= g[j] /\ g[j] <= f[j]
    BY <2>2, <2>4, <2>5
  <2> QED
    BY <2>1, <2>6 DEF j
<1> HIDE DEF T
<1>5. \A j \in 0 .. n : j \in T
  BY <1>3, <1>4, UpTo
<1> QED
  BY <1>1, <1>2, <1>5 DEF T

LEMMA Coefficients ==
  ASSUME NEW t \in Scheme
  PROVE  LET n == Len(ButcherTableau[t].b)
         IN  /\ n \in Nat \ {0} /\ Stages(t) = 1 .. n
             /\ \A i \in 1 .. n : ButcherTableau[t].b[i] \in Nat /\ A(t, i, i) \in Nat
             /\ \A i, j \in 1 .. n : ButcherTableau[t].a[i][j] \in Int
<1>1. Scheme = {"forward_euler", "explicit_midpoint", "rk4", "implicit_euler", "implicit_midpoint",
                "crank_nicolson", "sdirk3", "gauss_legendre_4"}
  BY DEF Scheme, ButcherTableau
<1>2. CASE t = "forward_euler"
  <2> DEFINE a == <<<<0>>>>
             b == <<24>>
  <2>1. ButcherTableau[t].a = a /\ ButcherTableau[t].b = b
    BY <1>2 DEF ButcherTableau
  <2>2. Len(b) = 1 /\ DOMAIN b = 1 .. 1 /\ \A i \in 1 .. 1 : b[i] \in Nat /\ a[i][i] \in Nat
    OBVIOUS
  <2>3. \A i, j \in 1 .. 1 : a[i][j] \in Int
    OBVIOUS
  <2> HIDE DEF a, b
  <2> QED
    BY <2>1, <2>2, <2>3 DEF Stages, A
<1>3. CASE t = "explicit_midpoint"
  <2> DEFINE a == <<<<0, 0>>, <<12, 0>>>>
             b == <<0, 24>>
  <2>1. ButcherTableau[t].a = a /\ ButcherTableau[t].b = b
    BY <1>3 DEF ButcherTableau
  <2>2. Len(b) = 2 /\ DOMAIN b = 1 .. 2 /\ \A i \in 1 .. 2 : b[i] \in Nat /\ a[i][i] \in Nat
    OBVIOUS
  <2>3. \A i, j \in 1 .. 2 : a[i][j] \in Int
    OBVIOUS
  <2> HIDE DEF a, b
  <2> QED
    BY <2>1, <2>2, <2>3 DEF Stages, A
<1>4. CASE t = "rk4"
  <2> DEFINE a == <<<<0, 0, 0, 0>>, <<12, 0, 0, 0>>, <<0, 12, 0, 0>>, <<0, 0, 24, 0>>>>
             b == <<4, 8, 8, 4>>
  <2>1. ButcherTableau[t].a = a /\ ButcherTableau[t].b = b
    BY <1>4 DEF ButcherTableau
  <2>2. Len(b) = 4 /\ DOMAIN b = 1 .. 4 /\ \A i \in 1 .. 4 : b[i] \in Nat /\ a[i][i] \in Nat
    OBVIOUS
  <2>3. \A i, j \in 1 .. 4 : a[i][j] \in Int
    OBVIOUS
  <2> HIDE DEF a, b
  <2> QED
    BY <2>1, <2>2, <2>3 DEF Stages, A
<1>5. CASE t = "implicit_euler"
  <2> DEFINE a == <<<<24>>>>
             b == <<24>>
  <2>1. ButcherTableau[t].a = a /\ ButcherTableau[t].b = b
    BY <1>5 DEF ButcherTableau
  <2>2. Len(b) = 1 /\ DOMAIN b = 1 .. 1 /\ \A i \in 1 .. 1 : b[i] \in Nat /\ a[i][i] \in Nat
    OBVIOUS
  <2>3. \A i, j \in 1 .. 1 : a[i][j] \in Int
    OBVIOUS
  <2> HIDE DEF a, b
  <2> QED
    BY <2>1, <2>2, <2>3 DEF Stages, A
<1>6. CASE t = "implicit_midpoint"
  <2> DEFINE a == <<<<12>>>>
             b == <<24>>
  <2>1. ButcherTableau[t].a = a /\ ButcherTableau[t].b = b
    BY <1>6 DEF ButcherTableau
  <2>2. Len(b) = 1 /\ DOMAIN b = 1 .. 1 /\ \A i \in 1 .. 1 : b[i] \in Nat /\ a[i][i] \in Nat
    OBVIOUS
  <2>3. \A i, j \in 1 .. 1 : a[i][j] \in Int
    OBVIOUS
  <2> HIDE DEF a, b
  <2> QED
    BY <2>1, <2>2, <2>3 DEF Stages, A
<1>7. CASE t = "crank_nicolson"
  <2> DEFINE a == <<<<0, 0>>, <<12, 12>>>>
             b == <<12, 12>>
  <2>1. ButcherTableau[t].a = a /\ ButcherTableau[t].b = b
    BY <1>7 DEF ButcherTableau
  <2>2. Len(b) = 2 /\ DOMAIN b = 1 .. 2 /\ \A i \in 1 .. 2 : b[i] \in Nat /\ a[i][i] \in Nat
    OBVIOUS
  <2>3. \A i, j \in 1 .. 2 : a[i][j] \in Int
    OBVIOUS
  <2> HIDE DEF a, b
  <2> QED
    BY <2>1, <2>2, <2>3 DEF Stages, A
<1>8. CASE t = "sdirk3"
  <2> DEFINE a == <<<<10, 0>>, <<14, 10>>>>
             b == <<14, 10>>
  <2>1. ButcherTableau[t].a = a /\ ButcherTableau[t].b = b
    BY <1>8 DEF ButcherTableau
  <2>2. Len(b) = 2 /\ DOMAIN b = 1 .. 2 /\ \A i \in 1 .. 2 : b[i] \in Nat /\ a[i][i] \in Nat
    OBVIOUS
  <2>3. \A i, j \in 1 .. 2 : a[i][j] \in Int
    OBVIOUS
  <2> HIDE DEF a, b
  <2> QED
    BY <2>1, <2>2, <2>3 DEF Stages, A
<1>9. CASE t = "gauss_legendre_4"
  <2> DEFINE a == <<<<6, -1>>, <<13, 6>>>>
             b == <<12, 12>>
  <2>1. ButcherTableau[t].a = a /\ ButcherTableau[t].b = b
    BY <1>9 DEF ButcherTableau
  <2>2. Len(b) = 2 /\ DOMAIN b = 1 .. 2 /\ \A i \in 1 .. 2 : b[i] \in Nat /\ a[i][i] \in Nat
    OBVIOUS
  <2>3. \A i, j \in 1 .. 2 : a[i][j] \in Int
    OBVIOUS
  <2> HIDE DEF a, b
  <2> QED
    BY <2>1, <2>2, <2>3 DEF Stages, A
<1> QED
  BY <1>1, <1>2, <1>3, <1>4, <1>5, <1>6, <1>7, <1>8, <1>9

-----------------------------------------------------------------------------
(***************************************************************************)
(* j2_rk_plasticity.                                                       *)
(***************************************************************************)
RKTyped(d) == J2Typed(d) /\ d.law \in Law

\* A stage solves consistency where it stands; stages solved one after the other may ask for
\* a multiplier that is negative.
RKStable(d) ==
  /\ d.M > 0 /\ d.K >= 0
  /\ IsExplicit(d.tableau) \/ Stages(d.tableau) = {1}

Stage == [dl : Int, N : {-1, 0, 1}, ok : BOOLEAN]
Forward(k) == \A j \in 1 .. Len(k) : k[j].dl >= 0

LEMMA FlowTyped ==
  ASSUME NEW d, NEW eps, NEW ep
  PROVE  FlowAt(d, eps, ep) \in {-1, 0, 1}
BY DEF FlowAt, Sign

LEMMA StageStartTyped ==
  ASSUME NEW d, RKConstructs(d), NEW o \in J2History,
         NEW i \in Stages(d.tableau), NEW k \in Seq(Stage), Len(k) < i
  PROVE  /\ StageStart(d, o, i, k).ep \in Int /\ StageStart(d, o, i, k).kappa \in Int
         /\ k = <<>> => StageStart(d, o, i, k) = o
<1> DEFINE t == d.tableau
           n == Len(k)
           w == ButcherTableau[t].a[i]
           x == [j \in 1 .. n |-> k[j].dl]
           y == [j \in 1 .. n |-> k[j].dl * k[j].N]
<1>1. \A j \in 1 .. n : k[j].dl \in Int /\ k[j].N \in Int
  <2>1. \A j \in 1 .. Len(k) : k[j] \in Stage
    OBVIOUS
  <2> QED
    BY <2>1 DEF Stage
<1>2. x \in [1 .. n -> Int] /\ y \in [1 .. n -> Int] /\ n \in Nat
  BY <1>1, Products
<1>3. \A j \in 1 .. n : w[j] \in Int
  <2>1. t \in Scheme
    BY DEF RKConstructs
  <2>2. PICK m \in Nat : i \in 1 .. m /\ \A a, b \in 1 .. m : ButcherTableau[t].a[a][b] \in Int
    BY <2>1, Coefficients
  <2>3. \A j \in 1 .. n : j \in 1 .. m
    BY <1>2, <2>2
  <2> QED
    BY <2>2, <2>3
<1> HIDE DEF x, y, w
<1>4. /\ Weighted(w, x) \in Int /\ (n = 0 => Weighted(w, x) = 0)
      /\ Weighted(w, y) \in Int /\ (n = 0 => Weighted(w, y) = 0)
  <2> HIDE DEF n
  <2> QED
    BY <1>2, <1>3, WeightedTyped
<1>5. StageStart(d, o, i, k) = [ep |-> o.ep + Weighted(w, y), kappa |-> o.kappa + Weighted(w, x)]
  BY DEF StageStart, RowSum, w, x, y
<1>6. o.ep \in Int /\ o.kappa \in Int /\ o = [ep |-> o.ep, kappa |-> o.kappa]
  BY DEF J2History
<1> QED
  BY <1>4, <1>5, <1>6

\* A multiplier at consistency does not go back, where a step is made and where it is solved.
LEMMA ExplicitForward ==
  ASSUME NEW d, RKTyped(d), RKStable(d), NEW eps \in Int, NEW at, at.ep \in Int, at.kappa \in Int,
         NEW e \in ExplicitStages(d, eps, at)
  PROVE  e \in Stage /\ e.dl >= 0
<1> DEFINE F == RKYield(d, eps, at.ep, at.kappa)
           c == d.M + HardeningModulus(d, at.kappa)
           m == -Unit * c
<1>1. F \in Int
  <2>1. d.M * (eps - at.ep) \in Int /\ YieldStress(d, at.kappa) \in Int
    BY HardeningTyped DEF RKTyped, J2Typed
  <2> QED
    BY <2>1 DEF RKYield, Abs
<1>2. c \in Int /\ c > 0 /\ m \in Int /\ m < 0
  <2>1. c \in Int /\ c > 0
    BY DEF RKTyped, J2Typed, RKStable, HardeningModulus
  <2> HIDE DEF c
  <2> QED
    BY <2>1 DEF Unit
<1> HIDE DEF F, m
<1>3. CASE F > 0 /\ eps # at.ep
  <2>1. PICK dl \in Step(0, F, m) : e = [dl |-> dl, N |-> FlowAt(d, eps, at.ep), ok |-> TRUE]
    BY <1>3 DEF ExplicitStages, F, m
  <2>2. dl \in Int /\ Abs((0 - dl) * m - F) < Abs(m)
    BY NewtonAssumption DEF Step
  <2>3. dl >= 0
    <3>1. SUFFICES ASSUME dl <= -1 PROVE FALSE
      BY <2>2
    <3> DEFINE r == (0 - dl) * m
    <3>2. r \in Int /\ r <= m
      BY <1>2, <2>2, <3>1
    <3> HIDE DEF r
    <3>3. Abs(r - F) < Abs(m)
      BY <2>2 DEF r
    <3> QED
      BY <1>1, <1>2, <1>3, <3>2, <3>3 DEF Abs
  <2> QED
    BY <2>1, <2>2, <2>3, FlowTyped DEF Stage
<1>4. CASE ~(F > 0 /\ eps # at.ep)
  <2>1. e = [dl |-> 0, N |-> 0, ok |-> TRUE]
    BY <1>4 DEF ExplicitStages, F
  <2> QED
    BY <2>1 DEF Stage
<1> QED
  BY <1>3, <1>4

LEMMA ImplicitTyped ==
  ASSUME NEW d, NEW eps, NEW at, NEW a, NEW n, NEW e \in ImplicitStages(d, eps, at, a, n)
  PROVE  /\ e \in Stage
         /\ e.ok => e.dl \in Grid \cup {0} /\ StageResidual(d, eps, at, a, n)[e.dl] = 0
<1> DEFINE R == StageResidual(d, eps, at, a, n)
           J == StageJacobian(d, at, a)
<1> HIDE DEF R, J
<1>1. MaxIter \in Nat \ {0} /\ Grid \subseteq Int
  BY NewtonAssumption
<1>d. StageDiverged(R, J, MaxIter - 1) \subseteq Int
  BY <1>1 DEF StageDiverged
<1>2. ASSUME NEW dl, dl \in StageRoots(R, J) \cup StageSpent(R, J) PROVE dl \in Int /\ dl \in Grid \cup {0}
  <2>1. PICK m \in 1 .. MaxIter : dl \in Evaluated(R, J, 0)[m]
    BY <1>1, <1>2 DEF StageRoots, StageSpent
  <2>2. m \in 1 .. MaxIter + 1
    BY <1>1
  <2>3. dl \in Grid \cup {0}
    BY <2>1, <2>2, EvaluatedIn
  <2> QED
    BY <1>1, <2>3
<1>3. \/ \E dl \in StageRoots(R, J) : e = [dl |-> dl, N |-> FlowAt(d, eps, at.ep + a * dl * n), ok |-> TRUE]
      \/ \E dl \in StageSpent(R, J) \cup StageDiverged(R, J, MaxIter - 1) :
           e = [dl |-> dl, N |-> 0, ok |-> FALSE]
  BY DEF ImplicitStages, R, J
<1>4. CASE \E dl \in StageRoots(R, J) : e = [dl |-> dl, N |-> FlowAt(d, eps, at.ep + a * dl * n), ok |-> TRUE]
  <2>1. PICK dl \in StageRoots(R, J) : e = [dl |-> dl, N |-> FlowAt(d, eps, at.ep + a * dl * n), ok |-> TRUE]
    BY <1>4
  <2>2. R[dl] = 0
    BY DEF StageRoots
  <2>3. dl \in Int /\ dl \in Grid \cup {0} /\ FlowAt(d, eps, at.ep + a * dl * n) \in {-1, 0, 1}
    BY <1>2, FlowTyped
  <2> QED
    BY <2>1, <2>2, <2>3 DEF Stage, R
<1>5. CASE \E dl \in StageSpent(R, J) \cup StageDiverged(R, J, MaxIter - 1) :
             e = [dl |-> dl, N |-> 0, ok |-> FALSE]
  BY <1>d, <1>2, <1>5 DEF Stage
<1> QED
  BY <1>3, <1>4, <1>5

LEMMA YieldGrows ==
  ASSUME NEW d, RKTyped(d), d.K >= 0, NEW a \in Int, NEW b \in Int, a <= b
  PROVE  YieldStress(d, a) <= YieldStress(d, b)
<1>1. \A x, y \in Int : x <= y => d.K * x <= d.K * y /\ d.K * x \in Int /\ d.K * y \in Int
  BY DEF RKTyped, J2Typed
<1>2. AtMost(a, d.flat) \in Int /\ AtMost(b, d.flat) \in Int /\ AtMost(a, d.flat) <= AtMost(b, d.flat)
  BY DEF RKTyped, J2Typed, AtMost
<1>3. d.K * a <= d.K * b /\ d.K * a \in Int /\ d.K * b \in Int
  BY <1>1
<1>4. /\ d.K * AtMost(a, d.flat) <= d.K * AtMost(b, d.flat)
      /\ d.K * AtMost(a, d.flat) \in Int /\ d.K * AtMost(b, d.flat) \in Int
  BY <1>1, <1>2
<1>5. HardeningStress(d, a) <= HardeningStress(d, b) /\ HardeningStress(d, a) \in Int /\ HardeningStress(d, b) \in Int
  BY <1>3, <1>4 DEF HardeningStress
<1> QED
  BY <1>5 DEF YieldStress, RKTyped, J2Typed

\* Going back from a stress outside the yield surface leads further out.
LEMMA ImplicitForward ==
  ASSUME NEW d, RKTyped(d), RKStable(d), NEW eps \in Int, NEW o \in J2History, NEW a \in Nat,
         RKYield(d, eps, o.ep, o.kappa) > 0, NEW dl \in Int,
         RKYield(d, eps, o.ep + a * dl * FlowAt(d, eps, o.ep), o.kappa + a * dl) = 0
  PROVE  dl >= 0
<1> DEFINE s == d.M * (eps - o.ep)
           n == FlowAt(d, eps, o.ep)
           m == a * dl
<1>1. SUFFICES ASSUME dl < 0 PROVE FALSE
  OBVIOUS
<1>2. /\ o.ep \in Int /\ o.kappa \in Int /\ d.M \in Int /\ d.M > 0
      /\ s \in Int /\ n \in {-1, 0, 1} /\ m \in Int /\ m <= 0
  <2>1. o.ep \in Int /\ o.kappa \in Int /\ d.M \in Int /\ d.M > 0
    BY DEF J2History, RKTyped, J2Typed, RKStable
  <2>2. m \in Int /\ m <= 0
    BY <1>1
  <2> QED
    BY <2>1, <2>2, FlowTyped
<1>3. Abs(s) = s * n /\ s = Abs(s) * n /\ (n = 0 => s = 0)
  <2>1. CASE eps = o.ep
    <3>1. n = 0 /\ s = 0
      BY <1>2, <2>1 DEF FlowAt
    <3> HIDE DEF s, n
    <3> QED
      BY <3>1 DEF Abs
  <2>2. CASE eps # o.ep
    <3>1. n = Sign(s)
      BY <2>2 DEF FlowAt
    <3> HIDE DEF s, n
    <3> QED
      BY <1>2, <3>1 DEF Sign, Abs
  <2> QED
    BY <2>1, <2>2
<1>4. d.M * (eps - (o.ep + m * n)) = s - (d.M * m) * n
  <2> HIDE DEF n, m
  <2> DEFINE X == m * n
             Y == eps - o.ep
  <2>1. X \in Int /\ Y \in Int /\ n \in Int
    BY <1>2
  <2>2. eps - (o.ep + X) = Y - X
    BY <1>2, <2>1
  <2>3. d.M * m * n = d.M * X
    <3>1. \A b, e \in Int : d.M * b * e = d.M * (b * e)
      BY <1>2, Products
    <3> QED
      BY <1>2, <2>1, <3>1
  <2> HIDE DEF X
  <2>4. d.M * (Y - X) = d.M * Y - d.M * X
    <3> HIDE DEF Y
    <3>1. \A b, e \in Int : d.M * (b - e) = d.M * b - d.M * e
      BY <1>2, Products
    <3> QED
      BY <2>1, <3>1
  <2> QED
    BY <2>2, <2>3, <2>4 DEF X
<1> DEFINE c == d.M * m
<1>5. c \in Int /\ c <= 0
  <2> HIDE DEF m
  <2> QED
    BY <1>2
<1>6. Abs(d.M * (eps - (o.ep + m * n))) >= Abs(s)
  <2> HIDE DEF s, n, c
  <2>1. d.M * (eps - (o.ep + m * n)) = s - c * n
    BY <1>4 DEF c
  <2>2. CASE n = 0
    <3>1. s - c * n = s
      BY <1>2, <1>5, <2>2
    <3> QED
      BY <1>2, <2>1, <3>1 DEF Abs
  <2>3. CASE n = 1
    BY <1>2, <1>3, <1>5, <2>1, <2>3 DEF Abs
  <2>4. CASE n = -1
    BY <1>2, <1>3, <1>5, <2>1, <2>4 DEF Abs
  <2> QED
    BY <1>2, <2>2, <2>3, <2>4
<1>7. YieldStress(d, o.kappa + m) <= YieldStress(d, o.kappa)
  <2> HIDE DEF m
  <2> QED
    BY <1>2, YieldGrows DEF RKStable
<1>8. /\ YieldStress(d, o.kappa + m) \in Int /\ YieldStress(d, o.kappa) \in Int
      /\ Abs(s) \in Int /\ Abs(d.M * (eps - (o.ep + m * n))) \in Int
  <2>1. d.M * (eps - (o.ep + m * n)) \in Int
    <3> HIDE DEF s, n, m
    <3> DEFINE X == m * n
    <3>1. X \in Int
      BY <1>2
    <3> HIDE DEF X
    <3>2. d.M * (eps - (o.ep + X)) \in Int
      BY <1>2, <3>1
    <3> QED
      BY <3>2 DEF X
  <2> HIDE DEF s, n, m
  <2> QED
    BY <1>2, <2>1, HardeningTyped DEF Abs, RKTyped, J2Typed
<1>9. Abs(s) - YieldStress(d, o.kappa) > 0
  BY DEF RKYield
<1>10. Abs(d.M * (eps - (o.ep + m * n))) - YieldStress(d, o.kappa + m) = 0
  BY DEF RKYield
<1> HIDE DEF s, n, m
<1> QED
  BY <1>6, <1>7, <1>8, <1>9, <1>10

\* The sequences of stages after the first i, as StageSequences builds them.
StagesAfter(d, o, eps, i, K) ==
  UNION {IF k # <<>> /\ ~Last(k).ok THEN {k}
         ELSE {Append(k, e) : e \in NextStages(d, o, eps, i, k)} : k \in K}

\* Stages 1 to i at most, one that did not converge being the last.
UpToStage(i, k) ==
  /\ k \in Seq(Stage) /\ (i > 0 => k # <<>>)
  /\ (k = <<>> \/ k[Len(k)].ok) => Len(k) = i /\ Forward(k)

LEMMA NextStagesForward ==
  ASSUME NEW d, RKTyped(d), RKConstructs(d), RKStable(d), NEW o \in J2History, NEW eps \in Int,
         RKYield(d, eps, o.ep, o.kappa) > 0,
         NEW i \in Stages(d.tableau), NEW k \in Seq(Stage), Len(k) = i - 1,
         NEW e \in NextStages(d, o, eps, i, k)
  PROVE  e \in Stage /\ (e.ok => e.dl >= 0)
<1> DEFINE at == StageStart(d, o, i, k)
           a == A(d.tableau, i, i)
           n == FlowAt(d, eps, o.ep)
<1>1. /\ i \in Nat \ {0} /\ a \in Nat
  <2>1. d.tableau \in Scheme
    BY DEF RKConstructs
  <2> QED
    BY <2>1, Coefficients
<1>2. at.ep \in Int /\ at.kappa \in Int /\ (k = <<>> => at = o)
  <2>1. Len(k) < i
    BY <1>1
  <2> QED
    BY <2>1, StageStartTyped
<1> HIDE DEF at
<1>3. CASE a = 0
  <2>1. e \in ExplicitStages(d, eps, at)
    BY <1>3 DEF NextStages, at
  <2> QED
    BY <1>2, <2>1, ExplicitForward
<1>4. CASE a # 0
  <2>1. e \in ImplicitStages(d, eps, at, a, n)
    BY <1>4 DEF NextStages, at
  <2>2. /\ e \in Stage
        /\ e.ok => e.dl \in Grid \cup {0} /\ StageResidual(d, eps, at, a, n)[e.dl] = 0
    <3> HIDE DEF a, n
    <3> QED
      BY <2>1, ImplicitTyped
  <2>3. Stages(d.tableau) = {1}
    <3>1. ~IsExplicit(d.tableau)
      BY <1>1, <1>4 DEF IsExplicit
    <3> QED
      BY <3>1 DEF RKStable
  <2>4. k = <<>>
    BY <2>3
  <2>5. at = o
    BY <1>2, <2>4
  <2>6. ASSUME e.ok, e.dl \in Grid PROVE e.dl >= 0
    <3>1. e.dl \in Int
      BY <2>2 DEF Stage
    <3>2. RKYield(d, eps, o.ep + a * e.dl * n, o.kappa + a * e.dl) = 0
      BY <2>2, <2>5, <2>6 DEF StageResidual
    <3> HIDE DEF a
    <3> QED
      BY <1>1, <3>1, <3>2, ImplicitForward
  <2> QED
    BY <2>2, <2>6
<1> QED
  BY <1>3, <1>4

LEMMA StageAdded ==
  ASSUME NEW d, RKTyped(d), RKConstructs(d), RKStable(d), NEW o \in J2History, NEW eps \in Int,
         RKYield(d, eps, o.ep, o.kappa) > 0,
         NEW i \in Stages(d.tableau), NEW K, \A k \in K : UpToStage(i - 1, k),
         NEW k \in StagesAfter(d, o, eps, i, K)
  PROVE  UpToStage(i, k)
<1>1. PICK h \in K : k \in IF h # <<>> /\ ~Last(h).ok THEN {h}
                           ELSE {Append(h, e) : e \in NextStages(d, o, eps, i, h)}
  BY DEF StagesAfter
<1>2. h \in Seq(Stage) /\ UpToStage(i - 1, h)
  BY DEF UpToStage
<1>3. i \in Nat \ {0}
  <2>1. d.tableau \in Scheme
    BY DEF RKConstructs
  <2> QED
    BY <2>1, Coefficients
<1>4. CASE h # <<>> /\ ~Last(h).ok
  <2>1. k = h /\ ~h[Len(h)].ok
    BY <1>1, <1>4 DEF Last
  <2> QED
    BY <1>2, <1>4, <2>1 DEF UpToStage
<1>5. CASE ~(h # <<>> /\ ~Last(h).ok)
  <2>1. PICK e \in NextStages(d, o, eps, i, h) : k = Append(h, e)
    BY <1>1, <1>5
  <2>2. h = <<>> \/ h[Len(h)].ok
    BY <1>5 DEF Last
  <2>3. Len(h) = i - 1 /\ Forward(h)
    BY <1>2, <2>2 DEF UpToStage
  <2>4. e \in Stage /\ (e.ok => e.dl >= 0)
    BY <1>2, <2>3, NextStagesForward
  <2>5. k \in Seq(Stage) /\ k # <<>> /\ Len(k) = i /\ k[Len(k)] = e
    BY <1>2, <1>3, <2>1, <2>3, <2>4
  <2>6. \A j \in 1 .. i - 1 : k[j] = h[j]
    BY <1>2, <1>3, <2>1, <2>3
  <2>7. e.ok => Forward(k)
    BY <1>3, <2>3, <2>4, <2>5, <2>6 DEF Forward
  <2> QED
    BY <1>3, <2>5, <2>7 DEF UpToStage
<1> QED
  BY <1>4, <1>5

LEMMA StageSequencesForward ==
  ASSUME NEW d, RKTyped(d), RKConstructs(d), RKStable(d), NEW o \in J2History, NEW eps \in Int,
         RKYield(d, eps, o.ep, o.kappa) > 0, NEW k \in StageSequences(d, o, eps)
  PROVE  UpToStage(Len(ButcherTableau[d.tableau].b), k)
<1> DEFINE n == Len(ButcherTableau[d.tableau].b)
           step(i, K) == UNION {IF h # <<>> /\ ~Last(h).ok THEN {h}
                    ELSE {Append(h, e) : e \in NextStages(d, o, eps, i, h)} : h \in K}
           upto[i \in {0} \cup Stages(d.tableau)] == IF i = 0 THEN {<<>>} ELSE step(i, upto[i - 1])
           Good(i) == {h \in Seq(Stage) : UpToStage(i, h)}
           S == SUBSET Seq(Stage)
           G == [p \in (1 .. n) \X S |-> step(p[1], p[2]) \cap Seq(Stage)]
<1>1. n \in Nat \ {0} /\ Stages(d.tableau) = 1 .. n /\ {0} \cup Stages(d.tableau) = 0 .. n
  <2>1. d.tableau \in Scheme
    BY DEF RKConstructs
  <2>2. n \in Nat \ {0} /\ Stages(d.tableau) = 1 .. n
    BY <2>1, Coefficients
  <2> QED
    BY <2>2
<1>2. \A i, K : step(i, K) = StagesAfter(d, o, eps, i, K)
  BY DEF StagesAfter
<1> HIDE DEF n, step
<1>3. G \in [(1 .. n) \X S -> S] /\ {<<>>} \in S
  OBVIOUS
<1>4. PICK f \in [0 .. n -> S] : Recursive(f, n, {<<>>}, G)
  <2> HIDE DEF upto, G, S
  <2> QED
    BY <1>1, <1>3, RecursiveFunction
<1>5. \A j \in 0 .. n : j \in {i \in 0 .. n : (\A h \in f[i] : UpToStage(i, h)) /\ (i > 0 => f[i] = step(i, f[i - 1]))}
  <2> DEFINE T == {i \in 0 .. n : (\A h \in f[i] : UpToStage(i, h)) /\ (i > 0 => f[i] = step(i, f[i - 1]))}
  <2>1. 0 \in T
    <3>1. f[0] = {<<>>}
      BY <1>4 DEF Recursive
    <3>2. UpToStage(0, <<>>)
      BY DEF UpToStage, Forward
    <3> QED
      BY <1>1, <3>1, <3>2
  <2>2. ASSUME NEW i \in 0 .. n - 1, i \in T PROVE i + 1 \in T
    <3>1. i + 1 \in 1 .. n /\ i \in 0 .. n /\ (i + 1) - 1 = i /\ i + 1 \in Stages(d.tableau) /\ i + 1 \in 0 .. n
      BY <1>1
    <3>2. \A h \in f[i] : UpToStage((i + 1) - 1, h)
      BY <2>2, <3>1
    <3>3. ASSUME NEW h \in step(i + 1, f[i]) PROVE UpToStage(i + 1, h)
      <4>1. h \in StagesAfter(d, o, eps, i + 1, f[i])
        BY <1>2
      <4> QED
        BY <3>1, <3>2, <4>1, StageAdded
    <3>4. step(i + 1, f[i]) \subseteq Seq(Stage)
      BY <3>3 DEF UpToStage
    <3>5. f[i] \in S /\ <<i + 1, f[i]>> \in (1 .. n) \X S
      BY <1>4, <3>1
    <3>6. f[i + 1] = G[<<i + 1, f[i]>>]
      BY <1>4, <3>1 DEF Recursive
    <3>7. f[i + 1] = step(i + 1, f[i])
      BY <3>4, <3>5, <3>6
    <3> QED
      BY <3>1, <3>3, <3>7
  <2> HIDE DEF T
  <2>3. \A i \in 0 .. n : i \in T
    BY <1>1, <2>1, <2>2, UpTo
  <2> QED
    BY <2>3 DEF T
<1>6. f = [i \in {0} \cup Stages(d.tableau) |-> IF i = 0 THEN {<<>>} ELSE step(i, f[i - 1])]
  <2>1. ASSUME NEW i \in 0 .. n PROVE f[i] = IF i = 0 THEN {<<>>} ELSE step(i, f[i - 1])
    BY <1>4, <1>5 DEF Recursive
  <2> QED
    BY <1>1, <2>1
<1>7. upto = [i \in {0} \cup Stages(d.tableau) |-> IF i = 0 THEN {<<>>} ELSE step(i, upto[i - 1])]
  BY <1>6
<1>8. StageSequences(d, o, eps) = upto[n]
  BY DEF StageSequences, n, step
<1> HIDE DEF upto
<1>9. \A j \in 0 .. n : j \in {i \in 0 .. n : upto[i] = f[i]}
  <2> DEFINE T == {i \in 0 .. n : upto[i] = f[i]}
  <2>1. 0 \in T
    BY <1>1, <1>6, <1>7
  <2>2. ASSUME NEW i \in 0 .. n - 1, i \in T PROVE i + 1 \in T
    <3>1. i + 1 \in {0} \cup Stages(d.tableau) /\ i + 1 # 0 /\ (i + 1) - 1 = i /\ i + 1 \in 0 .. n
      BY <1>1
    <3>2. upto[i + 1] = step(i + 1, upto[i]) /\ f[i + 1] = step(i + 1, f[i])
      BY <1>6, <1>7, <3>1
    <3> QED
      BY <2>2, <3>1, <3>2
  <2> HIDE DEF T
  <2>3. \A i \in 0 .. n : i \in T
    BY <1>1, <2>1, <2>2, UpTo
  <2> QED
    BY <2>3 DEF T
<1>10. n \in 0 .. n
  BY <1>1
<1>11. \A h \in upto[n] : UpToStage(n, h)
  BY <1>5, <1>9, <1>10
<1> QED
  BY <1>8, <1>11 DEF n

LEMMA RKReturnSolves ==
  ASSUME NEW d, RKTyped(d), RKConstructs(d), RKStable(d), NEW o \in J2History, NEW eps \in Int,
         RKYield(d, eps, o.ep, o.kappa) > 0, NEW g, GraphOf(g, {"ep", "kappa"}),
         NEW k, UpToStage(Len(ButcherTableau[d.tableau].b), k)
  PROVE  LET out == RKReturn(d, o, g, eps, k)
         IN  /\ GraphOf(out.graph, {"ep", "kappa"})
             /\ out.end = "returned" =>
                  /\ out.graph.hist \in J2History
                  /\ RKSolves(d, o, eps, out.graph) /\ HardeningIsCurrent(d, out.graph)
<1> DEFINE n == Len(ButcherTableau[d.tableau].b)
           w == ButcherTableau[d.tableau].b
           out == RKReturn(d, o, g, eps, k)
           q == out.graph
           x == [j \in 1 .. Len(k) |-> k[j].dl]
           y == [j \in 1 .. Len(k) |-> k[j].dl * k[j].N]
           ep == o.ep + Weighted(w, y)
           kappa == o.kappa + Weighted(w, x)
           st == d.M * (eps - ep)
<1>1. n \in Nat \ {0} /\ \A j \in 1 .. n : w[j] \in Nat
  <2>1. d.tableau \in Scheme
    BY DEF RKConstructs
  <2> QED
    BY <2>1, Coefficients
<1>2. k \in Seq(Stage) /\ k # <<>> /\ (k[Len(k)].ok => Len(k) = n /\ Forward(k))
  BY <1>1 DEF UpToStage
<1>3. Last(k) = k[Len(k)]
  BY DEF Last
<1>4. CASE ~Last(k).ok
  <2>1. PICK kappa0 : out = Cutback(d, g, kappa0)
    BY <1>4 DEF RKReturn
  <2>2. Cutback(d, g, kappa0).end = "cutback" /\ GraphOf(Cutback(d, g, kappa0).graph, {"ep", "kappa"})
    BY CutbackGraph
  <2> HIDE DEF out
  <2>3. out.end # "returned" /\ GraphOf(out.graph, {"ep", "kappa"})
    BY <2>1, <2>2
  <2> QED
    BY <2>3 DEF out
<1>5. CASE Last(k).ok
  <2>1. Len(k) = n /\ Forward(k)
    BY <1>2, <1>3, <1>5
  <2>2. out = Returned(d, g, ep, kappa, st)
    BY <1>5 DEF RKReturn, LastSum
  <2>3. ReturnsWith(Returned(d, g, ep, kappa, st), d, g, {"ep", "kappa"}, ep, kappa, st)
    BY ReturnedGraph
  <2>4. \A j \in 1 .. n : k[j].dl \in Int /\ k[j].dl >= 0 /\ k[j].N \in {-1, 0, 1}
    <3>1. \A j \in 1 .. Len(k) : k[j] \in Stage
      BY <1>2
    <3> QED
      BY <2>1, <3>1 DEF Stage, Forward
  <2>5. \A a \in Int : a * 1 = a /\ a * 0 = 0 /\ a * (-1) = -a
    OBVIOUS
  <2>6. \A j \in 1 .. n : k[j].dl * k[j].N \in {-k[j].dl, 0, k[j].dl}
    BY <2>4, <2>5
  <2>7. x \in [1 .. n -> Int] /\ y \in [1 .. n -> Int] /\ \A j \in 1 .. n : x[j] >= 0 /\ y[j] \in {-x[j], 0, x[j]}
    BY <2>1, <2>4, <2>6
  <2> HIDE DEF x, y, out, w
  <2>8. /\ Weighted(w, x) \in Int /\ Weighted(w, y) \in Int
        /\ -Weighted(w, x) <= Weighted(w, y) /\ Weighted(w, y) <= Weighted(w, x)
    <3> HIDE DEF n
    <3> QED
      BY <1>1, <2>7, WeightedBound
  <2>9. o.ep \in Int /\ o.kappa \in Int
    BY DEF J2History
  <2>10. /\ ep \in Int /\ kappa \in Int /\ Abs(ep - o.ep) <= kappa - o.kappa
    BY <2>8, <2>9 DEF Abs
  <2>11. ~(Abs(d.M * (eps - o.ep)) <= YieldStress(d, o.kappa))
    <3>a. d.M \in Int /\ YieldStress(d, o.kappa) \in Int
      BY <2>9, HardeningTyped DEF RKTyped, J2Typed
    <3>1. d.M * (eps - o.ep) \in Int /\ YieldStress(d, o.kappa) \in Int
      BY <2>9, <3>a
    <3> DEFINE t == d.M * (eps - o.ep)
    <3>2. Abs(t) - YieldStress(d, o.kappa) > 0
      BY DEF RKYield
    <3> HIDE DEF t
    <3> QED
      BY <3>1, <3>2 DEF t, Abs
  <2> HIDE DEF ep, kappa
  <2>12. ReturnsWith(out, d, g, {"ep", "kappa"}, ep, kappa, st)
    BY <2>2, <2>3
  <2>13. q.hist = [ep |-> ep, kappa |-> kappa]
    BY <2>12, WrittenHistory
  <2>14. q.hist.ep = ep /\ q.hist.kappa = kappa /\ q.hist \in J2History
    BY <2>10, <2>13 DEF J2History
  <2>15. q.stress = st /\ GraphOf(q, {"ep", "kappa"}) /\ HardeningIsCurrent(d, q)
    BY <2>12 DEF ReturnsWith
  <2>16. RKSolves(d, o, eps, q)
    BY <2>10, <2>11, <2>14, <2>15 DEF RKSolves
  <2> QED
    BY <2>14, <2>15, <2>16 DEF out
<1> QED
  BY <1>4, <1>5

LEMMA RKOutcome ==
  ASSUME NEW d, RKTyped(d), RKConstructs(d), RKStable(d), NEW o \in J2History, NEW eps \in Int,
         NEW g, GraphOf(g, {"ep", "kappa"}), NEW out \in RKCompute(d, o, g, eps)
  PROVE  /\ GraphOf(out.graph, {"ep", "kappa"})
         /\ out.end = "returned" =>
              /\ out.graph.hist \in J2History
              /\ RKSolves(d, o, eps, out.graph) /\ HardeningIsCurrent(d, out.graph)
<1> DEFINE s == d.M * (eps - o.ep)
<1>1. o.ep \in Int /\ o.kappa \in Int /\ RKYield(d, eps, o.ep, o.kappa) \in Int
  <2>1. o.ep \in Int /\ o.kappa \in Int
    BY DEF J2History
  <2>2. s \in Int /\ YieldStress(d, o.kappa) \in Int
    BY <2>1, HardeningTyped DEF RKTyped, J2Typed
  <2> HIDE DEF s
  <2>3. Abs(s) - YieldStress(d, o.kappa) \in Int
    BY <2>2 DEF Abs
  <2> QED
    BY <2>1, <2>3 DEF RKYield, s
<1>2. CASE RKYield(d, eps, o.ep, o.kappa) <= 0
  <2>1. out = Elastic(d, o, g, s)
    BY <1>2 DEF RKCompute
  <2>2. /\ ReturnsWith(out, d, g, {"ep", "kappa"}, o.ep, o.kappa, s)
        /\ out.graph.hist = o
    BY <2>1, ElasticGraph DEF J2History
  <2>3. RKSolves(d, o, eps, out.graph)
    <3>1. Abs(o.ep - o.ep) <= o.kappa - o.kappa
      BY <1>1 DEF Abs
    <3> QED
      BY <2>2, <3>1 DEF RKSolves, ReturnsWith
  <2> QED
    BY <2>2, <2>3 DEF ReturnsWith
<1>3. CASE ~(RKYield(d, eps, o.ep, o.kappa) <= 0)
  <2>1. PICK k \in StageSequences(d, o, eps) : out = RKReturn(d, o, g, eps, k)
    BY <1>3 DEF RKCompute
  <2>2. RKYield(d, eps, o.ep, o.kappa) > 0
    BY <1>1, <1>3
  <2>3. UpToStage(Len(ButcherTableau[d.tableau].b), k)
    BY <2>2, StageSequencesForward
  <2> QED
    BY <2>1, <2>2, <2>3, RKReturnSolves
<1> QED
  BY <1>2, <1>3

-----------------------------------------------------------------------------
(***************************************************************************)
(* rk_integrator.                                                          *)
(***************************************************************************)
IntegratorTyped(d) ==
  /\ d.h \in Int /\ d.k1 \in Int /\ d.k2 \in Int /\ d.whole \in Nat \ {0}
  /\ d.tableau \in Scheme

\* Rates that are not negative, and a step that goes forward.
IntegratorStable(d) == d.h >= 0 /\ d.k1 >= 0 /\ d.k2 >= 0

LEMMA Quotient ==
  ASSUME NEW a \in Int, NEW b \in Nat \ {0}
  PROVE  a \div b \in Int /\ (a >= 0 => a \div b >= 0) /\ b * (a \div b) <= a /\ a < b * (a \div b) + b
OBVIOUS

LEMMA RateTyped ==
  ASSUME NEW d, IntegratorTyped(d), NEW y \in Int
  PROVE  Rate(d, y) \in Int /\ (IntegratorStable(d) => Rate(d, y) >= 0)
<1> DEFINE W == Whole(d)
           I == Inside(d, y)
           a == d.k1 * W + d.k2 * I
           b == W - I
           c == Unit * W
<1>1. W \in Nat \ {0}
  BY DEF Whole, Unit, IntegratorTyped
<1>2. I \in Int /\ 0 <= I /\ I <= W
  BY <1>1 DEF Inside, AtMost, AtLeast, Whole
<1> HIDE DEF W, I
<1>3. c \in Nat \ {0} /\ b \in Nat
  BY <1>1, <1>2 DEF Unit
<1>4. a \in Int /\ (IntegratorStable(d) => a >= 0)
  <2>1. d.k1 * W \in Int /\ d.k2 * I \in Int
    BY <1>1, <1>2, Products DEF IntegratorTyped
  <2>2. \A u, v \in Nat : u * v \in Nat
    OBVIOUS
  <2>3. IntegratorStable(d) => d.k1 * W \in Nat /\ d.k2 * I \in Nat
    BY <1>1, <1>2, <2>2 DEF IntegratorTyped, IntegratorStable
  <2> QED
    BY <2>1, <2>3
<1> HIDE DEF a, b, c
<1>5. a * b \in Int /\ (IntegratorStable(d) => a * b >= 0)
  BY <1>3, <1>4
<1>6. (a * b) \div c \in Int /\ (IntegratorStable(d) => (a * b) \div c >= 0)
  <2> DEFINE ab == a * b
  <2> HIDE DEF ab
  <2>1. ab \in Int /\ (IntegratorStable(d) => ab >= 0)
    BY <1>5 DEF ab
  <2>2. ab \div c \in Int /\ (IntegratorStable(d) => ab \div c >= 0)
    BY <1>3, <2>1, Quotient
  <2> QED
    BY <2>2 DEF ab
<1> QED
  BY <1>6 DEF Rate, a, b, c, W, I

\* The slopes of the stages 1 to i.
Slopes(d, y, i, k) ==
  /\ k \in [at : Seq(Int), converged : BOOLEAN] /\ Len(k.at) = i
  /\ k.converged =>
       /\ IntegratorStable(d) => \A j \in 1 .. i : k.at[j] >= 0
       /\ i = 1 => k.at[1] = Rate(d, y + d.h * A(d.tableau, 1, 1) * k.at[1])

LEMMA SlopeAdded ==
  ASSUME NEW d, IntegratorTyped(d), NEW y \in Int, NEW i \in Stages(d.tableau),
         NEW k, Slopes(d, y, i - 1, k), NEW l \in RateStages(d, y, i, k)
  PROVE  Slopes(d, y, i, l)
<1> DEFINE t == d.tableau
           n == Len(ButcherTableau[t].b)
           row == ButcherTableau[t].a[i]
           from == y + d.h * RowSum(t, i, k.at)
           a == A(t, i, i)
           R == RateResidual(d, from, a)
           J == RateJacobian(d, from, a)
<1>1. i \in 1 .. n /\ n \in Nat /\ a \in Nat /\ \A j \in 1 .. n : row[j] \in Int
  BY Coefficients DEF IntegratorTyped
<1>2. k.at \in Seq(Int) /\ Len(k.at) = i - 1 /\ k.converged \in BOOLEAN /\ DOMAIN k = {"at", "converged"}
  BY DEF Slopes
<1>3. from \in Int /\ (i = 1 => from = y)
  <2>1. k.at \in [1 .. i - 1 -> Int] /\ i - 1 \in Nat /\ \A j \in 1 .. i - 1 : row[j] \in Int
    BY <1>1, <1>2
  <2> HIDE DEF row
  <2>2. Weighted(row, k.at) \in Int /\ (i - 1 = 0 => Weighted(row, k.at) = 0)
    BY <2>1, WeightedTyped
  <2>3. from = y + d.h * Weighted(row, k.at)
    BY DEF RowSum, row
  <2> QED
    BY <1>1, <2>2, <2>3 DEF IntegratorTyped
<1> HIDE DEF from, R, J
<1> DEFINE Joined(r, c) == /\ l = [at |-> Append(k.at, r), converged |-> c] /\ r \in Int
                           /\ c => k.converged /\ r = Rate(d, from + d.h * a * r)
<1>j. \E r : \E c \in BOOLEAN : Joined(r, c)
  <2>1. CASE a = 0
    <3>1. l = [k EXCEPT !.at = Append(@, Rate(d, from))]
      BY <2>1 DEF RateStages, from
    <3>2. l = [at |-> Append(k.at, Rate(d, from)), converged |-> k.converged]
      BY <1>2, <3>1 DEF Slopes
    <3>3. Rate(d, from) \in Int
      BY <1>3, RateTyped
    <3>4. from + d.h * a * Rate(d, from) = from
      <4>1. d.h * 0 = 0 /\ 0 * Rate(d, from) = 0
        BY <3>3 DEF IntegratorTyped
      <4> QED
        BY <1>3, <2>1, <4>1
    <3>5. Joined(Rate(d, from), k.converged)
      BY <3>2, <3>3, <3>4
    <3> HIDE DEF Joined
    <3> QED
      BY <1>2, <3>5
  <2>2. CASE a # 0
    <3>1. \/ \E r \in StageRoots(R, J) : l = [k EXCEPT !.at = Append(@, r)]
          \/ \E r \in Evaluated(R, J, 0)[MaxIter + 1] \cup StageDiverged(R, J, MaxIter) :
               l = [at |-> Append(k.at, r), converged |-> FALSE]
      BY <2>2 DEF RateStages, from, R, J
    <3>2. MaxIter \in Nat \ {0} /\ Grid \subseteq Int /\ 0 \in Grid
      BY NewtonAssumption
    <3>3. CASE \E r \in StageRoots(R, J) : l = [k EXCEPT !.at = Append(@, r)]
      <4>1. PICK r \in StageRoots(R, J) : l = [k EXCEPT !.at = Append(@, r)]
        BY <3>3
      <4>2. PICK m \in 1 .. MaxIter : r \in Evaluated(R, J, 0)[m]
        BY DEF StageRoots
      <4>3. R[r] = 0
        BY DEF StageRoots
      <4>4. r \in Grid
        <5>1. m \in 1 .. MaxIter + 1
          BY <3>2
        <5>2. Evaluated(R, J, 0)[m] \subseteq Grid \cup {0}
          BY <5>1, EvaluatedIn
        <5> QED
          BY <3>2, <4>2, <5>2
      <4>5. r \in Int /\ d.h * a * r \in Int /\ from + d.h * a * r \in Int
        <5>1. r \in Int /\ d.h * a \in Int
          BY <1>1, <3>2, <4>4, Products DEF IntegratorTyped
        <5> QED
          BY <1>3, <5>1, Products
      <4>6. r = Rate(d, from + d.h * a * r)
        <5>1. Rate(d, from + d.h * a * r) \in Int
          BY <4>5, RateTyped
        <5>2. Unit * (r - Rate(d, from + d.h * a * r)) = 0
          BY <4>3, <4>4 DEF R, RateResidual
        <5> QED
          BY <4>5, <5>1, <5>2 DEF Unit
      <4>7. l = [at |-> Append(k.at, r), converged |-> k.converged]
        BY <1>2, <4>1 DEF Slopes
      <4>8. Joined(r, k.converged)
        BY <4>5, <4>6, <4>7
      <4> HIDE DEF Joined
      <4> QED
        BY <1>2, <4>8
    <3>4. CASE \E r \in Evaluated(R, J, 0)[MaxIter + 1] \cup StageDiverged(R, J, MaxIter) :
                 l = [at |-> Append(k.at, r), converged |-> FALSE]
      <4>1. PICK r \in Evaluated(R, J, 0)[MaxIter + 1] \cup StageDiverged(R, J, MaxIter) :
                   l = [at |-> Append(k.at, r), converged |-> FALSE]
        BY <3>4
      <4>d. StageDiverged(R, J, MaxIter) \subseteq Int
        BY <3>2 DEF StageDiverged
      <4>2. MaxIter + 1 \in 1 .. MaxIter + 1
        BY <3>2
      <4>3. Evaluated(R, J, 0)[MaxIter + 1] \subseteq Grid \cup {0}
        BY <4>2, EvaluatedIn
      <4>4. r \in Int
        BY <3>2, <4>1, <4>3, <4>d
      <4>5. Joined(r, FALSE)
        BY <4>1, <4>4
      <4> HIDE DEF Joined
      <4> QED
        BY <4>5
    <3> QED
      BY <3>1, <3>3, <3>4
  <2> HIDE DEF Joined
  <2> QED
    BY <2>1, <2>2
<1> HIDE DEF a
<1>k. PICK r : \E c \in BOOLEAN : Joined(r, c)
  BY <1>j
<1>4. PICK c \in BOOLEAN : Joined(r, c)
  BY <1>k
<1>5. Append(k.at, r) \in Seq(Int) /\ Len(Append(k.at, r)) = i /\ Append(k.at, r)[i] = r
      /\ \A j \in 1 .. i - 1 : Append(k.at, r)[j] = k.at[j]
  BY <1>1, <1>2, <1>4
<1>6. ASSUME c PROVE IntegratorStable(d) => \A j \in 1 .. i : l.at[j] >= 0
  <2>1. SUFFICES ASSUME IntegratorStable(d), NEW j \in 1 .. i PROVE l.at[j] >= 0
    OBVIOUS
  <2>2. CASE j = i
    <3>1. l.at[j] = Rate(d, from + d.h * a * r) /\ from + d.h * a * r \in Int
      <4>1. d.h * a \in Int
        BY <1>1, Products DEF IntegratorTyped, a
      <4>2. d.h * a * r \in Int
        BY <1>4, <4>1, Products
      <4> QED
        BY <1>3, <1>4, <1>5, <1>6, <2>2, <4>2
    <3> QED
      BY <2>1, <3>1, RateTyped
  <2>3. CASE j # i
    <3>1. j \in 1 .. i - 1
      BY <1>1, <2>3
    <3>2. k.at[j] >= 0
      BY <1>4, <1>6, <2>1, <3>1 DEF Slopes
    <3> QED
      BY <1>4, <1>5, <3>1, <3>2
  <2> QED
    BY <2>2, <2>3
<1>7. ASSUME c, i = 1 PROVE l.at[1] = Rate(d, y + d.h * A(d.tableau, 1, 1) * l.at[1])
  BY <1>3, <1>4, <1>5, <1>7 DEF a
<1> QED
  BY <1>4, <1>5, <1>6, <1>7 DEF Slopes

LEMMA DirkSlopes ==
  ASSUME NEW d, IntegratorTyped(d), NEW y \in Int, NEW k \in DirkStages(d, y)
  PROVE  Slopes(d, y, Len(ButcherTableau[d.tableau].b), k)
<1> DEFINE n == Len(ButcherTableau[d.tableau].b)
           none == [at |-> <<>>, converged |-> TRUE]
           step(i, K) == UNION {RateStages(d, y, i, h) : h \in K}
           upto[i \in {0} \cup Stages(d.tableau)] == IF i = 0 THEN {none} ELSE step(i, upto[i - 1])
           All == [at : Seq(Int), converged : BOOLEAN]
           S == SUBSET All
           G == [p \in (1 .. n) \X S |-> step(p[1], p[2]) \cap All]
<1>1. n \in Nat \ {0} /\ Stages(d.tableau) = 1 .. n /\ {0} \cup Stages(d.tableau) = 0 .. n
  <2>1. d.tableau \in Scheme
    BY DEF IntegratorTyped
  <2>2. n \in Nat \ {0} /\ Stages(d.tableau) = 1 .. n
    BY <2>1, Coefficients
  <2> QED
    BY <2>2
<1>2. none \in All /\ none.at = <<>> /\ none.converged = TRUE
  OBVIOUS
<1> HIDE DEF n, step, none, All
<1>3. G \in [(1 .. n) \X S -> S] /\ {none} \in S
  BY <1>2
<1>4. PICK f \in [0 .. n -> S] : Recursive(f, n, {none}, G)
  <2> HIDE DEF upto, G, S
  <2> QED
    BY <1>1, <1>3, RecursiveFunction
<1>5. \A j \in 0 .. n : j \in {i \in 0 .. n : (\A h \in f[i] : Slopes(d, y, i, h)) /\ (i > 0 => f[i] = step(i, f[i - 1]))}
  <2> DEFINE T == {i \in 0 .. n : (\A h \in f[i] : Slopes(d, y, i, h)) /\ (i > 0 => f[i] = step(i, f[i - 1]))}
  <2>1. 0 \in T
    <3>1. f[0] = {none}
      BY <1>4 DEF Recursive
    <3>2. Slopes(d, y, 0, none)
      BY <1>2 DEF Slopes, All
    <3> QED
      BY <1>1, <3>1, <3>2
  <2>2. ASSUME NEW i \in 0 .. n - 1, i \in T PROVE i + 1 \in T
    <3>1. i + 1 \in 1 .. n /\ i \in 0 .. n /\ (i + 1) - 1 = i /\ i + 1 \in Stages(d.tableau) /\ i + 1 \in 0 .. n
      BY <1>1
    <3>2. \A h \in f[i] : Slopes(d, y, (i + 1) - 1, h)
      BY <2>2, <3>1
    <3>3. ASSUME NEW l \in step(i + 1, f[i]) PROVE Slopes(d, y, i + 1, l)
      <4>1. PICK h \in f[i] : l \in RateStages(d, y, i + 1, h)
        BY DEF step
      <4> QED
        BY <3>1, <3>2, <4>1, SlopeAdded
    <3>4. step(i + 1, f[i]) \subseteq All
      BY <3>3 DEF Slopes, All
    <3>5. f[i] \in S /\ <<i + 1, f[i]>> \in (1 .. n) \X S
      BY <1>4, <3>1
    <3>6. f[i + 1] = G[<<i + 1, f[i]>>]
      BY <1>4, <3>1 DEF Recursive
    <3>7. f[i + 1] = step(i + 1, f[i])
      BY <3>4, <3>5, <3>6
    <3> QED
      BY <3>1, <3>3, <3>7
  <2> HIDE DEF T
  <2>3. \A i \in 0 .. n : i \in T
    BY <1>1, <2>1, <2>2, UpTo
  <2> QED
    BY <2>3 DEF T
<1>6. f = [i \in {0} \cup Stages(d.tableau) |-> IF i = 0 THEN {none} ELSE step(i, f[i - 1])]
  <2>1. ASSUME NEW i \in 0 .. n PROVE f[i] = IF i = 0 THEN {none} ELSE step(i, f[i - 1])
    BY <1>4, <1>5 DEF Recursive
  <2> QED
    BY <1>1, <2>1
<1>7. upto = [i \in {0} \cup Stages(d.tableau) |-> IF i = 0 THEN {none} ELSE step(i, upto[i - 1])]
  BY <1>6
<1>8. DirkStages(d, y) = upto[n]
  BY DEF DirkStages, n, step, none
<1> HIDE DEF upto
<1>9. \A j \in 0 .. n : j \in {i \in 0 .. n : upto[i] = f[i]}
  <2> DEFINE T == {i \in 0 .. n : upto[i] = f[i]}
  <2>1. 0 \in T
    BY <1>1, <1>6, <1>7
  <2>2. ASSUME NEW i \in 0 .. n - 1, i \in T PROVE i + 1 \in T
    <3>1. i + 1 \in {0} \cup Stages(d.tableau) /\ i + 1 # 0 /\ (i + 1) - 1 = i /\ i + 1 \in 0 .. n
      BY <1>1
    <3>2. upto[i + 1] = step(i + 1, upto[i]) /\ f[i + 1] = step(i + 1, f[i])
      BY <1>6, <1>7, <3>1
    <3> QED
      BY <2>2, <3>1, <3>2
  <2> HIDE DEF T
  <2>3. \A i \in 0 .. n : i \in T
    BY <1>1, <2>1, <2>2, UpTo
  <2> QED
    BY <2>3 DEF T
<1>10. n \in 0 .. n
  BY <1>1
<1>11. \A h \in upto[n] : Slopes(d, y, n, h)
  BY <1>5, <1>9, <1>10
<1> QED
  BY <1>8, <1>11 DEF n

LEMMA IteratesIn ==
  ASSUME NEW R, NEW J, NEW n \in 1 .. MaxIter + 1
  PROVE  IteratesOf(R, J)[n] \subseteq Iterate
<1> DEFINE S == SUBSET Iterate
           next(X) == UNION {StepFrom(x, R[x], J[x]) : x \in {x \in X : R[x] # Seed}}
           at[m \in 1 .. MaxIter + 1] == IF m = 1 THEN {Seed} ELSE next(at[m - 1])
           G == [p \in (1 .. MaxIter) \X S |-> next(p[2])]
<1>1. MaxIter \in Nat \ {0} /\ Seed \in Iterate
  BY NewtonAssumption DEF Seed, Iterate
<1>2. \A X : next(X) \in S
  BY DEF StepFrom, Iterate
<1> HIDE DEF next, S
<1>3. {Seed} \in S /\ G \in [(1 .. MaxIter) \X S -> S]
  BY <1>1, <1>2 DEF S
<1>4. PICK f \in [0 .. MaxIter -> S] : Recursive(f, MaxIter, {Seed}, G)
  <2> HIDE DEF G, at
  <2>1. MaxIter \in Nat
    BY <1>1
  <2> QED
    BY <2>1, <1>3, RecursiveFunction
<1>5. ASSUME NEW i \in 1 .. MaxIter PROVE f[i] = next(f[i - 1])
  <2>1. i - 1 \in 0 .. MaxIter
    BY <1>1
  <2>2. <<i, f[i - 1]>> \in (1 .. MaxIter) \X S
    BY <1>4, <2>1
  <2>3. G[<<i, f[i - 1]>>] = next(<<i, f[i - 1]>>[2])
    BY <2>2
  <2> QED
    BY <1>4, <2>3 DEF Recursive
<1> DEFINE g == [m \in 1 .. MaxIter + 1 |-> f[m - 1]]
<1>6. g = [m \in 1 .. MaxIter + 1 |-> IF m = 1 THEN {Seed} ELSE next(g[m - 1])]
  <2>1. ASSUME NEW m \in 1 .. MaxIter + 1 PROVE g[m] = IF m = 1 THEN {Seed} ELSE next(g[m - 1])
    <3>1. CASE m = 1
      BY <1>4, <3>1 DEF Recursive
    <3>2. CASE m # 1
      <4>1. m - 1 \in 1 .. MaxIter /\ g[m - 1] = f[m - 2] /\ (m - 1) - 1 = m - 2
        BY <1>1, <3>2
      <4> QED
        BY <1>5, <3>2, <4>1
    <3> QED
      BY <3>1, <3>2
  <2> QED
    BY <2>1
<1> HIDE DEF g
<1>7. at = [m \in 1 .. MaxIter + 1 |-> IF m = 1 THEN {Seed} ELSE next(at[m - 1])]
  BY <1>6
<1>8. IteratesOf(R, J) = at
  BY DEF IteratesOf, at, next
<1> HIDE DEF at
<1>9. at[n] \in S
  <2>1. CASE n = 1
    BY <1>1, <1>3, <1>7, <2>1
  <2>2. CASE n # 1
    BY <1>2, <1>7, <2>2
  <2> QED
    BY <2>1, <2>2
<1> QED
  BY <1>8, <1>9 DEF S

LEMMA TwoStages ==
  ASSUME NEW t \in Scheme, ~IsDirk(t)
  PROVE  Len(ButcherTableau[t].b) = 2
<1>1. Scheme = {"forward_euler", "explicit_midpoint", "rk4", "implicit_euler", "implicit_midpoint",
                "crank_nicolson", "sdirk3", "gauss_legendre_4"}
  BY DEF Scheme, ButcherTableau
<1>2. CASE t \in {"forward_euler", "implicit_euler", "implicit_midpoint"}
  <2>1. DOMAIN ButcherTableau[t].b = {1}
    BY <1>2 DEF ButcherTableau
  <2> QED
    BY <2>1 DEF IsDirk, Stages
<1>3. CASE t = "rk4"
  <2> DEFINE a == <<<<0, 0, 0, 0>>, <<12, 0, 0, 0>>, <<0, 12, 0, 0>>, <<0, 0, 24, 0>>>>
  <2>1. ButcherTableau[t].a = a /\ DOMAIN ButcherTableau[t].b = 1 .. 4
    BY <1>3 DEF ButcherTableau
  <2>2. \A i, j \in 1 .. 4 : i < j => a[i][j] = 0
    OBVIOUS
  <2> HIDE DEF a
  <2> QED
    BY <2>1, <2>2 DEF IsDirk, Stages, A
<1>4. CASE t \in {"explicit_midpoint", "crank_nicolson", "sdirk3", "gauss_legendre_4"}
  BY <1>4 DEF ButcherTableau
<1> QED
  BY <1>1, <1>2, <1>3, <1>4

LEMMA CoupledSlopes ==
  ASSUME NEW d, IntegratorTyped(d), ~IsDirk(d.tableau), NEW y \in Int, NEW k \in CoupledStages(d, y)
  PROVE  /\ k.at \in [1 .. 2 -> Int] /\ k.converged \in BOOLEAN
         /\ IntegratorStable(d) /\ k.converged => \A i \in 1 .. 2 : k.at[i] >= 0
<1> DEFINE at(i, l) == y + d.h * RowSum(d.tableau, i, l)
           df(i, l) == d.h * RateDerivative(d, at(i, l))
           R == [l \in Iterate |-> [i \in 1 .. 2 |-> Unit * (l[i] - Rate(d, at(i, l)))]]
           J == [l \in Iterate |-> [i \in 1 .. 2 |-> [j \in 1 .. 2 |->
                   (IF i = j THEN Unit ELSE 0) - df(i, l) * A(d.tableau, i, j)]]]
           its == IteratesOf(R, J)
           roots == {l \in UNION {its[n] : n \in 1 .. MaxIter} : R[l] = Seed}
<1>1. \/ \E l \in roots : k = [at |-> l, converged |-> TRUE]
      \/ \E l \in its[MaxIter + 1] \cup Iterate : k = [at |-> l, converged |-> FALSE]
  BY DEF CoupledStages
<1>2. MaxIter \in Nat \ {0} /\ Grid \subseteq Int
  BY NewtonAssumption
<1>3. \A n \in 1 .. MaxIter + 1 : its[n] \subseteq Iterate
  <2> HIDE DEF R, J
  <2> QED
    BY IteratesIn
<1>4. ASSUME NEW l \in Iterate PROVE l \in [1 .. 2 -> Int]
  <2> HIDE DEF R, roots
  <2>a. l \in Int \X Int
    BY <1>2 DEF Iterate
  <2>1. PICK a, b \in Int : l = <<a, b>>
    BY <2>a
  <2>2. DOMAIN <<a, b>> = 1 .. 2 /\ <<a, b>>[1] = a /\ <<a, b>>[2] = b /\ <<a, b>> = [i \in 1 .. 2 |-> <<a, b>>[i]]
    OBVIOUS
  <2> QED
    BY <2>1, <2>2
<1> HIDE DEF its, J
<1>5. CASE \E l \in its[MaxIter + 1] \cup Iterate : k = [at |-> l, converged |-> FALSE]
  <2>1. MaxIter + 1 \in 1 .. MaxIter + 1
    BY <1>2
  <2> QED
    BY <1>3, <1>4, <1>5, <2>1
<1>6. CASE \E l \in roots : k = [at |-> l, converged |-> TRUE]
  <2>1. PICK l \in roots : k = [at |-> l, converged |-> TRUE]
    BY <1>6
  <2>2. PICK n \in 1 .. MaxIter : l \in its[n]
    OBVIOUS
  <2>3. l \in Iterate
    <3>1. n \in 1 .. MaxIter + 1
      BY <1>2
    <3> QED
      BY <1>3, <2>2, <3>1
  <2>4. R[l] = Seed
    OBVIOUS
  <2>5. ASSUME NEW i \in 1 .. 2, IntegratorStable(d) PROVE l[i] >= 0
    <3>1. Unit * (l[i] - Rate(d, at(i, l))) = 0
      <4>1. R[l][i] = Seed[i] /\ Seed[i] = 0
        BY <2>4 DEF Seed
      <4> QED
        BY <2>3, <4>1
    <3>2. at(i, l) \in Int
      <4>1. PICK m : m = 2 /\ \A a, b \in 1 .. m : ButcherTableau[d.tableau].a[a][b] \in Int
        BY TwoStages, Coefficients DEF IntegratorTyped
      <4> DEFINE row == ButcherTableau[d.tableau].a[i]
      <4>2. \A j \in 1 .. 2 : row[j] \in Int
        BY <4>1
      <4> HIDE DEF row
      <4>3. l \in [1 .. 2 -> Int]
        BY <1>4, <2>3
      <4>4. Weighted(row, l) \in Int
        BY <4>2, <4>3, WeightedTyped
      <4>5. RowSum(d.tableau, i, l) = Weighted(row, l)
        BY DEF RowSum, row
      <4>6. d.h * Weighted(row, l) \in Int
        BY <4>4, Products DEF IntegratorTyped
      <4> QED
        BY <4>5, <4>6
    <3> HIDE DEF at
    <3>3. Rate(d, at(i, l)) \in Int /\ Rate(d, at(i, l)) >= 0 /\ l[i] \in Int
      BY <1>4, <2>3, <2>5, <3>2, RateTyped
    <3> QED
      BY <3>1, <3>3 DEF Unit
  <2>6. l \in [1 .. 2 -> Int]
    BY <1>4, <2>3
  <2> HIDE DEF R, roots
  <2> QED
    BY <2>1, <2>5, <2>6
<1> QED
  BY <1>1, <1>5, <1>6

\* The state an integrator returns, and what its one stage solves.
LEMMA IntegratorOutcome ==
  ASSUME NEW d, IntegratorTyped(d), NEW o \in Int, NEW g, DOMAIN g = GraphFields,
         NEW out \in IntegratorCompute(d, o, g)
  PROVE  /\ DOMAIN out.graph = GraphFields /\ out.graph.hist \in Int
         /\ IntegratorSolves(d, o, out.graph)
         /\ IntegratorStable(d) /\ out.graph.converged => out.graph.hist >= o
<1> DEFINE t == d.tableau
           n == Len(ButcherTableau[t].b)
           w == ButcherTableau[t].b
           q == out.graph
<1>1. PICK k \in (IF IsDirk(t) THEN DirkStages(d, o) ELSE CoupledStages(d, o)) :
        out = [end |-> "returned",
               graph |-> [g EXCEPT !.hist = o + d.h * LastSum(t, k.at), !.converged = k.converged]]
  BY DEF IntegratorCompute
<1>2. DOMAIN q = GraphFields /\ q.hist = o + d.h * LastSum(t, k.at) /\ q.converged = k.converged
  BY <1>1 DEF GraphFields
<1>3. n \in Nat \ {0} /\ \A j \in 1 .. n : w[j] \in Nat
  BY Coefficients DEF IntegratorTyped
<1>4. /\ k.at \in [1 .. n -> Int]
      /\ IntegratorStable(d) /\ k.converged => \A i \in 1 .. n : k.at[i] >= 0
  <2>1. CASE IsDirk(t)
    <3>1. Slopes(d, o, n, k)
      BY <1>1, <2>1, DirkSlopes
    <3> QED
      BY <3>1 DEF Slopes
  <2>2. CASE ~IsDirk(t)
    <3>1. n = 2
      BY <2>2, TwoStages DEF IntegratorTyped
    <3> QED
      BY <1>1, <2>2, <3>1, CoupledSlopes
  <2> QED
    BY <2>1, <2>2
<1> HIDE DEF q
<1>5. Weighted(w, k.at) \in Int /\ (n = 1 => Weighted(w, k.at) = w[1] * k.at[1])
  <2> HIDE DEF w, n
  <2>1. \A j \in 1 .. n : w[j] \in Int
    BY <1>3
  <2> QED
    BY <1>3, <1>4, <2>1, WeightedTyped
<1>6. LastSum(t, k.at) = Weighted(w, k.at)
  BY DEF LastSum
<1>7. q.hist \in Int
  BY <1>2, <1>5, <1>6, Products DEF IntegratorTyped
<1>8. ASSUME IntegratorStable(d), q.converged PROVE q.hist >= o
  <2> HIDE DEF w, n
  <2>1. \A j \in 1 .. n : w[j] \in Nat /\ k.at[j] >= 0 /\ k.at[j] \in {-k.at[j], 0, k.at[j]}
    BY <1>2, <1>3, <1>4, <1>8
  <2>2. -Weighted(w, k.at) <= Weighted(w, k.at)
    BY <1>3, <1>4, <2>1, WeightedBound
  <2>3. Weighted(w, k.at) \in Nat /\ d.h \in Nat
    BY <1>5, <1>8, <2>2 DEF IntegratorTyped, IntegratorStable
  <2>4. d.h * Weighted(w, k.at) >= 0
    BY <2>3
  <2> QED
    BY <1>2, <1>6, <2>3, <2>4
<1>9. ASSUME q.converged, t \in {"implicit_euler", "implicit_midpoint"}
      PROVE  /\ t = "implicit_euler" => q.hist = o + Unit * d.h * Rate(d, q.hist)
             /\ t = "implicit_midpoint" => q.hist = o + Unit * d.h * Rate(d, (o + q.hist) \div 2)
  <2> DEFINE a == A(t, 1, 1)
             r == k.at[1]
  <2>1. n = 1 /\ IsDirk(t) /\ w[1] = 24 /\ a = IF t = "implicit_euler" THEN 24 ELSE 12
    <3>1. CASE t = "implicit_euler"
      BY <3>1 DEF ButcherTableau, IsDirk, Stages, A
    <3>2. CASE t = "implicit_midpoint"
      BY <3>2 DEF ButcherTableau, IsDirk, Stages, A
    <3> QED
      BY <1>9, <3>1, <3>2
  <2>2. Slopes(d, o, 1, k)
    BY <1>1, <2>1, DirkSlopes
  <2>3. r \in Int /\ r = Rate(d, o + d.h * a * r)
    BY <1>2, <1>4, <1>9, <2>1, <2>2 DEF Slopes
  <2> HIDE DEF a, r, n, w
  <2>4. q.hist = o + d.h * (24 * r)
    BY <1>2, <1>5, <1>6, <2>1 DEF r
  <2>5. d.h \in Int /\ d.h * r \in Int /\ d.h * 24 \in Int /\ d.h * 12 \in Int
    BY <2>3, Products DEF IntegratorTyped
  <2>6. d.h * (24 * r) = 24 * (d.h * r) /\ d.h * 24 * r = 24 * (d.h * r) /\ d.h * 12 * r = 12 * (d.h * r)
    BY <2>3, <2>5
  <2>7. Unit * d.h * r = 24 * (d.h * r)
    BY <2>3, <2>5 DEF Unit
  <2>8. CASE t = "implicit_euler"
    <3>1. r = Rate(d, q.hist)
      BY <2>1, <2>3, <2>4, <2>6, <2>8
    <3> QED
      BY <2>4, <2>6, <2>7, <2>8, <3>1
  <2>9. CASE t = "implicit_midpoint"
    <3>1. (o + q.hist) \div 2 = o + 12 * (d.h * r)
      <4> DEFINE x == d.h * r
      <4>1. x \in Int /\ q.hist = o + 24 * x
        BY <2>4, <2>5, <2>6
      <4> HIDE DEF x
      <4>2. o + q.hist = 2 * (o + 12 * x)
        BY <4>1
      <4>3. (o + q.hist) \div 2 = o + 12 * x
        BY <4>1, <4>2
      <4> QED
        BY <4>3 DEF x
    <3>2. r = Rate(d, (o + q.hist) \div 2)
      BY <2>1, <2>3, <2>6, <2>9, <3>1
    <3> QED
      BY <2>4, <2>6, <2>7, <2>9, <3>2
  <2> QED
    BY <1>9, <2>8, <2>9
<1>10. IntegratorSolves(d, o, q)
  BY <1>9 DEF IntegratorSolves
<1> QED
  BY <1>2, <1>7, <1>8, <1>10 DEF q

-----------------------------------------------------------------------------
(***************************************************************************)
(* autocatalytic_reaction.                                                 *)
(***************************************************************************)
CureTyped(d) == d.m \in {0, 1}

LEMMA CureOutcome ==
  ASSUME NEW d, CureTyped(d), NEW o \in 0 .. One, NEW l \in Int, NEW g, DOMAIN g = GraphFields, g.hist = o,
         NEW out \in CureCompute(d, g, l)
  PROVE  /\ DOMAIN out.graph = GraphFields /\ out.graph.hist \in 0 .. One
         /\ CureSolves(d, o, l, out.graph)
<1> DEFINE q == out.graph
           R == CureResidual(d, o, l)
<1>1. PICK i \in Increments(d, o, l) :
        out = [end |-> "returned", graph |-> [g EXCEPT !.hist = Cured(g.hist, i.delta), !.converged = i.converged]]
  BY DEF CureCompute
<1>2. PICK r \in Solve(R, CureJacobian(d, o, l), 0) : i = [delta |-> Abs(r.x), converged |-> r.converged]
  BY DEF Increments
<1>3. r.x \in Grid /\ (r.converged <=> R[r.x] = 0)
  BY SolveResult
<1> DEFINE x == r.x
           h == Cured(o, Abs(x))
<1>4. DOMAIN q = GraphFields /\ q.hist = h /\ q.converged = r.converged
  BY <1>1, <1>2 DEF GraphFields
<1>5. One \in Nat \ {0} /\ x \in Int /\ Abs(x) \in Nat
  <2>1. One \in Nat \ {0}
    BY LocalSolveAssumption
  <2>2. x \in Int
    BY <1>3, NewtonAssumption
  <2> QED
    BY <2>1, <2>2 DEF Abs
<1>6. h \in 0 .. One /\ o <= h
  BY <1>5 DEF Cured, AtMost
<1>7. ASSUME r.converged, o < One PROVE One * (h - o) = l * CureRate(d, h)
  <2>1. One * Abs(x) - l * CureRate(d, h) = 0
    BY <1>3, <1>5, <1>7 DEF CureResidual, Total, Cured
  <2>2. CureRate(d, h) \in Int /\ l * CureRate(d, h) \in Int /\ One * Abs(x) \in Int
    <3>1. One \in Int /\ h \in Int /\ One - h \in Int
      BY <1>5, <1>6
    <3>2. CureRate(d, h) \in Int
      BY <3>1 DEF CureRate, CureTyped
    <3> QED
      BY <1>5, <3>2
  <2>3. CASE o + Abs(x) <= One
    <3>1. h - o = Abs(x)
      BY <1>5, <2>3 DEF Cured, AtMost
    <3> QED
      BY <2>1, <2>2, <3>1
  <2>4. CASE ~(o + Abs(x) <= One)
    <3>1. h = One
      BY <1>5, <2>4 DEF Cured, AtMost
    <3>2. CureRate(d, h) = 0
      <4>1. One - One = 0 /\ One * 0 = 0
        BY <1>5
      <4> QED
        BY <3>1, <4>1 DEF CureRate
    <3>3. One * Abs(x) = 0
      BY <2>1, <2>2, <3>2
    <3>4. Abs(x) = 0
      BY <1>5, <3>3
    <3> QED
      BY <1>5, <1>7, <2>4, <3>4
  <2> QED
    BY <1>5, <2>3, <2>4
<1> HIDE DEF q, h
<1>8. CureSolves(d, o, l, q)
  BY <1>4, <1>5, <1>6, <1>7 DEF CureSolves
<1> QED
  BY <1>4, <1>6, <1>8 DEF q

-----------------------------------------------------------------------------
(***************************************************************************)
(* isotropic_damage.                                                       *)
(***************************************************************************)
DamageTyped(d) ==
  /\ d.critical \in Int /\ d.kappa0 \in Int /\ d.kappaf \in Int /\ d.dmax \in Int /\ d.M \in Int
  /\ d.law \in {"linear", "peerlings"} /\ Full \in Int

\* Quotients grow with what is divided, and shrink with what it is divided by.
LEMMA QuotientBound ==
  ASSUME NEW a \in Int, NEW b \in Nat \ {0}, NEW c \in Int, a <= c * b
  PROVE  a \div b <= c
<1> DEFINE x == a \div b
<1>1. x \in Int /\ b * x <= a
  BY Quotient
<1> HIDE DEF x
<1>2. SUFFICES ASSUME x >= c + 1 PROVE FALSE
  BY <1>1 DEF x
<1>3. b * x >= b * (c + 1) /\ b * (c + 1) = c * b + b /\ b * x \in Int
  BY <1>1, <1>2
<1> QED
  BY <1>1, <1>3

LEMMA QuotientGrows ==
  ASSUME NEW a \in Int, NEW c \in Int, a <= c, NEW b \in Nat \ {0}
  PROVE  a \div b <= c \div b
<1> DEFINE x == c \div b
<1>1. x \in Int /\ c < b * x + b /\ a \div b \in Int /\ b * (a \div b) <= a
  BY Quotient
<1> DEFINE y == a \div b
<1> HIDE DEF x, y
<1>2. SUFFICES ASSUME y >= x + 1 PROVE FALSE
  BY <1>1 DEF x, y
<1>3. b * y >= b * (x + 1) /\ b * (x + 1) = b * x + b /\ b * y \in Int /\ b * x \in Int /\ b * y <= a
  BY <1>1, <1>2 DEF y
<1> QED
  BY <1>1, <1>3

LEMMA QuotientShrinks ==
  ASSUME NEW a \in Nat, NEW b \in Nat \ {0}, NEW c \in Nat \ {0}, b <= c
  PROVE  a \div c <= a \div b
<1> DEFINE x == a \div b
           y == a \div c
<1>1. x \in Int /\ a < b * x + b /\ y \in Int /\ c * y <= a /\ y >= 0
  BY Quotient
<1> HIDE DEF x, y
<1>2. SUFFICES ASSUME y >= x + 1 PROVE FALSE
  BY <1>1 DEF x, y
<1>3. c * y >= b * y /\ b * y >= b * (x + 1) /\ b * (x + 1) = b * x + b /\ b * y \in Int /\ b * x \in Int /\ c * y \in Int
  BY <1>1, <1>2
<1> QED
  BY <1>1, <1>3

LEMMA LawBounds ==
  ASSUME NEW d, DamageTyped(d), DamageConstructs(d), NEW a \in Int, d.kappa0 < a
  PROVE  LawAt(d, a).d \in Int /\ 0 <= LawAt(d, a).d
<1>1. Full \in Nat \ {0} /\ d.kappa0 \in Nat /\ a \in Nat \ {0}
  BY DEF DamageTyped, DamageConstructs
<1>2. CASE d.law = "peerlings"
  <2> DEFINE F == Full * d.kappa0
  <2>1. F \in Nat /\ F <= Full * a
    BY <1>1
  <2> HIDE DEF F
  <2>2. F \div a \in Int /\ F \div a <= Full
    BY <1>1, <2>1, Quotient, QuotientBound
  <2>3. LawAt(d, a).d = Full - F \div a
    BY <1>2 DEF LawAt, F
  <2> QED
    BY <1>1, <2>2, <2>3
<1>3. CASE d.law = "linear" /\ a >= d.kappaf
  <2>1. LawAt(d, a).d = Full
    BY <1>3 DEF LawAt
  <2> QED
    BY <1>1, <2>1
<1>4. CASE d.law = "linear" /\ ~(a >= d.kappaf)
  <2> DEFINE F == Full * (a - d.kappa0)
             b == d.kappaf - d.kappa0
  <2>1. F \in Nat /\ b \in Nat \ {0}
    <3>1. a - d.kappa0 \in Nat
      BY <1>1
    <3>2. b \in Nat \ {0}
      BY <1>1, <1>4 DEF DamageTyped
    <3> QED
      BY <1>1, <3>1, <3>2
  <2> HIDE DEF F, b
  <2>2. F \div b \in Int /\ F \div b >= 0
    BY <2>1, Quotient
  <2>3. LawAt(d, a).d = F \div b
    BY <1>4 DEF LawAt, F, b
  <2> QED
    BY <2>2, <2>3
<1> QED
  BY <1>2, <1>3, <1>4 DEF DamageTyped

LEMMA LawGrows ==
  ASSUME NEW d, DamageTyped(d), DamageConstructs(d), NEW a \in Int, d.kappa0 < a, NEW b \in Int, a <= b
  PROVE  LawAt(d, a).d <= LawAt(d, b).d
<1>1. Full \in Nat \ {0} /\ d.kappa0 \in Nat /\ a \in Nat \ {0} /\ b \in Nat \ {0} /\ d.kappaf \in Int
  BY DEF DamageTyped, DamageConstructs
<1>2. CASE d.law = "peerlings"
  <2> DEFINE F == Full * d.kappa0
  <2>1. F \in Nat
    BY <1>1
  <2> HIDE DEF F
  <2>2. F \div b <= F \div a
    BY <1>1, <2>1, QuotientShrinks
  <2>3. F \div a \in Int /\ F \div b \in Int
    BY <1>1, <2>1, Quotient
  <2>4. LawAt(d, a).d = Full - F \div a /\ LawAt(d, b).d = Full - F \div b
    BY <1>2 DEF LawAt, F
  <2> QED
    BY <1>1, <2>2, <2>3, <2>4
<1>3. CASE d.law = "linear" /\ a >= d.kappaf
  <2>1. LawAt(d, a).d = Full /\ LawAt(d, b).d = Full
    BY <1>1, <1>3 DEF LawAt
  <2> QED
    BY <1>1, <2>1
<1>4. CASE d.law = "linear" /\ ~(a >= d.kappaf)
  <2> DEFINE F(x) == Full * (x - d.kappa0)
             c == d.kappaf - d.kappa0
  <2>1. c \in Nat \ {0}
    BY <1>1, <1>4
  <2>2. F(a) \in Int /\ F(b) \in Int /\ F(a) <= F(b) /\ F(a) <= Full * c
    <3>1. a - d.kappa0 \in Int /\ b - d.kappa0 \in Int /\ a - d.kappa0 <= b - d.kappa0 /\ a - d.kappa0 <= c
      BY <1>1, <1>4
    <3>2. \A x, y \in Int : x <= y => Full * x <= Full * y /\ Full * x \in Int /\ Full * y \in Int
      BY <1>1
    <3> HIDE DEF c
    <3> QED
      BY <2>1, <3>1, <3>2
  <2>3. LawAt(d, a).d = F(a) \div c
    BY <1>4 DEF LawAt
  <2> HIDE DEF F, c
  <2>4. CASE b >= d.kappaf
    <3>1. LawAt(d, b).d = Full
      BY <1>4, <2>4 DEF LawAt
    <3>2. F(a) \div c <= Full
      BY <1>1, <2>1, <2>2, QuotientBound
    <3> QED
      BY <2>3, <3>1, <3>2
  <2>5. CASE ~(b >= d.kappaf)
    <3>1. LawAt(d, b).d = F(b) \div c
      BY <1>4, <2>5 DEF LawAt, F, c
    <3>2. F(a) \div c <= F(b) \div c
      BY <2>1, <2>2, QuotientGrows
    <3> QED
      BY <2>3, <3>1, <3>2
  <2> QED
    BY <2>4, <2>5
<1> QED
  BY <1>2, <1>3, <1>4 DEF DamageTyped

\* Damage stays between none and its cap, and grows with kappa; it has a slope below its
\* cap only.
LEMMA DamageBounds ==
  ASSUME NEW d, DamageTyped(d), DamageConstructs(d), NEW a \in Int
  PROVE  /\ DamageOf(d, a).d \in 0 .. d.dmax
         /\ DamageOf(d, a).dd # 0 => DamageOf(d, a).d < d.dmax
         /\ \A b \in Int : d.kappa0 < a /\ a <= b => DamageOf(d, a).d <= DamageOf(d, b).d
<1>1. d.dmax \in Nat \ {0} /\ d.kappa0 \in Int
  BY DEF DamageTyped, DamageConstructs
<1>2. CASE a <= d.kappa0
  <2>1. DamageOf(d, a).d = 0 /\ DamageOf(d, a).dd = 0
    BY <1>2 DEF DamageOf
  <2>2. ~(d.kappa0 < a)
    BY <1>1, <1>2
  <2> QED
    BY <1>1, <2>1, <2>2
<1>3. CASE ~(a <= d.kappa0)
  <2>1. d.kappa0 < a
    BY <1>1, <1>3
  <2>2. LawAt(d, a).d \in Int /\ 0 <= LawAt(d, a).d
    BY <2>1, LawBounds
  <2>3. \/ LawAt(d, a).d < d.dmax /\ DamageOf(d, a) = LawAt(d, a)
        \/ ~(LawAt(d, a).d < d.dmax) /\ DamageOf(d, a).d = d.dmax /\ DamageOf(d, a).dd = 0
    BY <1>3 DEF DamageOf
  <2>4. DamageOf(d, a).d \in 0 .. d.dmax /\ (DamageOf(d, a).dd # 0 => DamageOf(d, a).d < d.dmax)
    BY <1>1, <2>2, <2>3
  <2>5. ASSUME NEW b \in Int, a <= b PROVE DamageOf(d, a).d <= DamageOf(d, b).d
    <3>1. ~(b <= d.kappa0) /\ d.kappa0 < b
      BY <1>1, <2>1, <2>5
    <3>2. LawAt(d, b).d \in Int /\ LawAt(d, a).d <= LawAt(d, b).d
      BY <2>1, <2>5, <3>1, LawBounds, LawGrows
    <3>3. \/ LawAt(d, b).d < d.dmax /\ DamageOf(d, b) = LawAt(d, b)
          \/ ~(LawAt(d, b).d < d.dmax) /\ DamageOf(d, b).d = d.dmax
      BY <3>1 DEF DamageOf
    <3> QED
      BY <1>1, <2>2, <2>3, <3>2, <3>3
  <2> QED
    BY <2>4, <2>5
<1> QED
  BY <1>2, <1>3

LEMMA DamageOutcome ==
  ASSUME NEW d, DamageTyped(d), DamageConstructs(d), NEW o \in Int, NEW eps \in Int,
         NEW g, DOMAIN g = GraphFields, NEW out \in DamageCompute(d, o, g, eps)
  PROVE  /\ DOMAIN out.graph = GraphFields /\ out.graph.hist \in Int
         /\ DamageSolves(d, o, eps, out.graph)
<1> DEFINE q == out.graph
           kappa == Larger(eps, Threshold(d, o))
           D == DamageOf(d, kappa)
           stiff == (Full - D.d) * d.M
<1>1. /\ DOMAIN q = GraphFields /\ q.hist = kappa /\ q.damage = D.d /\ q.stress = stiff * eps
      /\ q.tangent = IF IsYielding(d, o, eps) THEN stiff - D.dd * d.M * eps ELSE stiff
  <2> HIDE DEF kappa, D, stiff
  <2>1. out.graph = [g EXCEPT !.hist = kappa, !.damage = D.d, !.stress = stiff * eps,
                     !.tangent = IF IsYielding(d, o, eps) THEN stiff - D.dd * d.M * eps ELSE stiff]
    BY DEF DamageCompute, kappa, D, stiff
  <2> HIDE DEF q
  <2>2. q = [g EXCEPT !.hist = kappa, !.damage = D.d, !.stress = stiff * eps,
                     !.tangent = IF IsYielding(d, o, eps) THEN stiff - D.dd * d.M * eps ELSE stiff]
    BY <2>1 DEF q
  <2> QED
    BY <2>2 DEF GraphFields
<1>2. d.critical \in Int /\ d.M \in Int /\ Full \in Int /\ d.dmax \in Int /\ d.kappa0 \in Int
  BY DEF DamageTyped
<1>3. /\ kappa \in Int /\ kappa >= o /\ kappa >= eps /\ kappa \in {o, eps, d.critical}
      /\ (IsYielding(d, o, eps) => eps > o)
  BY <1>2 DEF Larger, Threshold, IsYielding
<1>4. /\ D.d \in 0 .. d.dmax /\ (D.dd # 0 => D.d < d.dmax)
      /\ (o > d.kappa0 => D.d >= DamageOf(d, o).d)
  <2> HIDE DEF kappa
  <2>1. D.d \in 0 .. d.dmax /\ (D.dd # 0 => D.d < d.dmax)
    BY <1>3, DamageBounds
  <2>2. DamageOf(d, o).d \in 0 .. d.dmax /\ (d.kappa0 < o /\ o <= kappa => DamageOf(d, o).d <= D.d)
    BY <1>3, DamageBounds
  <2> HIDE DEF D
  <2> QED
    BY <1>2, <1>3, <2>1, <2>2
<1> HIDE DEF q, kappa, D
<1>5. stiff \in Int
  BY <1>2, <1>4
<1>6. ASSUME q.tangent < stiff PROVE eps > o /\ D.d < d.dmax
  <2>1. IsYielding(d, o, eps)
    BY <1>1, <1>5, <1>6
  <2>2. D.dd # 0
    <3>1. SUFFICES ASSUME D.dd = 0 PROVE FALSE
      OBVIOUS
    <3>2. 0 * d.M = 0 /\ 0 * eps = 0
      BY <1>2
    <3>3. D.dd * d.M * eps = 0
      BY <3>1, <3>2
    <3> QED
      BY <1>1, <1>5, <1>6, <2>1, <3>3
  <2> QED
    BY <1>3, <1>4, <2>1, <2>2
<1>7. DamageSolves(d, o, eps, q)
  BY <1>1, <1>3, <1>4, <1>5, <1>6 DEF DamageSolves
<1> QED
  BY <1>1, <1>3, <1>7 DEF q

-----------------------------------------------------------------------------
(***************************************************************************)
(* The materials of one graph.                                             *)
(***************************************************************************)
\* Where a model keeps its promises.  A cone may soften less than its apex stiffens; a
\* coupled or an integrated return has a stiffness, and the latter hardens and solves the
\* consistency of one stage at a time; a reaction is not run backwards; the increment of
\* cure is not applied twice.
Sound(d) ==
  /\ d.model = "drucker_prager" => DPStable(d)
  /\ d.model = "kinematic" => d.M >= 0
  /\ d.model = "j2_rk" => RKStable(d)
  /\ d.model = "integrator" => IntegratorStable(d)
  /\ d.model = "cure" => "cure" \notin Repeated

SoundDeck(d) == Parameters(d) /\ Constructs(d) /\ Sound(d)

\* A history of d.
Held(d, h) ==
  /\ d.model \in {"j2", "j2_rk"} => h \in J2History
  /\ d.model = "drucker_prager" => h \in DPHistory
  /\ d.model = "kinematic" => h \in KinHistory
  /\ d.model \in {"integrator", "damage"} => h \in Int
  /\ d.model = "cure" => h \in 0 .. One
  /\ d.model = "system" => h = 0

\* A graph of d.
Shaped(d, g) ==
  /\ d.model \in {"j2", "drucker_prager", "j2_rk"} => GraphOf(g, {"ep", "kappa"})
  /\ d.model = "kinematic" => KinGraph(g)
  /\ d.model \in {"integrator", "damage", "cure", "system"} => DOMAIN g = GraphFields

\* What d has done when it returns.
Delivered(d, o, l, g) ==
  /\ Held(d, g.hist) /\ Solves(d, o, l, g) /\ Grown(d, o, g)
  /\ d.model = "kinematic" => SolverIsCurrent(d, o, l, g)

Delivers(d, o, l, out) ==
  Shaped(d, out.graph) /\ (out.end = "returned" => Delivered(d, o, l, out.graph))

LEMMA J2Delivers ==
  ASSUME NEW d, SoundDeck(d), d.model = "j2", NEW l \in d.loads, NEW o, Held(d, o),
         NEW g, Shaped(d, g), NEW out \in J2Compute(d, o, g, l)
  PROVE  Delivers(d, o, l, out)
<1> DEFINE q == out.graph
<1>1. J2Typed(d) /\ l \in Int
  BY DEF SoundDeck, Parameters, J2Parameters, DPParameters, KinParameters, RKParameters,
         IntegratorParameters, CureParameters, DamageParameters, J2Typed
<1>2. o \in J2History /\ GraphOf(g, {"ep", "kappa"})
  BY DEF Held, Shaped
<1>3. /\ GraphOf(q, {"ep", "kappa"})
      /\ out.end = "returned" =>
           q.hist \in J2History /\ J2Solves(d, o, l, q) /\ HardeningIsCurrent(d, q)
  BY <1>1, <1>2, J2Outcome
<1> HIDE DEF q
<1>4. q.hist \in J2History /\ J2Solves(d, o, l, q) => q.hist.kappa >= o.kappa
  BY <1>2 DEF J2Solves, J2History
<1>5. out.end = "returned" => Held(d, q.hist) /\ Solves(d, o, l, q) /\ Grown(d, o, q)
  BY <1>3, <1>4 DEF Held, Solves, Grown
<1> QED
  BY <1>3, <1>5 DEF Delivers, Delivered, Shaped, q

LEMMA DPDelivers ==
  ASSUME NEW d, SoundDeck(d), d.model = "drucker_prager", NEW l \in d.loads, NEW o, Held(d, o),
         NEW g, Shaped(d, g), NEW out \in DPCompute(d, o, g, l)
  PROVE  Delivers(d, o, l, out)
<1> DEFINE q == out.graph
<1>1. DPTyped(d) /\ DPStable(d) /\ l \in Pair
  BY DEF SoundDeck, Sound, Parameters, J2Parameters, DPParameters, KinParameters, RKParameters,
         IntegratorParameters, CureParameters, DamageParameters, DPTyped, Pair
<1>2. o \in DPHistory /\ GraphOf(g, {"ep", "kappa"})
  BY DEF Held, Shaped
<1>3. /\ GraphOf(q, {"ep", "kappa"})
      /\ out.end = "returned" =>
           q.hist \in DPHistory /\ DPSolves(d, o, l, q) /\ HardeningIsCurrent(d, q)
  BY <1>1, <1>2, DPOutcome
<1> HIDE DEF q
<1>4. DPSolves(d, o, l, q) => q.hist.kappa >= o.kappa
  BY DEF DPSolves
<1>5. out.end = "returned" => Held(d, q.hist) /\ Solves(d, o, l, q) /\ Grown(d, o, q)
  BY <1>3, <1>4 DEF Held, Solves, Grown
<1> QED
  BY <1>3, <1>5 DEF Delivers, Delivered, Shaped, q

LEMMA KinDelivers ==
  ASSUME NEW d, SoundDeck(d), d.model = "kinematic", NEW l \in d.loads, NEW o, Held(d, o),
         NEW g, Shaped(d, g), NEW out \in KinUpdate(d, o, g, l)
  PROVE  Delivers(d, o, l, out)
<1> DEFINE q == out.graph
<1>1. KinTyped(d) /\ d.M >= 0 /\ l \in Int
  BY DEF SoundDeck, Sound, Parameters, J2Parameters, DPParameters, KinParameters, RKParameters,
         IntegratorParameters, CureParameters, DamageParameters, KinTyped
<1>2. o \in KinHistory /\ KinGraph(g)
  BY DEF Held, Shaped
<1>3. KinGraph(q) /\ (out.end = "returned" => KinReturned(d, o, l, q))
  BY <1>1, <1>2, KinOutcome
<1> HIDE DEF q
<1>4. KinReturned(d, o, l, q) =>
        /\ q.hist \in KinHistory /\ KinSolves(d, o, l, q) /\ HardeningIsCurrent(d, q)
        /\ SolverIsCurrent(d, o, l, q)
  BY DEF KinReturned
<1>5. q.hist \in KinHistory /\ KinSolves(d, o, l, q) => q.hist.kappa >= o.kappa
  BY <1>2 DEF KinSolves, KinHistory
<1>6. out.end = "returned" => /\ Held(d, q.hist) /\ Solves(d, o, l, q) /\ Grown(d, o, q)
                              /\ SolverIsCurrent(d, o, l, q)
  BY <1>3, <1>4, <1>5 DEF Held, Solves, Grown
<1> QED
  BY <1>3, <1>6 DEF Delivers, Delivered, Shaped, q

LEMMA RKDelivers ==
  ASSUME NEW d, SoundDeck(d), d.model = "j2_rk", NEW l \in d.loads, NEW o, Held(d, o),
         NEW g, Shaped(d, g), NEW out \in RKCompute(d, o, g, l)
  PROVE  Delivers(d, o, l, out)
<1> DEFINE q == out.graph
<1>1. RKTyped(d) /\ l \in Int
  BY DEF SoundDeck, Parameters, J2Parameters, DPParameters, KinParameters, RKParameters,
         IntegratorParameters, CureParameters, DamageParameters, RKTyped, J2Typed
<1>2. RKConstructs(d) /\ RKStable(d)
  BY DEF SoundDeck, Sound, Constructs
<1>3. o \in J2History /\ GraphOf(g, {"ep", "kappa"})
  BY DEF Held, Shaped
<1>4. /\ GraphOf(q, {"ep", "kappa"})
      /\ out.end = "returned" =>
           q.hist \in J2History /\ RKSolves(d, o, l, q) /\ HardeningIsCurrent(d, q)
  BY <1>1, <1>2, <1>3, RKOutcome
<1> HIDE DEF q
<1>5. q.hist \in J2History /\ RKSolves(d, o, l, q) => q.hist.kappa >= o.kappa
  BY <1>3 DEF RKSolves, J2History, Abs
<1>6. out.end = "returned" => Held(d, q.hist) /\ Solves(d, o, l, q) /\ Grown(d, o, q)
  BY <1>4, <1>5 DEF Held, Solves, Grown
<1> QED
  BY <1>4, <1>6 DEF Delivers, Delivered, Shaped, q

LEMMA IntegratorDelivers ==
  ASSUME NEW d, SoundDeck(d), d.model = "integrator", NEW l \in d.loads, NEW o, Held(d, o),
         NEW g, Shaped(d, g), NEW out \in IntegratorCompute(d, o, g)
  PROVE  Delivers(d, o, l, out)
<1> DEFINE q == out.graph
<1>1. /\ d.h \in Int /\ d.k1 \in Int /\ d.k2 \in Int /\ d.whole \in Nat \ {0}
  BY DEF SoundDeck, Parameters, J2Parameters, DPParameters, KinParameters, RKParameters,
         IntegratorParameters, CureParameters, DamageParameters
<1>2. IntegratorTyped(d) /\ IntegratorStable(d)
  BY <1>1 DEF SoundDeck, Sound, Constructs, IntegratorTyped
<1>3. o \in Int /\ DOMAIN g = GraphFields
  BY DEF Held, Shaped
<1>4. /\ DOMAIN q = GraphFields /\ q.hist \in Int /\ IntegratorSolves(d, o, q)
      /\ q.converged => q.hist >= o
  BY <1>2, <1>3, IntegratorOutcome
<1> HIDE DEF q
<1>5. Held(d, q.hist) /\ Solves(d, o, l, q) /\ Grown(d, o, q)
  BY <1>4 DEF Held, Solves, Grown
<1> QED
  BY <1>4, <1>5 DEF Delivers, Delivered, Shaped, q

LEMMA CureDelivers ==
  ASSUME NEW d, SoundDeck(d), d.model = "cure", NEW l \in d.loads, NEW o, Held(d, o),
         NEW g, Shaped(d, g), g.hist = o, NEW out \in CureCompute(d, g, l)
  PROVE  Delivers(d, o, l, out)
<1> DEFINE q == out.graph
<1>1. CureTyped(d) /\ l \in Int
  BY DEF SoundDeck, Parameters, J2Parameters, DPParameters, KinParameters, RKParameters,
         IntegratorParameters, CureParameters, DamageParameters, CureTyped
<1>2. o \in 0 .. One /\ DOMAIN g = GraphFields
  BY DEF Held, Shaped
<1>3. DOMAIN q = GraphFields /\ q.hist \in 0 .. One /\ CureSolves(d, o, l, q)
  BY <1>1, <1>2, CureOutcome
<1> HIDE DEF q
<1>4. CureSolves(d, o, l, q) => o <= q.hist
  BY DEF CureSolves
<1>5. One \in Nat
  BY LocalSolveAssumption
<1>6. Held(d, q.hist) /\ Solves(d, o, l, q) /\ Grown(d, o, q)
  BY <1>2, <1>3, <1>4, <1>5 DEF Held, Solves, Grown
<1> QED
  BY <1>3, <1>6 DEF Delivers, Delivered, Shaped, q

LEMMA DamageDelivers ==
  ASSUME NEW d, SoundDeck(d), d.model = "damage", NEW l \in d.loads, NEW o, Held(d, o),
         NEW g, Shaped(d, g), NEW out \in DamageCompute(d, o, g, l)
  PROVE  Delivers(d, o, l, out)
<1> DEFINE q == out.graph
<1>1. DamageTyped(d) /\ l \in Int
  BY LocalSolveAssumption
     DEF SoundDeck, Parameters, J2Parameters, DPParameters, KinParameters, RKParameters,
         IntegratorParameters, CureParameters, DamageParameters, DamageTyped
<1>2. DamageConstructs(d) /\ o \in Int /\ DOMAIN g = GraphFields
  BY DEF SoundDeck, Constructs, Held, Shaped
<1>3. DOMAIN q = GraphFields /\ q.hist \in Int /\ DamageSolves(d, o, l, q)
  BY <1>1, <1>2, DamageOutcome
<1> HIDE DEF q
<1>4. DamageSolves(d, o, l, q) => q.hist >= o
  BY DEF DamageSolves
<1>5. Held(d, q.hist) /\ Solves(d, o, l, q) /\ Grown(d, o, q)
  BY <1>3, <1>4 DEF Held, Solves, Grown
<1> QED
  BY <1>3, <1>5 DEF Delivers, Delivered, Shaped, q

LEMMA SystemDelivers ==
  ASSUME NEW d, d.model = "system", NEW l, NEW o, Held(d, o),
         NEW g, Shaped(d, g), g.hist = o, NEW J, NEW out \in SystemCompute(d.system, g, J)
  PROVE  Delivers(d, o, l, out)
<1> DEFINE M == GatherJacobian(d.system, Published(d.system.unknowns, J))
<1>1. \/ out = [end |-> "refused", graph |-> g]
      \/ out = [end |-> "returned", graph |-> [g EXCEPT !.solver = M]]
  BY DEF SystemCompute
<1> HIDE DEF M
<1>2. DOMAIN g = GraphFields /\ o = 0
  BY DEF Shaped, Held
<1>3. DOMAIN out.graph = GraphFields /\ out.graph.hist = 0
  BY <1>1, <1>2 DEF GraphFields
<1>4. Held(d, out.graph.hist) /\ Solves(d, o, l, out.graph) /\ Grown(d, o, out.graph)
  BY <1>2, <1>3 DEF Held, Solves, Grown
<1> QED
  BY <1>3, <1>4 DEF Delivers, Delivered, Shaped

LEMMA OutcomeDelivers ==
  ASSUME NEW d, SoundDeck(d), NEW l \in d.loads, NEW o, Held(d, o), NEW g, Shaped(d, g),
         d.model \in {"cure", "system"} => g.hist = o,
         NEW out \in Outcomes(d, o, g, l)
  PROVE  Delivers(d, o, l, out)
<1>1. CASE d.model = "j2"
  BY <1>1, J2Delivers DEF Outcomes
<1>2. CASE d.model = "drucker_prager"
  BY <1>2, DPDelivers DEF Outcomes
<1>3. CASE d.model = "kinematic"
  BY <1>3, KinDelivers DEF Outcomes
<1>4. CASE d.model = "j2_rk"
  BY <1>4, RKDelivers DEF Outcomes
<1>5. CASE d.model = "integrator"
  BY <1>5, IntegratorDelivers DEF Outcomes
<1>6. CASE d.model = "cure"
  BY <1>6, CureDelivers DEF Outcomes
<1>7. CASE d.model = "damage"
  BY <1>7, DamageDelivers DEF Outcomes
<1>8. CASE d.model = "system"
  <2>1. out \in SystemCompute(d.system, g, LoadedJacobian(d, l))
    BY <1>8 DEF Outcomes
  <2> QED
    BY <1>8, <2>1, SystemDelivers
<1>9. CASE d.model = "arrays"
  BY <1>9 DEF Delivers, Delivered, Shaped, Held, Solves, Grown
<1>10. d.model \in {"j2", "drucker_prager", "kinematic", "j2_rk", "integrator", "cure", "damage",
                    "system", "arrays"}
  BY DEF SoundDeck, Parameters, J2Parameters, DPParameters, KinParameters, RKParameters,
         IntegratorParameters, CureParameters, DamageParameters
<1> QED
  BY <1>1, <1>2, <1>3, <1>4, <1>5, <1>6, <1>7, <1>8, <1>9, <1>10

LEMMA StartIsHeld ==
  ASSUME NEW d, SoundDeck(d)
  PROVE  Held(d, Start(d)) /\ Shaped(d, StartGraph(d))
<1>1. Held(d, Start(d))
  <2>1. CASE d.model \in {"j2", "j2_rk", "drucker_prager", "kinematic", "system", "arrays"}
    BY <2>1 DEF Held, Start, J2History, DPHistory, Pair, KinHistory
  <2>2. CASE d.model = "integrator"
    <3>1. d.start \in Int
      BY <2>2 DEF SoundDeck, Parameters, J2Parameters, DPParameters, KinParameters, RKParameters,
         IntegratorParameters, CureParameters, DamageParameters
    <3> QED
      BY <2>2, <3>1 DEF Held, Start
  <2>3. CASE d.model = "cure"
    <3>1. d.start \in 0 .. One
      BY <2>3 DEF SoundDeck, Parameters, J2Parameters, DPParameters, KinParameters, RKParameters,
         IntegratorParameters, CureParameters, DamageParameters
    <3> QED
      BY <2>3, <3>1 DEF Held, Start
  <2>4. CASE d.model = "damage"
    <3>1. d.critical \in Int
      BY <2>4 DEF SoundDeck, Parameters, J2Parameters, DPParameters, KinParameters, RKParameters,
         IntegratorParameters, CureParameters, DamageParameters
    <3> QED
      BY <2>4, <3>1 DEF Held, Start
  <2>5. d.model \in {"j2", "drucker_prager", "kinematic", "j2_rk", "integrator", "cure", "damage",
                    "system", "arrays"}
    BY DEF SoundDeck, Parameters, J2Parameters, DPParameters, KinParameters, RKParameters,
         IntegratorParameters, CureParameters, DamageParameters
  <2> QED
    BY <2>1, <2>2, <2>3, <2>4, <2>5
<1>2. /\ DOMAIN StartGraph(d) = GraphFields /\ StartGraph(d).hist = Start(d)
      /\ StartGraph(d).solver = Fresh
  BY DEF StartGraph, GraphFields
<1>3. d.model \in {"j2", "drucker_prager", "j2_rk"} => DOMAIN Start(d) = {"ep", "kappa"}
  BY DEF Start
<1>4. d.model = "kinematic" => DOMAIN Start(d) = KinEntries
  BY DEF Start, KinEntries
<1>5. DOMAIN Fresh = SolverFields
  BY DEF Fresh, SolverFields
<1>6. Shaped(d, StartGraph(d))
  BY <1>2, <1>3, <1>4, <1>5 DEF Shaped, GraphOf, KinGraph
<1> QED
  BY <1>1, <1>6

\* A history loaded into a graph.
LEMMA LoadedGraph ==
  ASSUME NEW d, NEW g, Shaped(d, g), NEW h, Held(d, h)
  PROVE  LET w == [g EXCEPT !.hist = h]
         IN  Shaped(d, w) /\ (d.model \in {"cure", "system"} => w.hist = h)
<1> DEFINE w == [g EXCEPT !.hist = h]
<1>1. DOMAIN g = GraphFields => DOMAIN w = GraphFields /\ w.hist = h /\ w.solver = g.solver
  BY DEF GraphFields
<1> HIDE DEF w
<1>2. /\ d.model \in {"j2", "j2_rk"} => DOMAIN h = {"ep", "kappa"}
      /\ d.model = "drucker_prager" => DOMAIN h = {"ep", "kappa"}
      /\ d.model = "kinematic" => DOMAIN h = KinEntries
  BY DEF Held, J2History, DPHistory, KinHistory, KinEntries
<1>3. Shaped(d, w)
  BY <1>1, <1>2 DEF Shaped, KinGraph, GraphOf
<1>4. d.model \in {"cure", "system"} => w.hist = h
  BY <1>1 DEF Shaped
<1> QED
  BY <1>3, <1>4 DEF w

\* Every point has a history of the material, the graph is one of it, and what it returned it
\* has delivered from the history of the point it was at.
LocalInv ==
  /\ SoundDeck(deck)
  /\ DOMAIN acc = Point /\ \A p \in Point : Held(deck, acc[p])
  /\ Shaped(deck, graph)
  /\ end # "none" => point \in Point
  /\ end = "returned" => Delivered(deck, acc[point], load, graph)

LEMMA LocalStarts == LocalInit /\ Sound(deck) => LocalInv
<1> SUFFICES ASSUME LocalInit, Sound(deck) PROVE LocalInv
  OBVIOUS
<1>1. deck \in Decks /\ Constructs(deck)
  BY DEF LocalInit
<1>2. SoundDeck(deck)
  BY <1>1, LocalSolveAssumption DEF SoundDeck
<1>3. Held(deck, Start(deck)) /\ Shaped(deck, StartGraph(deck))
  BY <1>2, StartIsHeld
<1> QED
  BY <1>2, <1>3 DEF LocalInit, LocalInv

LEMMA EvaluatesInv ==
  ASSUME LocalInv, NEW p \in Point, NEW l \in deck.loads, Evaluate(p, l)
  PROVE  LocalInv'
<1> DEFINE g == [graph EXCEPT !.hist = acc[p]]
<1>1. /\ SoundDeck(deck) /\ Held(deck, acc[p]) /\ Shaped(deck, g)
      /\ (deck.model \in {"cure", "system"} => g.hist = acc[p])
  BY LoadedGraph DEF LocalInv
<1>2. PICK out \in Outcomes(deck, acc[p], g, l) : end' = out.end /\ graph' = out.graph
  BY DEF Evaluate, Ended
<1> HIDE DEF g
<1>3. Delivers(deck, acc[p], l, out)
  BY <1>1, <1>2, OutcomeDelivers
<1>4. point' = p /\ load' = l /\ deck' = deck /\ acc' = acc
  BY DEF Evaluate
<1> QED
  BY <1>2, <1>3, <1>4 DEF LocalInv, Delivers

LEMMA UpdatesInv ==
  ASSUME LocalInv, NEW l \in deck.loads, UpdateAgain(l)
  PROVE  LocalInv'
<1>1. /\ SoundDeck(deck) /\ Held(deck, acc[point]) /\ Shaped(deck, graph) /\ point \in Point
      /\ Delivered(deck, acc[point], load, graph) /\ end = "returned" /\ deck.model \in Repeated
  BY DEF LocalInv, UpdateAgain
<1>2. deck.model \in {"cure", "system"} => graph.hist = acc[point]
  BY <1>1 DEF SoundDeck, Sound, Delivered, Held
<1>3. PICK out \in Outcomes(deck, acc[point], graph, l) : end' = out.end /\ graph' = out.graph
  BY DEF UpdateAgain, Ended
<1>4. Delivers(deck, acc[point], l, out)
  BY <1>1, <1>2, <1>3, OutcomeDelivers
<1>5. point' = point /\ load' = l /\ deck' = deck /\ acc' = acc
  BY DEF UpdateAgain
<1> QED
  BY <1>1, <1>3, <1>4, <1>5 DEF LocalInv, Delivers

LEMMA AcceptsInv ==
  ASSUME LocalInv, Accept
  PROVE  LocalInv'
<1>1. Delivered(deck, acc[point], load, graph) /\ point \in Point
  BY DEF LocalInv, Accept
<1>2. Held(deck, graph.hist)
  BY <1>1 DEF Delivered
<1>3. /\ acc' = [acc EXCEPT ![point] = graph.hist] /\ end' = "none" /\ deck' = deck
      /\ graph' = graph /\ point' = point
  BY DEF Accept
<1>4. DOMAIN acc' = Point /\ \A p \in Point : Held(deck', acc'[p])
  BY <1>2, <1>3 DEF LocalInv
<1> QED
  BY <1>3, <1>4 DEF LocalInv

LEMMA LocalStep == LocalInv /\ [LocalNext]_localVars => LocalInv'
<1> SUFFICES ASSUME LocalInv, [LocalNext]_localVars PROVE LocalInv'
  OBVIOUS
<1>1. CASE UNCHANGED localVars
  BY <1>1 DEF localVars, LocalInv
<1> QED
  BY <1>1, EvaluatesInv, UpdatesInv, AcceptsInv DEF LocalNext

\* Whatever is evaluated, in whatever order, on the one graph: a material keeps its
\* invariant where its parameters are sound (material_point::evaluate and accept).
THEOREM LocalInvariant == LocalSpec /\ Sound(deck) => []LocalInv
  BY LocalStarts, LocalStep, PTL DEF LocalSpec

\* An evaluation that returns has solved the equations of its model, from the accepted
\* history of its point (compute of every material, material_point::load_history).
THEOREM ReturnsSolveHolds == LocalSpec /\ Sound(deck) => []ReturnsSolve
<1>1. LocalInv => ReturnsSolve
  BY DEF LocalInv, ReturnsSolve, Delivered
<1> QED
  BY <1>1, LocalInvariant, PTL

\* What a coupled return map reads of its solver is of its own evaluation: a point that did
\* not solve resets it (j2_kinematic_plasticity::compute, vector_newton::reset).
THEOREM DerivativesHold == LocalSpec /\ Sound(deck) => []DerivativesAreOfThisPoint
<1>1. LocalInv => DerivativesAreOfThisPoint
  BY DEF LocalInv, DerivativesAreOfThisPoint, Delivered
<1> QED
  BY <1>1, LocalInvariant, PTL

\* The accepted hardening, cure and damage of a point never shrink, whatever failed or was
\* evaluated elsewhere between two steps (material_point::accept).
THEOREM HistoryGrowsHolds == LocalSpec /\ Sound(deck) => HistoryOnlyGrows
<1>1. ASSUME LocalInv, [LocalNext]_localVars
      PROVE  [\A p \in Point : acc'[p] # acc[p] => Grown(deck, acc[p], graph)]_localVars
  <2>1. CASE Accept
    <3>1. Grown(deck, acc[point], graph) /\ DOMAIN acc = Point
      BY <1>1, <2>1 DEF Accept, LocalInv, Delivered
    <3>2. \A p \in Point : p # point => acc'[p] = acc[p]
      BY <2>1, <3>1 DEF Accept
    <3> QED
      BY <3>1, <3>2
  <2>2. CASE acc' = acc
    BY <2>2
  <2> QED
    BY <1>1, <2>1, <2>2 DEF LocalNext, Evaluate, UpdateAgain, localVars
<1> QED
  BY <1>1, LocalInvariant, PTL DEF LocalSpec, HistoryOnlyGrows

-----------------------------------------------------------------------------
(***************************************************************************)
(* A bare system.                                                          *)
(***************************************************************************)
\* What an evaluation under the load l leaves in a graph h.
SystemEnds(d, l, e, h) ==
  LET s == d.system
      P == Published(s.unknowns, LoadedJacobian(d, l))
  IN  IF VerifyThrows(s, P) THEN e = "refused"
      ELSE e = "returned" /\ h.solver = GatherJacobian(s, P)

SystemInv ==
  deck.model = "system" =>
    /\ deck.system \in Systems /\ CheckNames(deck.system.unknowns, deck.system.zeros, TRUE)
    /\ deck.loads \subseteq Entries(deck.system.unknowns)
    /\ "solver" \in DOMAIN graph
    /\ end # "none" => load \in deck.loads /\ SystemEnds(deck, load, end, graph)

LEMMA SystemStarts == LocalInit => SystemInv
BY LocalSolveAssumption DEF LocalInit, Constructs, StartGraph, SystemInv

LEMMA SystemOutcome ==
  ASSUME NEW d, d.model = "system", NEW o, NEW g, "solver" \in DOMAIN g, NEW l, NEW out \in Outcomes(d, o, g, l)
  PROVE  "solver" \in DOMAIN out.graph /\ SystemEnds(d, l, out.end, out.graph)
<1> DEFINE s == d.system  J == LoadedJacobian(d, l)  P == Published(s.unknowns, J)
           M == GatherJacobian(s, P)
<1>1. Outcomes(d, o, g, l) = SystemCompute(s, g, J)
  BY DEF Outcomes
<1>2. out \in IF VerifyThrows(s, P) THEN {[end |-> "refused", graph |-> g]}
              ELSE {[end |-> "returned", graph |-> [g EXCEPT !.solver = M]]}
  BY <1>1 DEF SystemCompute
<1>3. CASE VerifyThrows(s, P)
  <2>1. out = [end |-> "refused", graph |-> g]
    BY <1>2, <1>3
  <2> QED
    BY <1>3, <2>1 DEF SystemEnds
<1>4. CASE ~VerifyThrows(s, P)
  <2> DEFINE h == [g EXCEPT !.solver = M]
  <2>1. out = [end |-> "returned", graph |-> h]
    BY <1>2, <1>4
  <2>2. out.end = "returned" /\ out.graph = h
    <3> HIDE DEF h
    <3> QED
      BY <2>1
  <2> HIDE DEF M
  <2>3. h.solver = M /\ DOMAIN h = DOMAIN g
    OBVIOUS
  <2> HIDE DEF h
  <2> QED
    BY <1>4, <2>2, <2>3 DEF SystemEnds, M
<1> QED
  BY <1>3, <1>4

LEMMA SystemStep == SystemInv /\ [LocalNext]_localVars => SystemInv'
<1> SUFFICES ASSUME SystemInv, [LocalNext]_localVars PROVE SystemInv'
  OBVIOUS
<1>1. deck' = deck
  BY DEF LocalNext, Evaluate, UpdateAgain, Accept, localVars
<1> SUFFICES ASSUME deck.model = "system" PROVE SystemInv'
  BY <1>1 DEF SystemInv
<1>2. /\ deck.system \in Systems /\ CheckNames(deck.system.unknowns, deck.system.zeros, TRUE)
      /\ deck.loads \subseteq Entries(deck.system.unknowns) /\ "solver" \in DOMAIN graph
      /\ end # "none" => load \in deck.loads /\ SystemEnds(deck, load, end, graph)
  BY DEF SystemInv
<1>3. ASSUME NEW o, NEW g, "solver" \in DOMAIN g, NEW l \in deck.loads,
             NEW out \in Outcomes(deck, o, g, l), end' = out.end, graph' = out.graph, load' = l
      PROVE  SystemInv'
  <2>1. "solver" \in DOMAIN graph' /\ SystemEnds(deck, load', end', graph')
    BY <1>3, SystemOutcome
  <2> QED
    BY <1>1, <1>2, <1>3, <2>1 DEF SystemInv
<1>4. ASSUME NEW p \in Point, NEW l \in deck.loads, Evaluate(p, l) PROVE SystemInv'
  <2> DEFINE g == [graph EXCEPT !.hist = acc[p]]
  <2>1. PICK out \in Outcomes(deck, acc[p], g, l) : end' = out.end /\ graph' = out.graph
    BY <1>4 DEF Evaluate, Ended
  <2>2. load' = l
    BY <1>4 DEF Evaluate
  <2>3. "solver" \in DOMAIN g
    BY <1>2
  <2> HIDE DEF g
  <2> QED
    BY <1>3, <2>1, <2>2, <2>3
<1>5. ASSUME NEW l \in deck.loads, UpdateAgain(l) PROVE SystemInv'
  <2>1. PICK out \in Outcomes(deck, acc[point], graph, l) : end' = out.end /\ graph' = out.graph
    BY <1>5 DEF UpdateAgain, Ended
  <2>2. load' = l
    BY <1>5 DEF UpdateAgain
  <2> QED
    BY <1>2, <1>3, <2>1, <2>2
<1>6. CASE Accept
  BY <1>1, <1>2, <1>6 DEF Accept, SystemInv
<1>7. CASE UNCHANGED localVars
  BY <1>1, <1>2, <1>7 DEF localVars, SystemInv
<1> QED
  BY <1>4, <1>5, <1>6, <1>7 DEF LocalNext

\* The loads are jacobians, of the kinds of the unknowns.
LEMMA LoadsAreBlocks ==
  ASSUME NEW u \in Unknowns, NEW l \in Entries(u)
  PROVE  AreBlocks(u, UnitJacobian(u, l[1], l[2]))
<1> DEFINE J == UnitJacobian(u, l[1], l[2])
<1>1. J = [kl \in Blocks(u) |-> IF kl = l[1] THEN UnitBlock(u[l[1][1]].kind, u[l[1][2]].kind, l[2])
                                ELSE ZeroBlock(u[kl[1]].kind, u[kl[2]].kind)]
  BY DEF UnitJacobian
<1> HIDE DEF J
<1>2. ASSUME NEW r, NEW c, NEW p PROVE UnitBlock(r, c, p) \in BlockOfKinds(r, c) /\ ZeroBlock(r, c) \in BlockOfKinds(r, c)
  BY DEF UnitBlock, ZeroBlock, BlockOfKinds
<1>3. ASSUME NEW kl \in Blocks(u) PROVE J[kl] \in BlockOfKinds(u[kl[1]].kind, u[kl[2]].kind)
  <2>1. CASE kl = l[1]
    <3>1. J[kl] = UnitBlock(u[kl[1]].kind, u[kl[2]].kind, l[2])
      BY <1>1, <2>1
    <3> QED
      BY <1>2, <3>1
  <2>2. CASE kl # l[1]
    <3>1. J[kl] = ZeroBlock(u[kl[1]].kind, u[kl[2]].kind)
      BY <1>1, <2>2
    <3> QED
      BY <1>2, <3>1
  <2> QED
    BY <2>1, <2>2
<1>4. DOMAIN J = Blocks(u)
  BY <1>1
<1> QED
  BY <1>3, <1>4 DEF AreBlocks, J

\* The flat system a vector_newton solves is the one of its material, block by block, and a
\* block declared zero that is not is refused where it is verified: for every list of
\* unknowns, whatever was evaluated before (gather_jacobian, verify_zero_blocks).
THEOREM SystemIsPackedHolds == LocalSpec => []SystemIsPacked
<1>1. SystemInv => SystemIsPacked
  <2> SUFFICES ASSUME SystemInv, deck.model = "system", end # "none" PROVE SystemIsPacked
    BY DEF SystemIsPacked
  <2> DEFINE s == deck.system  u == s.unknowns  J == LoadedJacobian(deck, load)
             P == Published(u, J)
  <2>1. /\ s \in Systems /\ CheckNames(u, s.zeros, TRUE) /\ deck.loads \subseteq Entries(u)
        /\ load \in deck.loads /\ SystemEnds(deck, load, end, graph)
    BY DEF SystemInv
  <2>2. u \in Unknowns
    BY <2>1, SystemFacts
  <2>3. AreBlocks(u, J)
    BY <2>1, <2>2, LoadsAreBlocks DEF LoadedJacobian
  <2>4. IF VerifyThrows(s, P) THEN end = "refused" ELSE end = "returned" /\ graph.solver = GatherJacobian(s, P)
    BY <2>1 DEF SystemEnds
  <2> HIDE DEF s, J
  <2>5. VerifyThrows(s, P) <=> s.verify /\ ~ZerosHold(s, J)
    BY <2>1, <2>3, RefusedForZeros
  <2>6. ZerosHold(s, J) => IsPacked(u, J, GatherJacobian(s, P))
    BY <2>1, <2>3, SystemIsFlattened
  <2>7. /\ s.verify => (end = "returned" <=> ZerosHold(s, J))
        /\ end = "returned" /\ ZerosHold(s, J) => IsPacked(u, J, graph.solver)
    BY <2>4, <2>5, <2>6
  <2> QED
    BY <2>7 DEF SystemIsPacked, s, J
<1> QED
  BY <1>1, SystemStarts, SystemStep, PTL DEF LocalSpec

-----------------------------------------------------------------------------
(***************************************************************************)
(* The arrays of a host.                                                   *)
(***************************************************************************)
\* The quotients of the condensation are numbers of the model.
ArraysSound(d) == d.model = "arrays" /\ d.family = "plane_stress" => ExactRow(d)

ArraysInv ==
  deck.model = "arrays" =>
    /\ IsArrays(deck) /\ ArraysSound(deck)
    /\ DOMAIN acc = Point /\ \A p \in Point : IsStored(deck, acc[p])
    /\ {"hist", "stress", "tangent"} \subseteq DOMAIN graph
    /\ end = "returned" => /\ IsStored(deck, graph.hist)
                           /\ CarryTensors(deck, acc[point], load, graph)

LEMMA ArraysStarts == LocalInit /\ ArraysSound(deck) => ArraysInv
<1> SUFFICES ASSUME LocalInit, ArraysSound(deck), deck.model = "arrays" PROVE ArraysInv
  BY DEF ArraysInv
<1>1. /\ deck \in Decks /\ Constructs(deck) /\ acc = [p \in Point |-> Start(deck)]
      /\ graph = StartGraph(deck) /\ end = "none"
  BY DEF LocalInit
<1>2. IsArrays(deck)
  <2>1. Parameters(deck)
    BY <1>1, LocalSolveAssumption
  <2>2. deck.model = "arrays" /\ ArrayParameters(deck)
    BY <2>1 DEF Parameters, J2Parameters, DPParameters, KinParameters, RKParameters, IntegratorParameters,
                CureParameters, DamageParameters
  <2>3. MapConstructs(deck)
    BY <1>1 DEF Constructs
  <2> QED
    BY <2>2, <2>3 DEF IsArrays
<1>3. Start(deck) = StartArrays(deck)
  BY DEF Start
<1>4. DOMAIN acc = Point /\ \A p \in Point : IsStored(deck, acc[p])
  BY <1>1, <1>2, <1>3, StartStored
<1>5. {"hist", "stress", "tangent"} \subseteq DOMAIN graph
  BY <1>1 DEF StartGraph
<1> QED
  BY <1>1, <1>2, <1>4, <1>5 DEF ArraysInv

LEMMA ArraysStep == ArraysInv /\ [LocalNext]_localVars => ArraysInv'
<1> SUFFICES ASSUME ArraysInv, [LocalNext]_localVars PROVE ArraysInv'
  OBVIOUS
<1>1. deck' = deck
  BY DEF LocalNext, Evaluate, UpdateAgain, Accept, localVars
<1> SUFFICES ASSUME deck.model = "arrays" PROVE ArraysInv'
  BY <1>1 DEF ArraysInv
<1>2. /\ IsArrays(deck) /\ ArraysSound(deck)
      /\ DOMAIN acc = Point /\ \A p \in Point : IsStored(deck, acc[p])
      /\ {"hist", "stress", "tangent"} \subseteq DOMAIN graph
      /\ end = "returned" => IsStored(deck, graph.hist) /\ CarryTensors(deck, acc[point], load, graph)
  BY DEF ArraysInv
<1>3. ASSUME NEW p \in Point, NEW l \in deck.loads, Evaluate(p, l) PROVE ArraysInv'
  <2> DEFINE o == acc[p]  g == [graph EXCEPT !.hist = o]
  <2>1. PICK out \in Outcomes(deck, o, g, l) : end' = out.end /\ graph' = out.graph
    BY <1>3 DEF Evaluate, Ended
  <2>2. point' = p /\ load' = l /\ acc' = acc
    BY <1>3 DEF Evaluate
  <2>3. Outcomes(deck, o, g, l) = ArrayCompute(deck, o, g, l)
    BY DEF Outcomes
  <2>4. IsStored(deck, o)
    BY <1>2
  <2>5. g.hist = o /\ {"hist", "stress", "tangent"} \subseteq DOMAIN g
    BY <1>2
  <2>6. IsGraph(g)
    BY <2>4, <2>5 DEF IsGraph, IsStored
  <2> HIDE DEF g, o
  <2>7. out \in ArrayCompute(deck, o, g, l)
    BY <2>1, <2>3
  <2>8. HasFields(g, out)
    BY <1>2, <2>5, <2>7, ArrayFields
  <2>9. {"hist", "stress", "tangent"} \subseteq DOMAIN graph'
    BY <2>1, <2>5, <2>8 DEF HasFields
  <2>10. out.end = "returned" => IsStored(deck, out.graph.hist) /\ CarryTensors(deck, o, l, out.graph)
    BY <1>2, <2>4, <2>5, <2>6, <2>7, ArrayReturns DEF ArraysSound
  <2>11. end' = "returned" => IsStored(deck, graph'.hist) /\ CarryTensors(deck, acc'[point'], load', graph')
    BY <2>1, <2>2, <2>10 DEF o
  <2> QED
    BY <1>1, <1>2, <2>2, <2>9, <2>11 DEF ArraysInv
<1>4. ASSUME NEW l \in deck.loads, UpdateAgain(l) PROVE ArraysInv'
  BY <1>4, LocalSolveAssumption DEF UpdateAgain
<1>5. CASE Accept
  <2>1. end = "returned" /\ acc' = [acc EXCEPT ![point] = graph.hist] /\ end' = "none" /\ graph' = graph
    BY <1>5 DEF Accept
  <2>2. \A p \in Point : IsStored(deck, acc'[p])
    BY <1>2, <2>1
  <2> QED
    BY <1>1, <1>2, <2>1, <2>2 DEF ArraysInv
<1>6. CASE UNCHANGED localVars
  BY <1>1, <1>2, <1>6 DEF localVars, ArraysInv
<1> QED
  BY <1>3, <1>4, <1>5, <1>6 DEF LocalNext

\* What the material has stored is in the state array of its host, for every process that
\* reads it, and the stresses and the matrix the host gets are those of the material: for
\* all four ways in which arrays come in, every layout of STATEV, every mesh and every
\* sequence of calls, refused ones among them (material_point_evaluator,
\* plane_stress_evaluator, calculix_dispatch, statev_map).
THEOREM ArraysCarryTensorsHolds == LocalSpec /\ ArraysSound(deck) => []ArraysCarryTensors
<1>1. ArraysInv => ArraysCarryTensors
  BY DEF ArraysInv, ArraysCarryTensors
<1> QED
  BY <1>1, ArraysStarts, ArraysStep, PTL DEF LocalSpec
=============================================================================
