----------------------------- MODULE StateArrays -----------------------------
(***************************************************************************)
(* What goes through the arrays of a finite element host: the conversions  *)
(* of umat/tensor_conversion.h, the STATEV layout of umat/statev_map.h,    *)
(* the evaluators that use them, and calculix_dispatch.                    *)
(*                                                                         *)
(* Symmetric tensors are functions of two axes, and those of rank 4, the   *)
(* tangents, of four.  The accepted history is the whole state array of    *)
(* the host, beside what it stands for: for each integration point the     *)
(* values of the history properties.                                       *)
(*                                                                         *)
(* The material is external: it is linear, its plastic strain is a given   *)
(* one, and its histories accumulate.                                      *)
(***************************************************************************)
EXTENDS Integers, Sequences, FiniteSets

Axis == 1 .. 3
SumOver(f) == f[1] + f[2] + f[3]
AddTo(a, b) == [q \in DOMAIN a |-> a[q] + b[q]]
Tensor2 == Axis \X Axis
Tensor4 == Axis \X Axis \X Axis \X Axis
Nothing(q) == [p \in q |-> 0]

\* The components of the canonical buffer, in the order of Abaqus.
Slot == <<<<1, 1>>, <<2, 2>>, <<3, 3>>, <<1, 2>>, <<1, 3>>, <<2, 3>>>>
SlotOf(i, j) == IF i = j THEN i ELSE i + j + 1
IsShear(k) == k > 3

\* Host slot -> canonical slot.
SlotMap(ec) ==
  CASE ec = "solid3d"      -> <<1, 2, 3, 4, 5, 6>>
    [] ec = "plane_strain" -> <<1, 2, 3, 4>>
    [] ec = "plane_stress" -> <<1, 2, 4>>

WidenVector(host, ec, outOfPlane) ==
  [k \in 1 .. 6 |->
     IF ec = "plane_stress" /\ k = 3 THEN outOfPlane
     ELSE IF \E n \in DOMAIN SlotMap(ec) : SlotMap(ec)[n] = k
     THEN host[CHOOSE n \in DOMAIN SlotMap(ec) : SlotMap(ec)[n] = k]
     ELSE 0]

NarrowVector(in, ec) == [n \in DOMAIN SlotMap(ec) |-> in[SlotMap(ec)[n]]]

\* Row and column of the row-major 6 x 6 buffer.
At(in, a, b) == in[(a - 1) * 6 + b]

\* A mutant of NarrowMatrix: the host's matrix is filled row by row.
NarrowMatrixByRow(in, ec) ==
  LET map == SlotMap(ec)
  IN  [n \in 1 .. Len(map) * Len(map) |->
         LET a == map[((n - 1) \div Len(map)) + 1]
             b == map[((n - 1) % Len(map)) + 1]
         IN  At(in, a, b) - (IF ec = "plane_stress"
                             THEN (At(in, a, 3) * At(in, 3, b)) \div At(in, 3, 3) ELSE 0)]

\* To the column-major matrix of the host, condensed for plane stress.
NarrowMatrix(in, ec) ==
  LET map == SlotMap(ec)
  IN  [n \in 1 .. Len(map) * Len(map) |->
         LET a == map[((n - 1) % Len(map)) + 1]
             b == map[((n - 1) \div Len(map)) + 1]
         IN  At(in, a, b) - (IF ec = "plane_stress"
                             THEN (At(in, a, 3) * At(in, 3, b)) \div At(in, 3, 3) ELSE 0)]

StrainFromBuffer(buf) ==
  [p \in Tensor2 |-> IF IsShear(SlotOf(p[1], p[2])) THEN buf[SlotOf(p[1], p[2])] \div 2 ELSE buf[SlotOf(p[1], p[2])]]
StrainToBuffer(t) == [k \in 1 .. 6 |-> IF IsShear(k) THEN 2 * t[Slot[k]] ELSE t[Slot[k]]]
StressFromBuffer(buf) == [p \in Tensor2 |-> buf[SlotOf(p[1], p[2])]]
StressToBuffer(t) == [k \in 1 .. 6 |-> t[Slot[k]]]
TangentFromBuffer(buf) ==
  [q \in Tensor4 |-> At(buf, SlotOf(q[1], q[2]), SlotOf(q[3], q[4]))]
TangentToBuffer(C) ==
  [n \in 1 .. 36 |->
     LET a == Slot[((n - 1) \div 6) + 1]
         b == Slot[((n - 1) % 6) + 1]
     IN  C[<<a[1], a[2], b[1], b[2]>>]]

RotationFromBuffer(drot) == [p \in Tensor2 |-> drot[p[1] + 3 * (p[2] - 1)]]
NoRotation == <<1, 0, 0, 0, 1, 0, 0, 0, 1>>
Identity == [p \in Tensor2 |-> IF p[1] = p[2] THEN 1 ELSE 0]

Rotate2(a, R) ==
  [p \in Tensor2 |->
     SumOver([r \in Axis |-> SumOver([s \in Axis |-> R[<<p[1], r>>] * a[<<r, s>>] * R[<<p[2], s>>]])])]

\* One index after the other.
RotateIndex(c, R, n) ==
  [q \in Tensor4 |-> SumOver([r \in Axis |-> R[<<q[n], r>>] * c[[q EXCEPT ![n] = r]]])]
Rotate4(c, R) == RotateIndex(RotateIndex(RotateIndex(RotateIndex(c, R, 1), R, 2), R, 3), R, 4)

-----------------------------------------------------------------------------
(***************************************************************************)
(* statev_map.  A history property has an owner and a name, which are      *)
(* numbers for their order, and a kind.                                    *)
(***************************************************************************)
StateKind == {"scalar", "stress", "strain", "tangent"}

HistoryEntry == [id : Nat \X Nat, kind : STRING]

\* The history properties of a deck in an order of execution.
IsOrder(order) ==
  order \in Seq(HistoryEntry) /\ \A m, n \in DOMAIN order : order[m].id = order[n].id => m = n

IsOrderOf(d, order) == IsOrder(order) /\ {order[n] : n \in DOMAIN order} = d.histories

KindOf(d, id) == (CHOOSE h \in d.histories : h.id = id).kind

KindWidth(kind) ==
  CASE kind = "scalar" -> 1
    [] kind \in {"stress", "strain"} -> 6
    [] kind = "tangent" -> 36

\* What the constructor refuses.
MapConstructs(d) ==
  /\ \A e \in d.exclusions : \E h \in d.histories : h.id = e
  /\ \A h \in d.histories :
       h.id \notin d.exclusions => h.kind \in StateKind

\* A mutant of Layout: the entries in the order of execution.
LayoutAsExecuted(d, order) == SelectSeq(order, LAMBDA h : h.id \notin d.exclusions)

IdBefore(a, b) == a[1] < b[1] \/ (a[1] = b[1] /\ a[2] < b[2])

\* The entries of the map: what is not excluded, sorted by owner and name.
Kept(d, order) == {n \in DOMAIN order : order[n].id \notin d.exclusions}

Rank(order, kept, n) == Cardinality({m \in kept : IdBefore(order[m].id, order[n].id)})

Layout(d, order) ==
  LET kept == Kept(d, order)
  IN  [k \in 1 .. Cardinality(kept) |-> order[CHOOSE n \in kept : Rank(order, kept, n) = k - 1]]

\* Where the entry n begins, and with n = Len(layout) + 1 the width of the map.
EntryOffset(layout, n) ==
  LET offset[m \in 0 .. n - 1] ==
        IF m = 0 THEN 0 ELSE offset[m - 1] + KindWidth(layout[m].kind)
  IN  offset[n - 1]

MapWidth(layout) == EntryOffset(layout, Len(layout) + 1)

UnpackEntry(kind, block, offset) ==
  LET buf == SubSeq(block, offset + 1, offset + KindWidth(kind)) IN
  CASE kind = "scalar"  -> buf[1]
    [] kind = "stress"  -> StressFromBuffer(buf)
    [] kind = "strain"  -> StrainFromBuffer(buf)
    [] kind = "tangent" -> TangentFromBuffer(buf)

PackEntry(kind, value) ==
  CASE kind = "scalar"  -> <<value>>
    [] kind = "stress"  -> StressToBuffer(value)
    [] kind = "strain"  -> StrainToBuffer(value)
    [] kind = "tangent" -> TangentToBuffer(value)

RotateEntry(kind, value, R) ==
  CASE kind = "scalar" -> value
    [] kind \in {"stress", "strain"} -> Rotate2(value, R)
    [] kind = "tangent" -> Rotate4(value, R)

\* The skew part has no slot (require_symmetric, require_minor_symmetric).
Storable(kind, value) ==
  /\ kind \in {"stress", "strain"} => \A p \in Tensor2 : value[p] = value[<<p[2], p[1]>>]
  /\ kind = "tangent" => \A q \in Tensor4 :
       /\ value[q] = value[<<q[2], q[1], q[3], q[4]>>]
       /\ value[q] = value[<<q[1], q[2], q[4], q[3]>>]

EntryOf(layout, id) == CHOOSE n \in DOMAIN layout : layout[n].id = id

UnpackHistory(layout, block) ==
  [id \in {layout[n].id : n \in DOMAIN layout} |->
     LET n == EntryOf(layout, id)
     IN  UnpackEntry(layout[n].kind, block, EntryOffset(layout, n))]

\* pack(): up to the first entry that cannot be stored.
PackHistory(layout, block, hist) ==
  LET packed == {n \in DOMAIN layout : \A m \in 1 .. n : Storable(layout[m].kind, hist[layout[m].id])}
      slots(n) == PackEntry(layout[n].kind, hist[layout[n].id])
      inEntry(k, n) == k - EntryOffset(layout, n) \in 1 .. KindWidth(layout[n].kind)
  IN  [k \in DOMAIN block |->
         IF \E n \in packed : inEntry(k, n)
         THEN LET n == CHOOSE n \in packed : inEntry(k, n) IN slots(n)[k - EntryOffset(layout, n)]
         ELSE block[k]]

AllStorable(layout, hist) ==
  \A n \in DOMAIN layout : Storable(layout[n].kind, hist[layout[n].id])

RotateHistory(layout, hist, drot) ==
  LET R == RotationFromBuffer(drot) IN
  IF R = Identity THEN hist
  ELSE [id \in DOMAIN hist |-> RotateEntry(layout[EntryOf(layout, id)].kind, hist[id], R)]

-----------------------------------------------------------------------------
(***************************************************************************)
(* The material of a deck d, from the history h and the strains e0 and e1. *)
(***************************************************************************)
Stiffness(d) == TangentFromBuffer(d.stiffness)

Contract(C, e) ==
  [p \in Tensor2 |->
     SumOver([r \in Axis |-> SumOver([s \in Axis |-> C[<<p[1], p[2], r, s>>] * e[<<r, s>>]])])]

Grows(kind, value, sigma, step, rate) ==
  CASE kind = "scalar"  -> value + 1
    [] kind = "stress"  -> AddTo(value, sigma)
    [] kind = "strain"  -> AddTo(value, step)
    [] kind = "tangent" -> AddTo(value, rate)

\* A material whose tensors are skewed writes one that is not symmetric.
Responds(d, h, e0, e1) ==
  LET sigma == Contract(Stiffness(d), e1)
      step  == [p \in Tensor2 |-> e1[p] - e0[p] + IF d.skewed /\ p = <<1, 2>> THEN 1 ELSE 0]
      rate  == [q \in Tensor4 |-> Stiffness(d)[q] + IF d.skewed /\ q = <<1, 2, 1, 1>> THEN 1 ELSE 0]
  IN  [hist |-> [id \in DOMAIN h |-> Grows(KindOf(d, id), h[id], sigma, step, rate)], stress |-> sigma]

-----------------------------------------------------------------------------
(***************************************************************************)
(* A call.  The load l is what the host passes: order is that of execution *)
(* in this process.                                                        *)
(***************************************************************************)
\* evaluate_canonical: STATEV is read, and not written.
EvaluateCanonical(d, l, block, old6, new6) ==
  LET layout == Layout(d, l.order)
      hist   == RotateHistory(layout, UnpackHistory(layout, block), l.drot)
      answer == Responds(d, hist, StrainFromBuffer(old6), StrainFromBuffer(new6))
  IN  [hist |-> answer.hist, stress6 |-> StressToBuffer(answer.stress),
       tangent36 |-> TangentToBuffer(Stiffness(d))]

Refused(g) == {[end |-> "refused", graph |-> [g EXCEPT !.stress = 0, !.tangent = 0]]}
CutBack(g) == {[end |-> "cutback", graph |-> [g EXCEPT !.stress = 0, !.tangent = 0]]}

\* What is written at the end of a call that succeeds; block is STATEV.
StoreArrays(d, l, g, ec, block, answer) ==
  LET layout == Layout(d, l.order)
      packed == PackHistory(layout, block, answer.hist)
  IN  IF ~AllStorable(layout, answer.hist) THEN Refused([g EXCEPT !.hist.statev = packed])
      ELSE {[end |-> "returned",
             graph |-> [g EXCEPT !.hist.statev = packed,
                                 !.stress = NarrowVector(answer.stress6, ec),
                                 !.tangent = NarrowMatrix(answer.tangent36, ec)]]}

EndArray(l) == [k \in DOMAIN l.stran |-> l.stran[k] + l.dstran[k]]

\* material_point_evaluator::evaluate.
SolidCall(d, l, g, ec, block) ==
  IF Len(block) < MapWidth(Layout(d, l.order)) THEN Refused(g)
  ELSE StoreArrays(d, l, g, ec, block,
         EvaluateCanonical(d, l, block, WidenVector(l.stran, ec, 0), WidenVector(EndArray(l), ec, 0)))

OutOfPlaneRotation(drot) ==
  LET R == RotationFromBuffer(drot)
  IN  \E k \in {1, 2} : R[<<3, k>>] # 0 \/ R[<<k, 3>>] # 0

\* plane_stress_evaluator::evaluate; the out-of-plane strain follows the histories.
PlaneStressCall(d, l, g, block) ==
  LET slot  == MapWidth(Layout(d, l.order)) + 1
      old6  == WidenVector(l.stran, "plane_stress", block[slot])
      trial(e) == EvaluateCanonical(d, l, block, old6, WidenVector(EndArray(l), "plane_stress", e))
      c33   == At(d.stiffness, 3, 3)
      iterate[n \in 0 .. d.maxIter - 1] ==
        IF n = 0 THEN block[slot]
        ELSE LET e == iterate[n - 1] IN e - trial(e).stress6[3] \div c33
      solved(n) == trial(iterate[n]).stress6[3] = 0
      done == {n \in 0 .. d.maxIter - 1 : solved(n)}
      last == CHOOSE n \in done : \A m \in done : n <= m
      stored(out) == IF out.end = "returned"
                     THEN [out EXCEPT !.graph.hist.statev[slot] = iterate[last]] ELSE out
  IN  IF Len(block) < slot \/ OutOfPlaneRotation(l.drot) THEN Refused(g)
      ELSE IF c33 = 0 \/ done = {} THEN CutBack(g)
      ELSE {stored(out) : out \in StoreArrays(d, l, g, "plane_stress", block, trial(iterate[last]))}

\* The start of the block of an integration point in the state array of CalculiX.
PointOffset(d, l) == d.nstatv * ((l.iint - 1) + d.mi1 * (l.iel - 1))

Located(d, l) == d.nstatv > 0 => l.iel >= 1 /\ l.iint \in 1 .. d.mi1

Block(d, l, statev) ==
  SubSeq(statev, PointOffset(d, l) + 1, PointOffset(d, l) + d.nstatv)

Overwritten(d, l, statev, block) ==
  [k \in DOMAIN statev |-> IF k - PointOffset(d, l) \in DOMAIN block
                           THEN block[k - PointOffset(d, l)] ELSE statev[k]]

\* The strains of CalculiX are tensor components: emec0 at the start and emec at the end.
ToEngineering(emec) == [k \in 1 .. 6 |-> IF IsShear(k) THEN 2 * emec[k] ELSE emec[k]]

\* stiff(21): the upper triangle column by column of the symmetric part, here twice that.
PackedStiffness(ddsdde) ==
  LET column(n) == CHOOSE j \in 0 .. 5 : (j * (j + 1)) \div 2 < n /\ n <= ((j + 1) * (j + 2)) \div 2
  IN  [n \in 1 .. 21 |->
         LET j == column(n)
             i == n - 1 - (j * (j + 1)) \div 2
         IN  ddsdde[i + j * 6 + 1] + ddsdde[j + i * 6 + 1]]

Unsupported(l) == l.ielas \/ l.iorien \/ l.beta

\* calculix_dispatch: the state is read in one array and written to another, which the
\* host has filled with the former.
CalculixCall(d, l, g) ==
  IF Unsupported(l) \/ ~Located(d, l) THEN Refused(g)
  ELSE LET stran == ToEngineering(l.emec0)
           arrays == [order |-> l.order, drot |-> NoRotation, stran |-> stran,
                      dstran |-> [k \in 1 .. 6 |-> ToEngineering(l.emec)[k] - stran[k]]]
           whole(out) ==
             [out EXCEPT !.graph.hist.statev =
                           Overwritten(d, l, g.hist.statev, out.graph.hist.statev),
                         !.graph.tangent = IF out.end # "returned" \/ l.stressOnly THEN 0
                                           ELSE PackedStiffness(out.graph.tangent)]
           block == Block(d, l, g.hist.statev)
       IN  {whole(out) : out \in SolidCall(d, arrays, [g EXCEPT !.hist.statev = block], "solid3d", block)}

ArrayCall(d, l, g) ==
  CASE d.family = "calculix"     -> CalculixCall(d, l, g)
    [] d.family = "plane_stress" -> PlaneStressCall(d, l, g, g.hist.statev)
    [] d.family \in {"solid3d", "plane_strain"} -> SolidCall(d, l, g, d.family, g.hist.statev)

-----------------------------------------------------------------------------
(***************************************************************************)
(* What the host relies on: hist.held has what the material has stored for *)
(* each integration point, and hist.out its strain out of the plane.       *)
(***************************************************************************)
Places(d) == (1 .. d.mi1) \X (1 .. d.elements)
Zero(kind) ==
  CASE kind = "scalar" -> 0
    [] kind \in {"stress", "strain"} -> Nothing(Tensor2)
    [] kind = "tangent" -> Nothing(Tensor4)

Hosted(d) == {h \in d.histories : h.id \notin d.exclusions}

StartArrays(d) ==
  [statev |-> [k \in 1 .. d.nstatv * d.mi1 * d.elements |-> 0],
   held   |-> [p \in Places(d) |-> [id \in {h.id : h \in Hosted(d)} |-> Zero(KindOf(d, id))]],
   out    |-> 0]

\* The components a host has, and the tensor its array stands for.
HostComponents(family) ==
  CASE family \in {"solid3d", "calculix"} ->
         <<<<1, 1>>, <<2, 2>>, <<3, 3>>, <<1, 2>>, <<1, 3>>, <<2, 3>>>>
    [] family = "plane_strain" -> <<<<1, 1>>, <<2, 2>>, <<3, 3>>, <<1, 2>>>>
    [] family = "plane_stress" -> <<<<1, 1>>, <<2, 2>>, <<1, 2>>>>

\* The decks and the loads of a host; CalculiX passes elements it has.
HostLoad(d, l) ==
  IF d.family = "calculix"
  THEN /\ l.emec0 \in [1 .. 6 -> Int] /\ l.emec \in [1 .. 6 -> Int]
       /\ l.iint \in Int /\ l.iel \in Int /\ l.iel <= d.elements
       /\ d.nstatv = 0 => <<l.iint, l.iel>> \in Places(d)
  ELSE /\ l.stran \in [1 .. Len(HostComponents(d.family)) -> Int]
       /\ l.dstran \in [1 .. Len(HostComponents(d.family)) -> Int]
       /\ l.drot \in [1 .. 9 -> Int]

ArrayParameters(d) ==
  /\ d.family \in {"solid3d", "plane_strain", "plane_stress", "calculix"}
  /\ d.nstatv \in Nat /\ d.mi1 \in Nat \ {0} /\ d.elements \in Nat \ {0} /\ d.maxIter \in Nat
  /\ d.family # "calculix" => d.mi1 = 1 /\ d.elements = 1
  /\ d.stiffness \in [1 .. 36 -> Int]
  /\ \A l \in d.loads : IsOrderOf(d, l.order) /\ HostLoad(d, l)

Sorted(p) == IF p[1] <= p[2] THEN p ELSE <<p[2], p[1]>>

StrainOf(host, family, out) ==
  LET components == HostComponents(family)
      index(p) == CHOOSE n \in DOMAIN components : components[n] = Sorted(p)
  IN  [p \in Tensor2 |->
         IF \E n \in DOMAIN components : components[n] = Sorted(p)
         THEN IF p[1] # p[2] /\ family # "calculix" THEN host[index(p)] \div 2 ELSE host[index(p)]
         ELSE IF p = <<3, 3>> THEN out ELSE 0]

PlaceOf(d, l) == IF d.family = "calculix" THEN <<l.iint, l.iel>> ELSE <<1, 1>>
StartStrain(d, o, l) ==
  IF d.family = "calculix" THEN StrainOf(l.emec0, d.family, 0) ELSE StrainOf(l.stran, d.family, o.out)
EndStrain(d, l, out) ==
  IF d.family = "calculix" THEN StrainOf(l.emec, d.family, 0) ELSE StrainOf(EndArray(l), d.family, out)

\* The strain out of the plane that leaves no stress there.
Relaxed(d, e) ==
  IF d.family = "plane_stress"
  THEN [e EXCEPT ![<<3, 3>>] = @ - (Contract(Stiffness(d), e)[<<3, 3>>] \div Stiffness(d)[<<3, 3, 3, 3>>])]
  ELSE e

Turned(d, l, held) ==
  LET R == [p \in Tensor2 |-> IF d.family = "calculix" THEN Identity[p] ELSE l.drot[p[1] + 3 * (p[2] - 1)]]
  IN  [id \in DOMAIN held |-> RotateEntry(KindOf(d, id), held[id], R)]

\* What a call makes of o at its point.
Meant(d, o, l) ==
  LET e1 == Relaxed(d, EndStrain(d, l, 0))
      p  == PlaceOf(d, l)
  IN  [o EXCEPT !.held[p] = Responds(d, Turned(d, l, @), StartStrain(d, o, l), e1).hist,
                !.out = IF d.family = "plane_stress" THEN e1[<<3, 3>>] ELSE 0]

\* The call, with what it means.
ArrayCompute(d, o, g, l) ==
  {IF out.end = "returned"
   THEN [out EXCEPT !.graph.hist.held = Meant(d, o, l).held, !.graph.hist.out = Meant(d, o, l).out]
   ELSE out : out \in ArrayCall(d, l, g)}

BlockAt(d, p, statev) ==
  Block(d, [iint |-> p[1], iel |-> p[2]], statev)

\* In every process, and at every point, the state array has what is held.
StateIsHeld(d, hist) ==
  \A l \in d.loads : \A p \in Places(d) :
    LET layout == Layout(d, l.order)
        block  == BlockAt(d, p, hist.statev)
    IN  /\ UnpackHistory(layout, block) = hist.held[p]
        /\ d.family = "plane_stress" => block[MapWidth(layout) + 1] = hist.out

\* Twice a strain of one engineering component.
Probe(family, n) ==
  LET c == HostComponents(family)[n]
  IN  [p \in Tensor2 |-> IF Sorted(p) # c THEN 0 ELSE IF c[1] = c[2] THEN 2 ELSE 1]

\* The host's matrix gives the stress that a strain of the host causes; that of CalculiX
\* the symmetric part.
TangentIsOf(d, l, tangent) ==
  LET components == HostComponents(d.family)
      n == Len(components)
      response(b) == Contract(Stiffness(d), Relaxed(d, Probe(d.family, b)))
  IN  IF d.family = "calculix"
      THEN l.stressOnly \/ \A j \in 1 .. 6 : \A i \in 1 .. j :
             2 * tangent[i + (j * (j - 1)) \div 2]
               = response(j)[components[i]] + response(i)[components[j]]
      ELSE \A a, b \in 1 .. n : 2 * tangent[a + n * (b - 1)] = response(b)[components[a]]

CarryTensors(d, o, l, g) ==
  /\ StateIsHeld(d, g.hist)
  /\ LET sigma == Responds(d, Turned(d, l, o.held[PlaceOf(d, l)]), StartStrain(d, o, l),
                           EndStrain(d, l, g.hist.out)).stress
     IN  \A n \in DOMAIN g.stress : g.stress[n] = sigma[HostComponents(d.family)[n]]
  /\ TangentIsOf(d, l, g.tangent)
=============================================================================
