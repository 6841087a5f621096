--------------------------- MODULE UnknownLayout ---------------------------
(***************************************************************************)
(* The flat system of a vector_newton (solvers/unknown_layout.h and the    *)
(* wiring in solvers/vector_newton.h): unknowns, residual and jacobian of  *)
(* a material are scalars and symmetric tensors, reached by the names of   *)
(* properties, and the solver works on one column-major matrix of numbers. *)
(*                                                                         *)
(* A tensor is stored in Mandel form: the shear components once, times the *)
(* square root of two.  A number p + q * sqrt(2) is a pair <<p, q>>, a     *)
(* name the sequence of its parts between underscores.                     *)
(*                                                                         *)
(* A system is the list of its unknowns, the pairs declared zero blocks,   *)
(* and whether these are verified.                                         *)
(***************************************************************************)
EXTENDS Integers, Sequences, FiniteSets, SequencesExt

CONSTANT Dim   \* of space

ASSUME LayoutAssumption == Dim \in {2, 3}

Plus(u, v)  == <<u[1] + v[1], u[2] + v[2]>>
Times(u, v) == <<u[1] * v[1] + 2 * u[2] * v[2], u[1] * v[2] + u[2] * v[1]>>
Number(n) == <<n, 0>>
Root2 == <<0, 1>>

\* The sums of the n values of f, numbers and integers; they begin at 0.
SumOf(f, n) ==
  LET sum[k \in 0 .. n] == IF k = 0 THEN Number(0) ELSE Plus(sum[k - 1], f[k - 1]) IN sum[n]

IntegerSum(f, n) ==
  LET sum[k \in 0 .. n] == IF k = 0 THEN 0 ELSE sum[k - 1] + f[k - 1] IN sum[n]

Kind == {"scalar", "tensor"}

Width(kind) == IF kind = "scalar" THEN 1 ELSE (Dim * (Dim + 1)) \div 2

\* The components of a kind, the normal ones of a tensor first.
Components(kind) == 0 .. Width(kind) - 1
Shear(kind, a) == kind = "tensor" /\ a >= Dim

\* How often a component takes part in a contraction.
Weight(kind, a) == IF Shear(kind, a) THEN 2 ELSE 1

-----------------------------------------------------------------------------
(***************************************************************************)
(* A block has a row kind and a column kind; a scalar or tensor is a block *)
(* of one column.                                                          *)
(***************************************************************************)
Factor(kind, a) == IF Shear(kind, a) THEN Root2 ELSE Number(1)

\* pack: row-major.
Pack(rows, cols, B) ==
  [k \in 0 .. Width(rows) * Width(cols) - 1 |->
     LET a == k \div Width(cols)
         b == k % Width(cols)
     IN  Times(Number(B[<<a, b>>]), Times(Factor(rows, a), Factor(cols, b)))]

\* unpack2 and unpack4, of what pack produces.
Unpack(rows, cols, buf) ==
  [p \in Components(rows) \X Components(cols) |->
     LET v == buf[p[1] * Width(cols) + p[2]]
     IN  CASE Shear(rows, p[1]) # Shear(cols, p[2]) -> v[2]
           [] Shear(rows, p[1]) /\ Shear(cols, p[2]) -> v[1] \div 2
           [] ~Shear(rows, p[1]) /\ ~Shear(cols, p[2]) -> v[1]]

\* Mutant: the block of two tensors is copied as it lies there.
GatherRowMajor(M, ld, r0, c0, rows, cols, B) ==
  [n \in DOMAIN M |->
     LET a == (n % ld) - r0
         b == (n \div ld) - c0
     IN  IF a \in Components(rows) /\ b \in Components(cols)
         THEN Pack(rows, cols, B)[a + b * Width(rows)] ELSE M[n]]

\* gather: into the column-major M of leading dimension ld, at row r0 and column c0.
Gather(M, ld, r0, c0, rows, cols, B) ==
  [n \in DOMAIN M |->
     LET a == (n % ld) - r0
         b == (n \div ld) - c0
     IN  IF a \in Components(rows) /\ b \in Components(cols)
         THEN Pack(rows, cols, B)[a * Width(cols) + b] ELSE M[n]]

\* scatter and scatter_block: out of it.
Scatter(M, ld, r0, c0, rows, cols) ==
  Unpack(rows, cols,
    [k \in 0 .. Width(rows) * Width(cols) - 1 |->
       M[r0 + (k \div Width(cols)) + (c0 + (k % Width(cols))) * ld]])

-----------------------------------------------------------------------------
(***************************************************************************)
(* The wiring of a system u of unknowns.                                   *)
(***************************************************************************)
Systems ==
  [unknowns : Seq([name : Seq(STRING), kind : Kind]), zeros : SUBSET (Seq(STRING) \X Seq(STRING)),
   verify : BOOLEAN]

JacobianName(n, m) == <<"jacobian">> \o n \o m
DerivativeName(n) == <<"d">> \o n \o <<"d", "strain">>

UnknownNames(u) == {u[i].name : i \in DOMAIN u}
Blocks(u) == (DOMAIN u) \X (DOMAIN u)

\* The function material is asked for one property by the name of each block; only these
\* names can coincide when those of the unknowns are distinct.
BlockNamesDiffer(u) ==
  \A i, j, k, l \in DOMAIN u :
    JacobianName(u[i].name, u[j].name) = JacobianName(u[k].name, u[l].name) => i = k /\ j = l

\* What the constructor refuses.
CheckNames(u, zeros, derivative) ==
  /\ u # <<>> /\ \A i \in DOMAIN u : u[i].name # <<>>
  /\ Cardinality(UnknownNames(u)) = Len(u)
  /\ BlockNamesDiffer(u)
  /\ derivative => \A i, j \in DOMAIN u : u[i].name # DerivativeName(u[j].name)
  /\ zeros \subseteq UnknownNames(u) \X UnknownNames(u)

\* Blocks declared zero are wired only to be verified.
Wired(s) ==
  {ij \in Blocks(s.unknowns) :
     s.verify \/ <<s.unknowns[ij[1]].name, s.unknowns[ij[2]].name>> \notin s.zeros}

ZeroBlocks(s) ==
  {ij \in Blocks(s.unknowns) :
     <<s.unknowns[ij[1]].name, s.unknowns[ij[2]].name>> \in s.zeros}

-----------------------------------------------------------------------------
(***************************************************************************)
(* The flat system.  published maps the names of blocks to their values.   *)
(***************************************************************************)
\* Where the unknown i begins, and with i = Len(u) + 1 the size of the system.
Offset(u, i) == IntegerSum([k \in 0 .. i - 2 |-> Width(u[k + 1].kind)], i - 1)

Size(u) == Offset(u, Len(u) + 1)

Zeros(rows, columns) == [n \in 0 .. rows * columns - 1 |-> Number(0)]

BlockOf(u, published, ij) == published[JacobianName(u[ij[1]].name, u[ij[2]].name)]

\* The blocks of n unknowns, row by row.
NthBlock(n, k) == <<((k - 1) \div n) + 1, ((k - 1) % n) + 1>>

\* gather_jacobian, but for the verification.
GatherJacobian(s, published) ==
  LET u == s.unknowns
      n == Len(u)
      N == Size(u)
      add(M, ij) == Gather(M, N, Offset(u, ij[1]), Offset(u, ij[2]), u[ij[1]].kind, u[ij[2]].kind,
                           BlockOf(u, published, ij))
      matrix[k \in 0 .. n * n] ==
        IF k = 0 THEN Zeros(N, N)
        ELSE IF NthBlock(n, k) \in Wired(s) THEN add(matrix[k - 1], NthBlock(n, k)) ELSE matrix[k - 1]
  IN  matrix[n * n]

\* verify_zero_blocks: throws.
VerifyThrows(s, published) ==
  s.verify /\ \E ij \in ZeroBlocks(s) : Range(BlockOf(s.unknowns, published, ij)) # {0}

\* The unknowns, their residuals (columns of a scalar kind) and their derivatives by the
\* strain (of a tensor kind), one below the other.
GatherColumns(u, kind, X) ==
  LET columns[i \in 0 .. Len(u)] ==
        IF i = 0 THEN Zeros(Size(u), Width(kind))
        ELSE Gather(columns[i - 1], Size(u), Offset(u, i), 0, u[i].kind, kind, X[i])
  IN  columns[Len(u)]

ScatterColumns(u, kind, M) ==
  [i \in DOMAIN u |-> Scatter(M, Size(u), Offset(u, i), 0, u[i].kind, kind)]

\* The material has one property of a name, whichever of its blocks that is.
Published(u, J) ==
  LET named(n) == {ij \in DOMAIN J : JacobianName(u[ij[1]].name, u[ij[2]].name) = n}
  IN  [n \in {JacobianName(u[i].name, u[j].name) : i, j \in DOMAIN u} |->
         J[CHOOSE ij \in named(n) : TRUE]]

UnitBlock(rows, cols, p) == [q \in Components(rows) \X Components(cols) |-> IF q = p THEN 1 ELSE 0]
ZeroBlock(rows, cols) == [q \in Components(rows) \X Components(cols) |-> 0]

\* The jacobian with a one at component p of its block ij; the packing is linear.
UnitJacobian(u, ij, p) ==
  [kl \in Blocks(u) |-> IF kl = ij THEN UnitBlock(u[ij[1]].kind, u[ij[2]].kind, p)
                        ELSE ZeroBlock(u[kl[1]].kind, u[kl[2]].kind)]

Entries(u) ==
  UNION {{ij} \X (Components(u[ij[1]].kind) \X Components(u[ij[2]].kind)) : ij \in Blocks(u)}

\* One evaluation of the function material, whose jacobian is J, and what the solver has
\* then: m_J.  There is no history.
SystemCompute(s, g, J) ==
  LET published == Published(s.unknowns, J) IN
  IF VerifyThrows(s, published) THEN {[end |-> "refused", graph |-> g]}
  ELSE {[end |-> "returned", graph |-> [g EXCEPT !.solver = GatherJacobian(s, published)]]}

-----------------------------------------------------------------------------
(***************************************************************************)
(* What the solver relies on.                                              *)
(***************************************************************************)
Product(A, B, n, columns) ==
  [k \in 0 .. n * columns - 1 |->
     SumOf([l \in 0 .. n - 1 |-> Times(A[(k % n) + l * n], B[l + (k \div n) * n])], n)]

\* The block B of two kinds, applied to the block X of the second: a contraction.
Contracted(kind, B, X, a, b) ==
  IntegerSum([c \in Components(kind) |-> Weight(kind, c) * B[<<a, c>>] * X[<<c, b>>]], Width(kind))

\* The derivative J of a residual, applied to X.
Applied(u, kind, J, X) ==
  [i \in DOMAIN u |->
     [p \in Components(u[i].kind) \X Components(kind) |->
        IntegerSum([j \in 0 .. Len(u) - 1 |-> Contracted(u[j + 1].kind, J[<<i, j + 1>>], X[j + 1], p[1], p[2])],
              Len(u))]]

UnitColumns(u, kind) ==
  UNION {{[j \in DOMAIN u |-> IF j = i THEN UnitBlock(u[i].kind, kind, p) ELSE ZeroBlock(u[j].kind, kind)]
           : p \in Components(u[i].kind) \X Components(kind)}
         : i \in DOMAIN u}

\* A zero the solver may take on trust.
ZerosHold(s, J) == \A ij \in ZeroBlocks(s) : Range(J[ij]) = {0}

\* M is the jacobian J: what it does to unknowns and to their derivatives by the strain is
\* what the matrix does to their columns, and these come back as they were.
IsPacked(u, J, M) ==
  \A kind \in {"scalar", "tensor"} : \A X \in UnitColumns(u, kind) :
    /\ ScatterColumns(u, kind, GatherColumns(u, kind, X)) = X
    /\ Product(M, GatherColumns(u, kind, X), Size(u), Width(kind))
         = GatherColumns(u, kind, Applied(u, kind, J, X))
=============================================================================
