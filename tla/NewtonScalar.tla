---------------------------- MODULE NewtonScalar ----------------------------
(***************************************************************************)
(* The scalar Newton iteration the local solvers share, as the set of its  *)
(* results.                                                                *)
(*                                                                         *)
(* A residual and its derivative are functions on Grid; a residual below   *)
(* the tolerance is 0 and so is a derivative that vanishes.  An iterate is *)
(* rounded to the grid, to either side of where the step leads.            *)
(***************************************************************************)
EXTENDS Integers

CONSTANTS
  Grid,     \* bound: the values of an iterate
  MaxIter   \* max_iter

ASSUME NewtonAssumption == Grid \subseteq Int /\ 0 \in Grid /\ MaxIter \in Nat \ {0}

Abs(a) == IF a < 0 THEN -a ELSE a
AtMost(a, b) == IF a < b THEN a ELSE b
AtLeast(a, b) == IF a < b THEN b ELSE a

Step(x, r, j) == {y \in Grid : Abs((x - y) * j - r) < Abs(j)}

\* at[n]: what the n-th evaluation may be at, the first one being at x0.
Evaluated(R, J, x0) ==
  LET at[n \in 1 .. MaxIter + 1] ==
        IF n = 1 THEN {x0}
        ELSE UNION {Step(x, R[x], J[x]) : x \in {x \in at[n - 1] : R[x] # 0 /\ J[x] # 0}}
  IN at

\* It stops at a root and where the derivative vanishes.  After max_iter steps it looks
\* once more, which is not counted.
Solve(R, J, x0) ==
  LET at == Evaluated(R, J, x0)
  IN UNION {{[x |-> x, converged |-> R[x] = 0, iterations |-> AtMost(n, MaxIter)] :
               x \in {x \in at[n] \cap Grid : n > MaxIter \/ R[x] = 0 \/ J[x] = 0}} :
              n \in 1 .. MaxIter + 1}
=============================================================================
