---------------------------- MODULE VectorNewton ----------------------------
(***************************************************************************)
(* vector_newton driving a function material of two unknowns, one number   *)
(* each, as the set of the states solve() can leave it in.                 *)
(*                                                                         *)
(* R[x] and J[x] are what the function material publishes at iterate x:    *)
(* <<first, second>> and <<row, row>>, scaled so that a residual below the *)
(* tolerance is 0.  An iterate is rounded as in NewtonScalar.              *)
(***************************************************************************)
EXTENDS NewtonScalar

Iterate == Grid \X Grid
Seed == <<0, 0>>

\* x: the unknowns as published; lu: where J was last factorized; de: where their
\* strain derivative was solved, or None where it is zero.  Both keep the data of the
\* evaluation, so that one of another evaluation differs.
None == <<>>
Fresh == [x |-> Seed, converged |-> FALSE, lu |-> None, de |-> None]

Det(J) == J[1][1] * J[2][2] - J[1][2] * J[2][1]

\* m_x -= J^-1 R, by Cramer's rule.
StepFrom(x, R, J) ==
  LET near(i, n) == {y \in Grid : Abs((x[i] - y) * Det(J) - n) < Abs(Det(J))}
  IN near(1, R[1] * J[2][2] - J[1][2] * R[2]) \X near(2, J[1][1] * R[2] - R[1] * J[2][1])

\* at[n]: what the n-th evaluation may be at.  A singular J leaves no finite step.
IteratesOf(R, J) ==
  LET at[n \in 1 .. MaxIter + 1] ==
        IF n = 1 THEN {Seed}
        ELSE UNION {StepFrom(x, R[x], J[x]) : x \in {x \in at[n - 1] : R[x] # Seed}}
  IN at

\* solve(): it stops at a root, factorized there; at a singular J; or after max_iter
\* steps, the factorization then being one iterate behind.
Solved(v, R, J, data) ==
  LET at == IteratesOf(R, J)
      before == UNION {at[n] : n \in 1 .. MaxIter}
      roots == {x \in (before \cup at[MaxIter + 1]) \cap Iterate : R[x] = Seed}
      stuck == {x \in before : R[x] # Seed /\ Det(J[x]) = 0}
      spent == {xy \in at[MaxIter] \X at[MaxIter + 1] :
                  /\ R[xy[1]] # Seed /\ R[xy[2]] # Seed
                  /\ xy[2] \in StepFrom(xy[1], R[xy[1]], J[xy[1]])}
  IN {[x |-> x, converged |-> TRUE, lu |-> <<data, x>>, de |-> <<data, x>>] : x \in roots}
     \cup {[v EXCEPT !.x = x, !.converged = FALSE, !.lu = <<data, x>>] : x \in stuck}
     \cup {[v EXCEPT !.x = xy[2], !.converged = FALSE, !.lu = <<data, xy[1]>>] : xy \in spent}

\* A mutant of Reset: the derivative stays, too.
ResetUnknowns(v) == [v EXCEPT !.x = Seed, !.converged = FALSE]

\* reset(): the zero unknowns, with a zero derivative; the factorization stays.
Reset(v) == [v EXCEPT !.x = Seed, !.converged = FALSE, !.de = None]

\* solve_with_factorization() answers only after a converged solve.
Factorized(v) == v.converged
=============================================================================
