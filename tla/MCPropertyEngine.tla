-------------------------- MODULE MCPropertyEngine --------------------------
(***************************************************************************)
(* A small finalized graph for TLC:                                        *)
(*                                                                         *)
(*   parameter p     -> 1 stiffness (constant, runs once)                  *)
(*   p, 1            -> 2 fraction (constant, but its callback also fills  *)
(*                      a varying output: it stays in the loop)            *)
(*   1, 2            -> 3 compliance (constant, runs once; 1 and 2 are of   *)
(*                      one material, so verifying 1 looks at both)        *)
(*   x, 3, accepted 4 -> 4 state (history)                                 *)
(*   1, 4, x         -> 5 stress (throws for one combination of reads)     *)
(*                                                                         *)
(* and, when HasChecker, 6 the checker of 5 with respect to PerturbedInput. *)
(***************************************************************************)
EXTENDS PropertyEngine, FiniteSetsExt

CONSTANTS p, x, Modulus, HasChecker, PerturbedInput, RoutedInput, RevertedHistories

MCN         == IF HasChecker THEN 6 ELSE 5
MCParameter == {p}
MCExternal  == {x}
MCHistory   == {4}
MCReads     == [c \in 1..MCN |->
                  CASE c = 1 -> {p}
                    [] c = 2 -> {p, 1}
                    [] c = 3 -> {1, 2}
                    [] c = 4 -> {x, 3}
                    [] c = 5 -> {1, 4, x}
                    [] c = 6 -> {PerturbedInput, 5}]
MCOldReads  == [c \in 1..MCN |-> IF c = 4 THEN {4} ELSE {}]
MCConstant  == {1, 2, 3}
MCOnce      == {1, 3}
MCChecker   == IF HasChecker THEN {6} ELSE {}
MCTarget    == [k \in MCChecker |-> 5]
MCInput     == [k \in MCChecker |-> PerturbedInput]
MCRouted    == IF RoutedInput THEN MCChecker ELSE {}
MCHistSrc   == [k \in MCChecker |-> RevertedHistories]
MCChecks    == [c \in MCOnce |-> IF c = 1 THEN {1, 2} ELSE {c}]
MCValue     == 0..(Modulus - 1)

Sum(f) == MapThenSumSet(LAMBDA i : f[i], DOMAIN f)

MCCompute(c, r, o) == (c + Sum(r) + Sum(o)) % Modulus
MCFails(c, r, o) == c = 5 /\ Sum(r) = 2 * (Modulus - 1)

\* The host writes the parameter and one constant, or anything.
FewWrites == {p, 1}

\* The host excludes nothing, or one varying callback; or a constant one.
NoExclusion       == {{}}
VaryingExclusion  == {{}, {4}}
ConstantExclusion == {{}, {1}}
=============================================================================
