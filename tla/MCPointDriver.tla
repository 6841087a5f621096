--------------------------- MODULE MCPointDriver ---------------------------
\* A case of four steps: unloaded, strain controlled, stress controlled and back;
\* a check is due after the third.
EXTENDS PointDriver

MCStrain == 0 .. 1
MCPerturbed(e, d) == IF d > 0 THEN 2 + e ELSE 4 + e
MCLoad == 0 .. 5
MCProbe == <<1, -1>>
MCPath == <<[target |-> 0, stressed |-> FALSE],
            [target |-> 1, stressed |-> FALSE],
            [target |-> 0, stressed |-> TRUE],
            [target |-> 0, stressed |-> FALSE]>>
=============================================================================
