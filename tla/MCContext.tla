----------------------------- MODULE MCContext -----------------------------
\* A stepper and a solid that reads it and references a solver, with what may go wrong
\* in writing them down: a constructor that throws, another size, another type, a loop.
\* update_property() runs all a property needs, or leaves out the stepper.
EXTENDS MaterialContext, TLC

Plain(name, type) ==
  [name |-> name, type |-> type, outputs |-> <<>>, inputs |-> <<>>, refs |-> {},
   adds |-> FALSE, orphan |-> FALSE, throws |-> "never"]

Stepper == [Plain("step", "stepper") EXCEPT !.outputs = "state" :> 1, !.adds = TRUE]
Newton == Plain("solver", "newton")
Solid ==
  [Plain("solid", "solid") EXCEPT !.outputs = ("kappa" :> 1) @@ ("stress" :> 0),
     !.inputs = <<[owner |-> "step", output |-> "state"]>>,
     !.refs = {[name |-> "solver", type |-> "newton"]}]

MCExcludes == {{}, {"step"}}

MCBlueprint == {
  Stepper, Newton, Solid,
  [Plain("solver", "euler") EXCEPT !.orphan = TRUE],
  [Stepper EXCEPT !.inputs = <<[owner |-> "solid", output |-> "kappa"]>>],
  [Solid EXCEPT !.outputs = ("kappa" :> 2) @@ ("stress" :> 0), !.refs = {}],
  [Solid EXCEPT !.throws = "at its parameters"],
  [Solid EXCEPT !.throws = "after its outputs"],
  [Solid EXCEPT !.throws = "after its callbacks"]}
=============================================================================
