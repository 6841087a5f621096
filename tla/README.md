# numsim-materials: TLA+ models and proofs

Material models in numsim-materials are callbacks over a graph of named
properties.  A `material_context` owns the materials, sorts the properties once
(`finalize()`), runs the callbacks on every `update()`, and keeps two values of
every history property that `commit()` and `revert()` advance and roll back.
This project models that machinery (what an update computes, what it may leave
out, what is left when something throws), the materials of the library as users of
it, the local solves inside of them, and the layers through which a host drives them.

## The system's parts

| part | state | operations | what makes it hard |
|---|---|---|---|
| `core/property_engine.h`, running | `m_active`, `m_retired`, revision counter, `m_failed`, `m_running`, the property values | `update`, `update_property`, `commit`, `revert`, `fold_constants`, `verify_constants`, `get_mutable` | constants leave the loop and come back; an exception half way; partial updates; re-entry from a callback |
| `core/property_engine.h`, `build()` | edges, execution order, constant sets, upstream sets | one pass at `finalize()` | six kinds of edges, ties, cycles, undecided constants |
| `postprocessing/numerical_diff_checker.h` | a copy of the input, the progress of its trials | one callback that perturbs, re-evaluates, restores | runs inside the loop it disturbs, also on exceptions |
| `core/material_context.h`, `object_store.h` | finalized flag, materials | `create`, `finalize`, `save_state`, `load_state` | order of calls, partial restore |
| `core/material_interface.h`, `material_base.h` | declarations of one material | `add_*`, `reads`, `drives`, `set_parameter` | declarations are the only source of the edges |
| `driver/` | the host's state of one material point, step size | `evaluate`, `accept`, `reset`, `load_history`, `step`, `reject` | retries after a throw, derived values of a bound state |
| `umat/` | registry of models, one context per thread, STATEV | the Fortran and CalculiX entry points | threads, restart of every point from STATEV at every call |
| `solvers/`, the return maps of `materials/` | iterates, seed, convergence, factorization | `solve`, `reset`, `linearize` | failure, iteration limits, solves inside a callback, what the last solve left behind |
| `solvers/unknown_layout.h`, `umat/tensor_conversion.h`, `umat/statev_map.h` | offsets and slots | pack, gather, widen, narrow, rotate, load, store | conventions that differ by a factor or an order, columns that move |
| `report/`, `postprocessing/` recorders | rows, columns | `record_step`, runs of a load path | a retried step recorded twice or not at all |
| `materials/`, `mean_field/` | parameters; histories of the constitutive models | callbacks and their declarations | a declaration and the function it belongs to are written down apart |
| `io/`, tensor algebra, plotting | none to speak of | parsing; numerical kernels; output | numerical or I/O, without control |

The parts meet in the graph.  Materials declare outputs, reads and callbacks;
`build()` turns the declarations into an order; the engine runs it.  A host
(driver, UMAT, report runner) binds external values, calls `update()`, and
decides between `commit()` and `revert()`.  A solver re-runs the callbacks it
drives over local edges.  A checker calls back into the context that runs it.
`set_parameter()` and `get_mutable()` write next to the graph and bump a
revision counter that the engine compares when the next update starts.

## Modules

| module | models |
|---|---|
| `FinalizedGraph` | what `build()` leaves: cells, callbacks in their order, reads, constants; what it guarantees of them is the predicate `Finalized` |
| `PropertyGraph` | `FinalizedGraph` with the values, the upstream sets and the checker; it assumes `Finalized` |
| `PropertyEngine` | `property_engine` after `build()`, one step per callback, with `numerical_diff_checker` as a callback that re-enters it |
| `ReferenceEngine` | the abstract specification: an update is one evaluation of its callbacks, without constants or re-evaluation |
| `MCPropertyEngine` | a graph of five callbacks and an optional checker, for TLC |
| `PropertyEngineProofs` | the proofs about `PropertyEngine`, and that it implements `ReferenceEngine` |
| `ExecutionOrder` | `compute_execution_order` from the edges on, and `find_cycle` |
| `MCExecutionOrder` | its instance for TLC |
| `GraphBuild` | `build()`: the edges from what the materials declare, `ExecutionOrder` on them, `find_constants` |
| `MCGraphBuild`, `GraphBuildProofs` | small decks for TLC, and the proofs about `ExecutionOrder` on all graphs and `GraphBuild` on all decks |
| `MaterialPoint` | `material_point`: bind, evaluate with passes to a fixed point, reset, accept |
| `PointDriver` | the two material point drivers over `MaterialPoint`, and the load case of a report that calls them |
| `MCPointDriver`, `PointDriverProofs` | a case of four steps for TLC, and the proofs about all cases |
| `UmatContext` | the context a thread keeps for a material name, and what an evaluation does to it |
| `Umat` | the UMAT layer over `UmatContext`: concurrent calls from registry to return, and the host that makes them |
| `MCUmat`, `UmatProofs` | a solid and a plane stress point of one material for TLC, and the proofs about all meshes |
| `MaterialContext` | `material_context` and `object_store` from creation to checkpoint and restart |
| `DurableHistory` | the abstract specification: one history and one copy of it |
| `MCContext`, `MaterialContextProofs` | scripts of a stepper, a solid and a solver for TLC; the proofs, the refinement among them, about all scripts |
| `NewtonScalar`, `VectorNewton` | `newton_scalar` and `vector_newton` as sets of results |
| `ReturnMap`, `KinematicReturn` | `j2_plasticity`, `drucker_prager_plasticity` and their hardening; `j2_kinematic_plasticity` |
| `RungeKutta`, `Cure`, `Damage` | the tableaux with `j2_rk_plasticity` and `rk_integrator`; `backward_euler` with its reaction; `isotropic_damage` and its laws |
| `UnknownLayout` | the flat system of `vector_newton`: names, blocks, Mandel packing |
| `StateArrays` | `tensor_conversion.h`, `statev_map.h`, the evaluators on arrays, `calculix_dispatch` |
| `LayoutProofs` | the proofs about both layouts, of the flat system and of STATEV, and about a call through the arrays of a host |
| `LocalSolve`, `MCLocalSolve` | one of these materials, two points and a host; its decks for TLC |
| `LocalSolveProofs` | the proofs about every deck of them |
| `MaterialDeclarations` | what a callback declares next to what it does |
| `ElasticMaterials`, `InelasticMaterials`, `MeanFieldMaterials` | every material of the library in these terms |
| `MaterialLibrary`, `MCMaterialLibrary` | decks of them under the edges and constants of `GraphBuild`; the decks for TLC |
| `MaterialLibraryProofs` | the proofs about every deck whose declarations suffice, and that those of every wired deck of the library's materials do |

### PropertyEngine

A cell is whatever a callback reads: a parameter, a property bound by the host,
or the outputs one callback fills in (an `add_callback` group is one cell).
Callbacks are numbered in topological order.  `Compute` and `Fails` are
uninterpreted functions of the declared reads, so that every result holds for
every material model that respects its declaration.

| variable | code |
|---|---|
| `val`, `old` | the value of every property and parameter (the new value of a history); the old value of the histories |
| `active`, `retired` | `m_active`, `m_retired` (as sets: the order of `m_active` is that of the numbers) |
| `fold`, `verify`, `failed` | `m_fold`, `m_verify`, `m_failed` |
| `dirty` | `*m_revision != m_seen_revision`; the model keeps no counter, so it needs no bound |
| `phase`, `runs`, `todo` | `m_running` and the two loops of `update()` and `update_property()`: what they are about, what is left |
| `stage`, `left`, `saved`, `nested` | the local variables of `numerical_diff_checker::compute` and the loop of its re-evaluation |

`Start` is `guarded()` with `refresh_constants()`; `VerifyCallback`,
`RunCallback`, `NestedRun` run one callback each; `VerifyThrows`,
`CallbackThrows`, `NestedThrows` and `Rethrow` are the exceptions, all of them
through `Abort`, the `catch` of `guarded()`, except that of a trial, which the
checker catches, restores and rethrows.  A throwing callback leaves any value in
its cell.  `Finish` is `retire()` and the end of `guarded()`.  The host binds,
writes, commits and reverts between updates only.  The verification loop takes
the retired callbacks in any order, which includes the one of `m_retired`; each is
verified with all constants of its material (`Checks`, the code's `m_checks`), of which
its run may change one and each must be finite.

Properties:

- `RetiredAreSettled`: a callback that is not run any more would change nothing.
- `VerifyIsSilent`: verification throws where a constant of the material is not finite, and
  never because one has changed.
- `UpdateMatchesReference`: after a complete update every callback holds what
  evaluating it now would give.
- `TrialHoldsInput`: a checker's trial keeps the input it perturbed.
- `RestoreSucceeds`: the re-evaluation that puts the input back never throws, so
  the code may leave it outside of its `try`.
- `UpdateEnds`: every update that starts completes or fails.
- `IInv`: the inductive invariant of the proofs; type correctness, the partition of the
  callbacks into active and retired ones, and `OnceRunOnce` (after a complete update
  exactly the once-callbacks are out of the loop) are proved from it.
- `RefinesReference`: the engine implements `ReferenceEngine`.  The refinement
  mapping hides the loops: while an update runs, the results it is about are not
  visible, and the source a checker perturbs is the value it saved.

### ExecutionOrder

A node is a property, numbered by its key; `created` is the creation rank of its
material.  `Place` takes the first node out of `ready`, `Release` is one pass of the
loop over its successors, in any order, because the lists are filled in hash
order.  `SortEnds` compares the sizes.  `Root`, `Descend`, `Skip`, `Backtrack` and
`Close` are the recursion of `find_cycle`, with the path as its stack and `rest` as
the loop variables; `Throw` is the exception, with the cycle or with none.

- `IInv`: the inductive invariant, with `OrderIsTopological`: every property comes after
  all it depends on.
- `OrderIsLeast`: each property is the first, in creation order and key, that could
  come next: the order is a function of the edges, whatever the hashing.
- `SortDecides`: the sort places everything, or what is left waits for one another.
- `ReportedIsCycle`: the error names a cycle of the graph, from its smallest key.
- `BuildEnds`: `build()` ends with an order or with the error.

### GraphBuild

A deck is what `build()` reads of the materials: which properties have a callback,
which are filled by the callback of another (an `add_callback` group), the inputs of
each material with their source and kind, for each callback that declares them its
reads, own reads and driven inputs, the materials reached by `material_ref`, and the
outputs with a history or declared `stateful()`.  `Deck` is what `declare_reads` and
`declare_drives` accept.  `InputEdges` to `WriterEdges` are the sections of
`compute_execution_order`; `Sorting` is a step of `ExecutionOrder`; `Decide` is one
element of the pass of `find_constants` and `FindOnce` its second half.  A property
is bare when it has neither callback nor writer: whatever its material runs may fill
it, and so may the callbacks of a material that references it.

- `ReadsAreFresh`: whatever a callback reads over global edges, of its own material,
  through a callback it drives or through a material it references, was filled
  before it runs by everything that may fill it, in any order of creation.
- `RefusesRealCycles`: a deck is refused only if its materials wait for one another
  or callbacks of one material read each other's outputs.
- `OnceFillsConstants`: a callback that runs once fills nothing that may change.
  What may change is defined over all reads, local ones included, as the least set
  with the varying sources; it is not the rule of the code.
- `FindsAllConstants`: conversely, the one pass misses no constant, outside of
  materials with references.  Those may be missed: no edge puts the outputs of a
  referenced material first, so it may be decided too late, which costs time only.
- `BuildInv`: the inductive invariant.

The edges of `drives()` cover one level: a driven callback that drives another in
turn orders nothing for what the latter reads.  `ReadsAreFresh` is about one level
as well; no material of the library nests them.

### MaterialPoint and PointDriver

Here an update is one action with every outcome `PropertyEngine` allows: it
completes, or a callback throws and what ran before it has been written.  A history
is the sequence of the loads it went through and a result names the history and the
load it was computed from, so a value that comes from a rejected or perturbed trial
is seen wherever it goes.

| variable | code |
|---|---|
| `load`, `derived` | the accepted and the bound value of the external source; the value its inverse and determinant were computed from |
| `hist` | the history properties, accepted and of the trial |
| `medium`, `residual` | the tangents that the phases of a nonlinear composite were localised with in the last pass, which no history holds; the residual of the local edges |
| `stress`, `failed`, `pass`, `state` | the outputs, `m_failed`, and where `material_point::evaluate` is |
| `phase`, `index`, `it`, `todo` | where `record_step`, `step()` and `tangent_error()` are |
| `res`, `row`, `rows` | `step_result`, the `step_record` being filled, what the sink got |

`Evaluate` is `reset()`, `bind()` and the first update; `Repeat` is the next pass to
the fixed point and `GiveUp` the `cutback_error`.  `StartStep`, `Correct`,
`Converge` and `OutOfIterations` are `step()`; `OpenRow`, `CheckNext`, `CheckDone`,
`RecordAndAccept` and `RecordAndReject` are `record_step`; `Raise` is an exception
that leaves all of it.  `Retry` is a caller that steps again after an exception or a
rejected step, without a `reject()` of its own.

The numbers are abstracted to what the properties tell apart.  A tolerance is an
agreement: passes for a load either read the fixed point of that load and history,
or they do not, and a pass may reach it or not; the fixed point is taken to be
unique.  Whether the stress residual is met, above or NaN is free, and a correction
may lead to any load that differs in the stress-controlled components only.
`derived` and `medium` are what `reset()` leaves alone.

- `AcceptedIsRecorded`: accepted steps and converged rows correspond one to one.
- `TrialStands`: `accept()` commits the trial the row shows, although a check of its
  tangent evaluated others in between.
- `NoTraceOfTrials`: a row depends on the accepted steps before it and its own load.
- `CallsEnd`: every call returns or throws.
- `DriverInv`: the inductive invariant.  `OnlyAcceptMoves`, proved only, says that nothing
  but an accept moves the accepted state.

A caller other than the load case could accept a step that did not converge; the
driver leaves that to it and so does the model, which has the load case only.

### UmatContext and Umat

Each thread of the host runs one call at a time through the places of `pc`.  What
the layer owns is the registry, shared under a mutex, and for each thread a context
per material name that all points, element families and increments of that thread go
through; what the host owns is STATEV, STRESS, STRAN and the energies of each point.

| variable | code |
|---|---|
| `models`, `cache` | `m_models`; `thread_cache()` of each thread, whose entries are `UmatContext`s |
| `pc`, `point`, `arg` | where `umat_dispatch` and what it calls are; the point; increment, constants and DROT of the call |
| `buf` | the arrays of the call, which are the host's |
| `guess`, `iter` | the iterate and the count of the out-of-plane solve |
| `request` | the call has set PNEWDT |
| `accepted`, `trial`, `cut`, `increments`, `over` | the host: the state at the start of the increment, what came back, and how the increment ends |

`Hit`, `Miss`, `Lookup`, `Build` are `thread_state_for`; `BindProps`, `Prepare`,
`Evaluate`, `EvaluateThrows` and `Store` one evaluation, with `Equilibrium`, `Correct`
and `GiveUp` around it in plane stress.  Everything that is not a `fatal_error` goes
through `AskForCutback`; `Fatal` is `report_fatal`, after which nothing happens any
more (the handler does not return in production).  `Register`, `ResetThreadCache` and
`Query` (`nstatv`, `describe_statev`) are called by the program, and `Call`, `Return`,
`Accept` and `Cutback` are the host, Abaqus or CalculiX, which the source determines by
what it assumes of it: it evaluates points again and again from the same accepted
state, never one point in two threads, honours a smaller increment, and takes all
trials or none.

A history is the sequence of rotations and evaluated increments, with the constants
each was evaluated with; a stress names the history, increment and constants it was
computed from, and the energies the pairs of stresses their work was taken between.
So whatever another call, trial, point or material constant leaves behind would be
seen.  `MaterialPoint` has the passes of one evaluation; here it returns or throws.
The faults of a call's form (element family, array sizes, NSTATV, a rotation out of
the plane) are one bit, `sound`.  Time is bound like the strain and not kept apart.
The energies are always asked for.  What the call keeps of its own is reset at
`Return`.  A name is registered with one content: the source excludes registering it
again after use outside of tests (`umat_interface.h:191`).

- `CallIsStateless`: a call that succeeds returns what its arguments and the host's
  state of its point determine, whatever the thread's context has been through.
- `StepsFollow`: an accepted increment moves each point by one such evaluation, from
  its accepted state.
- `CutbackIsClean`: a call that asks for a smaller increment leaves STATEV and the
  energies alone and zeroes the stress.
- `OnlySoundCallsReturn`: a setup fault never ends in a result or in a smaller
  increment, also with contexts built by an earlier call or a query.
- `CallsReturn`: every call returns unless the analysis has been terminated.
- `UmatInv`: the inductive invariant.

### MaterialContext and DurableHistory

A blueprint is what a script writes down for one material: outputs with the bytes of
their history, inputs by owner and output, references with the type expected, and
where its constructor throws, if it does.  A constructor registers outputs, and
callbacks, before it is known to finish, so that what a failed `create()` leaves behind
is in the state.

| variable | code |
|---|---|
| `objects` | `m_interfaces`: the materials, in order of creation |
| `registry` | `m_properties`: their bytes, and whether the material whose callback fills each is still there |
| `refsWired`, `inputsWired`, `finalized` | how far `finalize()` has come, over its retries, and that it has ended |
| `hist` | old and new value of each history: the number of steps it has been through |
| `failed` | `m_failed` of the engine |
| `behind` | ghost: `update_property()` has left some history out of the step |
| `disk` | the last file `save_state` wrote, its entries and its end, which a crash may cut off |
| `spoilt` | ghost: this context has been through one of the calls the property excepts |

`Create` has every way to throw; `Finalize` and `FinalizeThrows` stop at each of the
checks, and a retry goes on from there.  `Update`, `UpdateThrows` and `UpdateUndefined`
(a callback that is the leftover of a failed constructor) are one `update()`, and
`UpdateProperty` with its two companions one `update_property()`: what lies upstream of any
one property (`Upstream`, from material to material, which is that of the properties where,
as in these blueprints, a callback reads all inputs of its material), without the callbacks of a set of
materials the host excludes.  The loop takes both by property; here an exclusion is all
outputs of a material.
`SaveState`, `SaveIsCut`, `LoadState` and `LoadOtherSize` are the checkpoint, property by
property, and `Restart` is another process.

- `HistoryIsOfOneStep`: what is accepted is of one step in all of its properties, what
  updates have made of it is that step or the next, and the same in all of them unless
  `update_property()` has left some behind.  The comment at the property lists the calls it
  excepts (among them a commit with something behind, a checkpoint of a failed update, one
  of another size, a second update of the stepper); these are hazards that no property
  covers, and are listed as such.
- `ContextInv`: names are unique, and everything a finalized material uses is a
  material of its context of the right type.
- `RefinesDurableHistory`: property by property and entry by entry, history and
  checkpoint do what one value and one copy would do.  A value some of which
  has been updated is `Lost` until the update is completed or reverted.

### The local solves

`LocalSolve` is one material with the graph that a thread holds for it, and points that
are evaluated in any order: `Evaluate` loads the accepted history of a point, `UpdateAgain`
is a host that updates again without restoring it, `Accept` takes what returned.
What else is in the graph (the hardening at the last trial, the unknowns, the
factorization) stays from the last evaluation, whatever point it was of.

A material is the set of its outcomes: how an evaluation ends, and the graph after it.
Along one direction of the deviator a tensor is a number, for a cone with its trace
next to it; flow directions are signs.  Numbers are integers of a grid, or rounded to
24ths for the tableaux.  Rounding is a choice: an iterate may be on either side of where
the Newton step leads, and a residual is met when it is zero on the grid, so that a
solve may converge, run out of iterations, meet a singular derivative or leave the
admissible side (a softening return of negative multiplier), each of which the code
answers by another branch.  The stages of a tableau have no branch for a derivative that
vanishes: they divide by it, the iterate is infinite or not a number from there on and never
a root, and any value of the grid stands for it (`StageDiverged`).  An iterate that leaves the
grid has no outcome, nor has an explicit stage whose modulus vanishes.  The solver of the kinematic model may be seeded by the
graph or by the residual, which the order of its callbacks decides.

- `ReturnsSolve`: what returns satisfies the equations of its model: yield surface and
  flow, the apex of a cone, the stages of a tableau, the reaction rate, the damage law.  Of
  a tableau with several stages it says little: that plastic strain is not more than
  hardening and goes with the stress, and nothing of a rate.
- `DerivativesAreOfThisPoint`: unknowns, factorization and strain derivative a coupled
  return reads for its tangent are of its own evaluation.
- `HistoryOnlyGrows`: accepted hardening, cure and damage never decrease.

`UnknownLayout` is what `vector_newton` makes of a function material: it computes names of
properties from the names of unknowns (sequences here, joined by underscores in the
code), offsets and blocks, packs residual and jacobian in Mandel form, and gathers
columns of a rank-4 block.  A number is a pair p + q sqrt 2, exactly.  Packing is linear, so
that the jacobians with one entry are enough; `SystemIsPacked` compares the flat matrix
with the system the material states, on all of them, and says that a block declared
zero that is not is found when it is verified.

`StateArrays` is an evaluation through the arrays of a finite element host: slots and
shear factors of each element family, widening and narrowing with the plane stress
solve and condensation, rotation of STATEV by DROT, the layout of STATEV with its
exclusions in the order of execution, and CalculiX's block per integration point, its
refusals and its packed stiffness.  The material is external and linear, with a plastic
strain that is given; rotations are by 90 degrees, so that everything stays an integer.
A load names the order of execution of the graph it is evaluated with, as another process
may have another one, and a ghost keeps what each slot stands for.  `ArraysCarryTensors`
says that stress, tangent and every history slot are those of the material in the frame
of the host, for whichever process reads them.

### The library

A material's constructor declares what its callbacks read; the callbacks read what they
read.  `MaterialDeclarations` has a callback as both: the declared reads, with how each
is reached, and the runs it may take, with what a run reads, reruns and writes besides its
own outputs; and what it keeps that no declaration can name, a member or the committed
value of a history that another callback fills (`kept`).  `ElasticMaterials`, `InelasticMaterials` and `MeanFieldMaterials` have every
material of the library in these terms.  `MaterialLibrary` puts them together as the
tests do, takes edges and constants from `GraphBuild`, and runs the callbacks in every
order the edges allow.

A value is "fixed" (it cannot change any more), "current" (of this update) or "stale".
`Update` makes everything stale that may move, `RunCallback` is one run of one callback,
`SetParameter` a write of a parameter that is read anew in each run (parameters that only
a constructor reads are left out).  What is reached over a local input that is not rerun
is the value of the last iterate by intent and counts as current; not so where a run puts it
into an output of another callback (`Left`), which is current only if what it found is.  Outputs that only
hold the scratch values of a local solve are excepted.

- `NothingWaitsForItself`: no deck has a cycle.
- `UpdateIsCurrent`: after an update no output is of an earlier one: nothing is read that
  is not declared, and nothing is skipped that has something new to say.
- `FoldedIsFixed`: what the build finds constant is what cannot change: no declaration
  hides a state, and none makes a constant part run at every update.
- `DeclarationsSuffice`: callback by callback, what the declarations must say for the engine
  to come out right.  The outputs a run reads are declared and nothing is declared that no
  run reads; what is kept from an earlier run is a state, or is never folded because the
  callback reads what it leaves to others to solve for; somebody fills what is awaited; what
  is written into outputs of other callbacks is a bare output of a material it solves with,
  or a history whose own callback leaves the same, whichever of the two is last
  (`WritesAgree`); what a solve reruns depends on it and on what it awaits.

The first three are about a whole deck, the last is about one material at a time, and
is enough for the second and third (see the proofs).

#### Where the library departs from its guide

`docs/writing_a_material.md` asks for more than suffices: whatever a callback reads that is
no parameter, input or output is to be declared `stateful()` (section 4, and the table of
section 7), and a callback that a solver drives "writes outputs only" (section 6).
`KeepsToGuide` is that, and two kinds of callback of the library do not keep to it:

- `j2_kinematic_plasticity::compute_residual` (`j2_kinematic_plasticity.h:237-270`, declared at
  139-142) reads the committed values of `back_stress` and `equivalent_plastic_strain` and
  the member `m_s_tr`, which `compute()` leaves, and writes the new value of
  `equivalent_plastic_strain`, which `compute()` fills.  The engine runs it once per update too,
  before `compute()` or after it, as no edge orders the two.  The class comment (lines 61-66)
  says why that is harmless: at the unknowns the solver holds it writes the value that `compute()` has
  written, because an elastic step resets the unknowns; before `compute()` it writes one
  that `compute()` overwrites.  `UpdateIsCurrent` and `WritesAgree` check this, and without the
  reset (`KinematicReturnNoReset`) both fail.  It is never folded, as it reads the unknowns
  locally.
- `phase::copy_tangent` over a local tangent (`phase.h:73-75`, `m_first` at 125) takes the initial
  tangent in its first run.  It is never folded either, for the same reason.

So the engine is right about both although the guide is not followed.  The theorem
`LibraryKeeps` states it: declarations suffice in every deck of the library, and exactly
these two kinds do not keep to the guide.  The self-consistent kernel
(`mean_field/kernels.h:229`) is a third place with a member, the medium its iteration starts
from; it is not in the model, its result being the same up to the kernel's tolerance.

The hardening curves read nothing but what they are rerun for, so an order that `drives()`
gives a return map rather than a plain local read makes no difference in these decks;
`GraphBuild` has materials where it does.  Partial updates of these decks are not in the
model.

## Runs

| run | instance | question |
|---|---|---|
| `engine_fold` | 5 callbacks, 3 values, one of them not finite; partial updates with and without an excluded varying callback; writes to the parameter and to a constant | does folding ever show? |
| `engine_checker` | 6 callbacks, 2 values, a checker of the last callback with respect to the bound value, one history reverted, two trials; writes to every cell | does a checker ever show, and does every update end? |
| `engine_excluded_constant` | as `engine_fold`, but the host excludes a constant callback | a finding |
| `engine_routed_input` | as `engine_checker`, but the input is filled by another output's callback | a finding |
| `execution_order` | every graph of four properties of three materials without self-loops, and every graph of three of them | is the order right, and the error? |
| `point_driver` | 4 steps, one of them stress controlled; two loads, each with two perturbations; at most 2 corrections, 3 passes, 2 retries; a tangent check every 2 steps | does a trial leave a trace? |
| `umat_increments` | one thread, a solid and a plane stress point of one material, two out-of-plane strains, five kinds of call (as built; rotated with another live constant; another baked constant; too few constants; unsound), two iterations, two increments | is a call a function of what it was given? |
| `umat_threads` | two threads on the same points, four kinds of call, one increment | do calls disturb each other, does a fault return, does every call end? |
| `graph_build` | 3456 decks of four materials with six properties, in two orders of creation | are the edges enough, too many, and the constants those that cannot change? |
| `context` | 9 blueprints of three names, three of them at a time; updates of all or of what is upstream of any property, with and without the stepper; histories of 2 steps | is history whole, whatever is written down wrong and wherever a process ends? |
| `local_solve` | 9 models with the decks of `MCLocalSolve`, two points, 3 iterations, iterates from -12 to 24; two accepted steps (one for arrays and systems), 2 dimensions for the systems | does what returns solve its equations, and do the arrays carry it? |
| `library` | every material in the decks of `MCMaterialLibrary`, two updates, any parameter written between | do the declarations suffice for what the callbacks do? |

The graph has what the engine distinguishes: a once-callback, a constant that may
not retire because its callback fills a varying output too, a once-callback that
reads both, a history that reads its accepted value, and a callback that throws
for some reads.  Three values let a changed parameter, a stale constant and a
value that is not finite be told apart; two are enough where the checker needs a
trial that throws and one that does not.  Two trials give a first, a last and a
trial after a trial.  Nothing else is bounded: the state space of each run is
complete.

Fairness is weak fairness of `EngineStep`: an update is a loop over a finite
vector in one thread, and the callbacks are assumed to return.  The host is not
assumed to do anything.  `ExecutionOrder` has weak fairness of its next-state
relation: `build()` is sequential.  Four properties are enough for two disjoint
cycles, for nodes that are left behind a cycle without being on it, and for ties
between and within materials.  The decks of `graph_build` vary what makes the edges
differ: a second output in the group, with a callback of its own or bare; a solver
that drives a function, a group member or nothing; a function that reads the solver's
unknowns locally or globally; a material referenced by the solver, by the function or
by none; callbacks with and without declared reads; varying outputs.

`point_driver` has weak fairness of `Run`: a driver runs in its caller's thread, and
no callback waits for anything.  `Retry` has no fairness, a caller may stop.  Three
passes give a first, a last and one between; two corrections and a step that uses
them up; the check is due at the third step, so that there are accepted steps before
it and one after it.  Without a bound on the retries the rows would grow for ever;
two give a retry after a retry.

The second constant of the material of the `umat` runs is live, the first is baked,
and one of its values cannot be built.  Two increments let a state be accepted,
rotated and evaluated again by the context that produced it; two iterations give a
trial that starts the solve and one that continues it, and a solve that uses them up.
The threads share the points and the name, so that both build a context of it at
once; with one out-of-plane strain a trial may be repeated but not moved, which the
other run has.  Fairness is per thread: a thread that is in a call goes on with it,
for the layer takes one mutex, over a lookup, and waits for nothing else.  The host
need not make, accept or repeat anything.  `MaxIncrements` is the only bound that cuts
behaviours off.  Both runs may stop: the analysis is terminated or has had its
increments.

The blueprints of `context` are a stepper that adds to its new value, a solid that reads
it and references a solver, and each with one mistake; two steps tell a value that is one
step behind from one that is two ahead.  The context has no fairness: nothing must
happen.

The decks of `local_solve` have hardening, perfect and softening materials, cones with
and without dilatancy, back stress with and without recovery, every tableau with an
explicit, a diagonally implicit and a coupled solve, cure from zero, between and
beyond 1, stages whose derivative vanishes, damage up to its cap; every element family, each kind of history, a column that
is excluded, an exclusion that matches nothing, an array too small, rotations in and out
of the plane.  Three iterations are enough for a solve that takes none, one, several, and
too many.  Two accepted steps show the second step of a point from what the first left,
with the other point's evaluations in between.  The arrays are linear in the load, so
that what they get wrong shows in the first accepted step and the next evaluation.  The
grid is an abstraction of rounding, not of the equations: `ReturnsSolve` is exact on it.

`library` has two updates: the second is where a skipped callback and a constant that
moves show, and where a parameter has been written before.

The runs without fairness are those without a liveness property.

## Findings

- `engine_excluded_constant`.  `retire(runs)` moves out of the loop every
  once-callback a partial update ran.  When the host excluded a constant that one of
  them reads and that has never run, the reader retires on a default value; later
  updates run the constant, not the reader.  With `fold_constants(false)` the same
  calls give another result, which `tests/test_engine_contracts.cpp:11` rules out.
- `engine_routed_input`.  The checker passes its input property as exclusion, and
  the engine looks for that property among the callbacks.  An output that is not the
  first of its `add_callback` group has no entry there; its callback runs in every
  trial and overwrites the perturbation, so the numerical derivative is that of a
  constant.

## Proofs

`PropertyEngineProofs` proves, for every graph that satisfies the assumptions of
`PropertyGraph`:

| theorem | statement |
|---|---|
| `TypeCorrect` | `Spec => []TypeOK` |
| `Invariant` | `Spec => []IInv` |
| `PartitionHolds`, `RetiredAreSettledHolds` | active and retired callbacks are all of them, and the invariant of the run `engine_fold` |
| `OnceRunOnceHolds`, `VerifyIsSilentHolds`, `UpdateMatchesReferenceHolds` | action properties: of that run, and the first of no run |
| `RestoreSucceedsHolds` | an invariant of the run `engine_checker` |
| `TrialHoldsInputUnrouted` | the property the run `engine_routed_input` violates, without what violates it |
| `RefinesReferenceHolds` | the refinement the run `engine_checker` checks; the proof has the partial updates of `engine_fold` as well |

All but the first assume `ExclusionsSpare` (no exclusion of the host takes away
something a once-callback or a checker depends on) and `HistoriesReevaluated` (a
checker reverts only histories it re-evaluates).  Both are needed: without the
first `UpdateMatchesReference` is violated (`engine_excluded_constant`), without
the second a reverted history is never filled in again.  `TrialHoldsInputUnrouted` assumes
besides that no target depends on a routed input: that is exactly what the
finding `engine_routed_input` lacks.

`RetiredAreSettled` is not inductive.  It has to hold of everything upstream of a
retired callback (`RetiredUpstream`), which a constant keeps because only
parameters and constants are upstream of it; callbacks that retire get it from
what the loop has dealt with (`LoopSettled`), for which the updates must be closed
upstream (`RunsClosed`).  While a checker runs nothing of this holds of the current
values: `CheckerRecovers` says that there are values `v`, those from before it
started, of which it does, that agree with the current ones outside of what the
checker re-evaluates, and that the restoration brings back one callback at a time,
because each reads only what has been brought back before it.  When the
restoration is done the current values are `v` again.

The refinement is proved from the same invariant.  What the reference sees is the values
without a perturbation (`Unperturbed`) and, at the end of an update, one evaluation of its
callbacks.  A step inside an update changes neither: what folding leaves
out is settled, the property a checker perturbs counts with its saved value, and what a
trial changes lies inside the update that runs.  When the update ends the values are
settled, hence those of the reference.  When it fails, a callback throws on
values that are the reference's, so the reference may fail on the same cells; a
trial that throws is no step at all, because the restoration after it cannot throw and the
exception goes on from there.

`GraphBuildProofs` proves of `ExecutionOrder`, for every finite graph and creation order,
`OrderIsTopological`, `OrderIsLeast`, `SortDecides` and `ReportedIsCycle`.  For the
sort the invariant is that the count of a node is the number of nodes it waits for
(`Waits`): its predecessors not placed, and the one placed last while the edge to it
is not released.  For the search it is that the path is a path of the graph whose
nodes have dealt with all but the edges in `rest`, and that no cycle goes through
the nodes that are done (`DoneInv`: every set of them has one without a predecessor
in the set).  If the search came back without a cycle, all nodes left would be
done; but each of them has a predecessor among them.

Of `GraphBuild` it proves `BuildInv`, `ReadsAreFresh`, `OnceFillsConstants`,
`FindsAllConstants` and `RefusesRealCycles` for every deck and every order of creation.  Each read has an
edge (`ReadHasEdge`), each callback that fills a property has one to it
(`FillerHasEdge`), and the order respects edges.  The complement of the constants is
closed under what fills a property, so it contains everything that may change
(`ConstantsDoNotVary`); and a property outside of a set closed under reads is decided
with its reads in place (`Decides`), which makes the constants with any such set
cover what has been decided (`Found`, the inductive invariant).  For a refused deck, each
callback of the reported cycle has a predecessor in it, and every edge stands for a read,
across materials (one waits for the other) or within one (`EdgeIsReal`).  Either each
material of the cycle waits for another one of it, or one does not, and then its own
callbacks in the cycle read each other in a circle (`WithinMaterial`).

`BuiltIsFinalized` joins the two halves of `property_engine`: the graph any accepted deck
leaves, with its callbacks numbered along the order found, satisfies `Finalized`, on which
everything proved about `PropertyEngine` rests.  `Built` is `FinalizedGraph` with those
numbers: a callback stands for the group it fills, what no callback fills is a property of
the host and numbered after all callbacks.  `CellsDiffer` says that the numbers are apart,
`BuiltReadsComeFirst` that the order is topological also between groups,
`BuiltConstantsReadConstants` that find_constants closes under reads.  A bare output that a
callback of another material fills is a cell of the host there; where there is none
(`HasOneFiller`), what a callback fills is its cell and no other (`FillsItsCell`).  What the
engine assumes besides of the constants a verification compares (`ChecksAssumption`: they
are constants, the verified one among them) is how `find_constants` collects them.

`PointDriverProofs` proves `DriverInv`, `AcceptedIsRecorded`, `TrialStands`,
`NoTraceOfTrials` and `OnlyAcceptMoves` for every path, set of loads and bound.
`DriverInv` adds to the three invariants what holds in between: an evaluation that
returned has the fixed point of its own load (`EvaluatedIsSettled`), a step has
stayed within its components (`StepIsHeld`), and the last load a tangent check
evaluates is that of the trial (`CheckEndsOnTrial`), whose row it keeps.  Then the
results after the check are those before it, because both are the fixed point of the
same load and accepted history.  No step but an accept changes that history, and it
only extends it, so the rows before stay what they were.

`UmatProofs` proves `UmatInv`, `CallIsStateless`, `CutbackIsClean`,
`OnlySoundCallsReturn` and `StepsFollow` for every set of threads, points, names,
arguments and every bound.  The invariant is taken apart by threads (`OwnOf`): what a
thread's own values and the accepted state of its point satisfy at each place.  A step
of a call changes the values of its own thread only (`LocalStep`), a registration only
adds names (`OwnGrows`), and the accepted state changes only when no thread is in a
call.  The central step is that `reset`, `load_history` and `bind` leave nothing of the
context but its constants (`PreparedContext`), and that the constants the materials
read are those of the call when the baked ones match (`ReadsTheCall`).

`MaterialContextProofs` proves `ContextInv`, `HistoryIsOfOneStep` and
`RefinesDurableHistory` for every set of blueprints and every bound.  The inductive
invariant adds to the two what the checkpoint holds (`DiskInv`: the entries of a file that
is not spoilt are of one step) and what holds before a context is finalized (`GateInv`).  For the
refinement each action maps to the one of `DurableHistory` on the age of the history, which
exists because all properties agree on it (`HistoryIsOfOneStep`), or is `Lost`.  A partial
update leaves each history at the accepted step or takes it to the next, whatever was
updated before, so that a later one or `revert()` makes them agree again.

`LocalSolveProofs` proves `ReturnsSolve`, `DerivativesAreOfThisPoint` and
`HistoryOnlyGrows` for every deck with the parameters the constructors take, every load, grid, iteration
limit and order of evaluations.  The hypothesis `Sound(deck)` says where a
model keeps its promise; TLC checks the run's decks with it and without it.

- A Drucker-Prager cone may not soften below its apex (`DPStable`).  The apex return
  takes the positive part of its multiplier, so with a negative one it would return a
  stress outside of the cone, which the comment of `drucker_prager_plasticity.h:102`
  says it never does.
- `j2_rk` is proved for the explicit schemes and those of one implicit stage, with a stiffness
  and without softening (`RKStable`).  `crank_nicolson` and `sdirk3` solve one stage after the
  other, each for the consistency where it stands, and a later one may ask for a negative
  multiplier, which nothing in the code looks at.
- An integrator has a rate and a step that are not negative; the increment of cure is not
  applied twice in an evaluation (a hazard the code documents).

Most of the proof is one lemma per model, that whatever it returns solves its equations.
For the scalar returns the iterate is followed through `newton_scalar` by induction on the
iterations: it leaves the loop with the residual of its last trial, at which the hardening was
evaluated last.  For the cone the smooth return is refused where the apex is needed, and the
apex solves its own equation.  The kinematic return takes its unknowns, its factorization and
its derivative from the same evaluation of the graph, or resets all three.  The stages of a
tableau are an induction over the stages that are done.  `LocalInv` is then that the
histories are ones the material can have and that what returned was delivered (`Delivered`) from
the accepted history of its point; no evaluation of another point writes that history, so it
is inductive.  Functions that are recursive on the iteration or the stage are shown to be
defined (`RecursiveFunction`) by the well-foundedness of the naturals.

`LocalSolveProofs` also proves `SystemIsPacked`, for every system and load and without
`Sound`.  Its inductive invariant `SystemInv` is that the deck is a list of unknowns its
constructor accepts and that what an evaluation leaves in the solver is the matrix of the
load it was given (`SystemEnds`).  The statement about matrices is `SystemIsFlattened` of
`LayoutProofs`, which holds of every jacobian and not only of those with one entry:

- Offsets rise by the width of an unknown (`OffsetNext`), so that each row belongs to one
  unknown and one of its components (`RowsOfOne`, `RowsOfAll`).
- The blocks are gathered one after the other, and each number of the matrix is written by
  one of them (`OneWriter`) or stays zero (`NoWriter`), which makes it the packed entry of its block
  (`JacobianEntry`).  That the property of a name is the block that is meant is
  `PublishedBlock`, from the names check_names keeps apart.
- A column of the unknowns with one entry picks one term of the product
  (`RowTimesUnit`) and one of the contraction (`AppliedUnit`); the factor of a shear component
  appears twice in the first, and its square is the weight in the second (`ScaledTimes`).
- `ColumnsReturn`: what scatter reads is what gather wrote.

The sums are recursive functions, and that they are defined and have one nonzero term
(`SumOfOne`, `IntegerSumOfOne`) is an induction over their length.

`LayoutProofs` is also about STATEV.  `HistoryReturns` says that unpack reads what pack wrote,
for every layout and history that can be stored, and that the slots after the map keep what
the host has there.  Offsets rise by the width of an entry (`EntriesRise`), so that each slot
belongs to one entry (`PackedSlots`), and within an entry a component is in the slot of its
axes (`SlotFacts`), at twice its value where it is a shear strain (`StrainReturns`).  Whether
a history can be stored is what pack() tests before each entry: symmetry, and of a tangent
both minor symmetries; without either the theorem is false.  `LayoutIsOfNames` is why a
restart may be another process: the place of an entry in the sorted map is the number of
entries with a smaller name (`RanksDiffer`, `LayoutOfOrder`), which does not depend on where
the graph executes them (`RankOfEntries`).  `RestartReads` puts the two together.

`ArraysCarryTensorsHolds` is the invariant about the arrays of a host, for every deck: any
histories and exclusions, any mesh, any stiffness (one that is not symmetric among them), all
four ways in which arrays come in, and every sequence of calls, refused ones and cutbacks
among them.  The inductive invariant `ArraysInv` says that a returned evaluation carries its
tensors, and of each accepted history that it is stored (`IsStored`): the state array has
the length the host declares, each point holds histories of the deck's properties, and
where the host declares room for the map (`Fits`) what is held can be read from the array
in every process (`StateIsHeld`).  Where there is no room no call returns, hence the
condition.  A step works as follows.

- What a call unpacks is what is held, so that it evaluates the material at what `Meant` says;
  the layout of another process is the same (`LayoutIsOfNames`).  What it packs is read again,
  because packing is refused before an entry that cannot be stored, and the blocks of
  the other points are apart.
- Strains: widened and halved they are the tensors the host means, those of CalculiX doubled
  first.  In plane stress the iteration ends with no stress out of the plane, which leaves
  one strain there as C33 is not zero.  That strain is the slot after the map.
- The matrix: `MatrixAsMeant`, in plane stress with the strain out of the plane relaxed, and
  `PackedAsMeant` for the 21 numbers of CalculiX.

In plane stress the theorem assumes `ExactRow`: C33 is not negative, and divides
its row when it is positive.  The code divides real numbers and the model integers, so
without it a quotient would be rounded; the decks of the run satisfy it.  `LocalSolveAssumption`
says of these decks that a call is not repeated on histories that were not unpacked, as both
evaluators unpack STATEV first.

`MaterialLibraryProofs` proves `UpdateIsCurrent` and `FoldedIsFixed` for every deck whose
declarations suffice (`DeclarationsSuffice` when the deck is built), whatever
its materials are, for any number of updates, every order the edges allow and parameters
written in between.  That hypothesis looks at one callback and at what it names; the library
run checks it of every deck, and `LibraryKeeps`, below, proves it of every
deck of the library.  There are two halves.  The static one is about
the build: what a callback awaits has an edge to it, over the group of whoever fills it
(`AwaitedEdge`, `AwaitedThroughEdge`, `FillerEdge`), so all that fills it runs before
(`FillersRunBefore`); and the constants are a fixed point of "keeps no state,
reaches nothing of an earlier run, awaits constants" (`ConstantsAreFolded`: each round
of find_constants that is not the last adds a property, so as many rounds as there are
properties are enough).  The dynamic one is the invariant `LibraryInv`: between a start of an
update and the next write of a parameter, whatever has no callback to run any more is
not stale and is fixed where it is constant, and only constants are ever fixed.  A run that
may start finds what it awaits in this state (`AwaitedIsThere`), what it reruns comes out
current (`RerunIsCurrent`), hence its result is not stale (`ResultFacts`) and fixed exactly
where the build folds it (`FixedIsFolded`).  A callback that runs once and is left
out of an update has everything it fills fixed.

`NothingWaitsHolds` and `UpdateGoesOn` are about every deck that the sort accepts
(`Accepted(M)`: its properties can be numbered along the edges).  Upstream sets then only
hold what comes earlier (`FurtherGoesUp`), in each round of collecting them.  The first says that no callback
is before itself; the second, that among the pending callbacks one has no other pending
before it: the guard of `RunCallback` never keeps all of them waiting.  `ExecutionOrder` is
where the sort is shown to accept every graph that has such a numbering (`SortDecides`).

`LibraryKeeps` is about what is written down in the library: in every deck of its
materials (`IsLibraryDeck`), wired in any way and with any number of phases, parts or
recorded properties, the declarations suffice; and a callback keeps to the guide for authors
if and only if it is neither the residual of kinematic hardening nor the tangent of a phase
over a local input (`Departs`).  `DeclarationsSufficeHolds` and `LibraryIsCurrent` are the
consequences: of such a deck `UpdateIsCurrent` and `FoldedIsFixed` hold without a condition on
its callbacks.  What the residual writes is not stale because it is put together from the
unknowns alone, which the return leaves of this update in both of its runs.  Two things are assumed of a deck.

- It is wired (`Wired`): each input has a source, which its own callback does not fill, and
  nothing waits for a bare output that a solver leaves.  `wire_inputs` refuses an input without a
  source, and the sort a global one that comes back to its callback; a local one nothing
  refuses.  The last part leaves out decks that record the iterations of a solver:
  `AwaitsWhatIsFilled` knows of callbacks and of the host only.  `MCDecksAreWired` has TLC
  evaluate all of it for the decks of the run.
- Who solves has what it solves with (`OfLibrary`): a return map a hardening and the solver
  it refers to, an integrator a rate law, the solver of a reaction a reaction that is wired to
  its increment.  Solvers wired otherwise are outside the theorem, like an integrator of
  the rate that an `autocatalytic_reaction` publishes.

A material that reruns nothing (`FeedsForward`) asks nothing of the others, and most of the
proof is one lemma per constructor that its declarations and its runs agree
(`TellsKeeps`), what `Fed` excludes being an input wired to its own callback.
Those that solve come with what they rerun (`Settles`): a hardening and the residual depend on
earlier runs alone (`Curve`, `ResidualKeeps`), while a rate or a system awaits a
temperature or a time, which the solver has to wait for as well (`IntegratedSettles`,
`StepSettles`); where the temperature is the solver's own output, it is filled by the solver
itself.

Checked by TLC only: liveness (`UpdateEnds`, `BuildEnds`, `CallsEnd`, `CallsReturn`), which
is out of reach of the prover.

## Not modelled

- Of `build()`: `collect_upstream` and `track_reads`, edges declared on a property itself, and
  the deprecated declarations.  `PropertyGraph` assumes what `collect_upstream` provides.
- Of `material_point`: construction, save and load.  A host's own load and store of the
  history is in `Umat` and `StateArrays`.
- Of the UMAT layer: the finite-strain entry, which nothing in the interface calls; times and
  the constants of a CalculiX behaviour; a fatal handler that returns.
- Of the materials: the tensors' own arithmetic, formulas without a branch, the kernels of
  `mean_field`.  These are functions of real numbers; a grid of integers says nothing of them.
- Of the recorders: their rows and their format.
- JSON input, the parsing of a report document, plotting, and the Python that formats
  reports: I/O.

What would come next: `collect_upstream`, so that `FinalizedGraph` covers the upstream sets
as well.
