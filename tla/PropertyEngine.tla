--------------------------- MODULE PropertyEngine ---------------------------
(***************************************************************************)
(* property_engine: runs the callbacks of a finalized graph, one step per  *)
(* callback.  Constants are folded: a once-callback leaves the loop when   *)
(* it has run (it retires) and comes back when the revision counter says   *)
(* that something was written outside the graph.  A throwing callback      *)
(* leaves the context failed until revert().  A numerical_diff_checker     *)
(* re-evaluates part of the graph from inside its own callback.            *)
(***************************************************************************)
EXTENDS PropertyGraph

CONSTANTS
  Excludes,      \* the exclusion sets a host passes to update_property()
  Trials,        \* perturbed evaluations of one checker run
  Writable       \* the cells a host writes: bounds its set_parameter() and get_mutable()

ASSUME EngineAssumption ==
  /\ Excludes \subseteq SUBSET Callback
  /\ Trials \in Nat \ {0}
  /\ Writable \subseteq Cell

VARIABLES
  val,           \* current value of every cell (the new value of a history)
  old,           \* accepted value of every history property
  active,        \* m_active: the callbacks still to run on every update
  retired,       \* m_retired: constant and done
  fold,          \* m_fold
  verify,        \* m_verify
  dirty,         \* *m_revision # m_seen_revision
  failed,        \* m_failed
  phase,         \* "idle", or m_running: "verify" and "run", the loops of an update
  runs,          \* the callbacks the update in progress is about
  todo,          \* ... still to come in the current loop
  stage,         \* where a running checker is: "none" outside of one
  left,          \* trials it has still to make
  saved,         \* its copy of the input
  nested         \* callbacks still to come in its re-evaluation

graphVars  == <<val, old>>
foldVars   == <<active, retired, fold, verify, dirty>>
loopVars   == <<phase, runs, todo>>
checkVars  == <<stage, left, saved, nested>>
vars       == <<graphVars, foldVars, failed, loopVars, checkVars>>

Running == phase # "idle"

TypeOK ==
  /\ val \in [Cell -> Value] /\ old \in [Held -> Value]
  /\ active \subseteq Callback /\ retired \subseteq Callback
  /\ fold \in BOOLEAN /\ verify \in BOOLEAN /\ dirty \in BOOLEAN /\ failed \in BOOLEAN
  /\ phase \in {"idle", "verify", "run"}
  /\ runs \subseteq Callback /\ todo \subseteq runs
  /\ stage \in {"none", "trial", "restore", "rethrow"}
  /\ left \in 0..Trials /\ saved \in Value /\ nested \subseteq Callback

(***************************************************************************)
(* build(): every callback active, nothing run yet.                        *)
(***************************************************************************)
Init ==
  /\ val = [x \in Cell |-> Default] /\ old = [h \in Held |-> Default]
  /\ active = Callback /\ retired = {}
  /\ fold = TRUE /\ verify \in BOOLEAN /\ dirty = FALSE /\ failed = FALSE
  /\ phase = "idle" /\ runs = {} /\ todo = {}
  /\ stage = "none" /\ left = 0 /\ saved = Default /\ nested = {}

First(c, S) == c \in S /\ \A d \in S : c <= d

\* Mutant: the callbacks are in the loop again, and still retired.
ReactivateLoop == active' = Callback /\ UNCHANGED retired

Reactivate == active' = Callback /\ retired' = {}

-----------------------------------------------------------------------------
(***************************************************************************)
(* guarded(): an update starts on an idle context that has not failed, the *)
(* revision is compared, the retired callbacks in question are verified.   *)
(***************************************************************************)
\* Mutant: the revision is taken note of, the constants stay folded.
RefreshNothing == dirty' = FALSE /\ UNCHANGED <<active, retired>>

RefreshConstants ==
  /\ dirty' = FALSE
  /\ IF dirty THEN Reactivate ELSE UNCHANGED <<active, retired>>

Start(r) ==
  /\ ~Running /\ ~failed
  /\ RefreshConstants
  /\ phase' = "verify" /\ runs' = r
  /\ todo' = IF verify THEN retired' \cap r ELSE {}
  /\ UNCHANGED <<graphVars, fold, verify, failed, checkVars>>

Update == Start(Callback)

UpdateProperty(target, exclude) == Start(Up[target] \ exclude)

\* Mutants: an exception leaves callbacks to run; it leaves the update running.
AbortKeepsTodo ==
  /\ phase' = "idle" /\ runs' = {} /\ failed' = TRUE
  /\ stage' = "none" /\ left' = 0 /\ saved' = Default /\ nested' = {}
  /\ UNCHANGED <<old, foldVars, todo>>

AbortKeepsRunning ==
  /\ failed' = TRUE
  /\ stage' = "none" /\ left' = 0 /\ saved' = Default /\ nested' = {}
  /\ UNCHANGED <<old, foldVars, loopVars>>

\* An exception out of the update: running is over, the context has failed.
Abort ==
  /\ phase' = "idle" /\ runs' = {} /\ todo' = {} /\ failed' = TRUE
  /\ stage' = "none" /\ left' = 0 /\ saved' = Default /\ nested' = {}
  /\ UNCHANGED <<old, foldVars>>

\* What a callback that throws has filled in by then is anything.
Partly(c) == \E v \in Value : val' = [val EXCEPT ![c] = v]

Fill(c) == val' = [val EXCEPT ![c] = Out(c, val, old)]

\* verify() compares every constant output of the material before and after the run,
\* which changes at most c, and wants all of them finite.
AllFinite(c) == \A d \in Checks[c] : val[d] \notin NotFinite

VerifyCallback(c) ==
  /\ phase = "verify" /\ c \in todo
  /\ Settled(c, val, old) /\ AllFinite(c)
  /\ Fill(c) /\ todo' = todo \ {c}
  /\ UNCHANGED <<old, foldVars, failed, phase, runs, checkVars>>

VerifyThrows(c) ==
  /\ phase = "verify" /\ c \in todo
  /\ \/ Throws(c, val, old) /\ Partly(c)
     \/ /\ ~Throws(c, val, old)
        /\ ~(Settled(c, val, old) /\ AllFinite(c))
        /\ Fill(c)
  /\ Abort

StartLoop ==
  /\ phase = "verify" /\ todo = {}
  /\ phase' = "run" /\ todo' = active \cap runs
  /\ UNCHANGED <<graphVars, foldVars, failed, runs, checkVars>>

RunCallback(c) ==
  /\ phase = "run" /\ First(c, todo) /\ c \notin Checker
  /\ ~Throws(c, val, old)
  /\ Fill(c) /\ todo' = todo \ {c}
  /\ UNCHANGED <<old, foldVars, failed, phase, runs, checkVars>>

CallbackThrows(c) ==
  /\ phase = "run" /\ First(c, todo) /\ c \notin Checker
  /\ Throws(c, val, old) /\ Partly(c)
  /\ Abort

\* Mutants: a partial update retires every once-callback; only the first update retires.
RetireAll ==
  LET done == IF ~fold THEN {} ELSE active \cap Once
  IN  active' = active \ done /\ retired' = retired \cup done

RetireFirst ==
  LET done == IF ~fold \/ retired # {} THEN {} ELSE active \cap Once \cap runs
  IN  active' = active \ done /\ retired' = retired \cup done

(***************************************************************************)
(* retire(): the once-callbacks this update ran leave the loop.            *)
(***************************************************************************)
Retire ==
  LET done == IF ~fold \/ Cardinality(retired) = Cardinality(Once)
              THEN {} ELSE active \cap Once \cap runs
  IN  /\ active' = active \ done
      /\ retired' = retired \cup done

Finish ==
  /\ phase = "run" /\ todo = {}
  /\ Retire
  /\ phase' = "idle" /\ runs' = {}
  /\ UNCHANGED <<graphVars, fold, verify, dirty, failed, todo, checkVars>>

-----------------------------------------------------------------------------
(***************************************************************************)
(* numerical_diff_checker::compute, as a callback: get_mutable() the input *)
(* (which bumps the revision), for every trial perturb it, revert the      *)
(* listed histories and re-evaluate the target without the input's own     *)
(* callback; then put the input back and re-evaluate once more, also when  *)
(* a trial threw.                                                          *)
(*                                                                         *)
(* The engine leaves out the callback bound to the input.  An input that   *)
(* is filled by the callback of another output has none to leave out.      *)
(***************************************************************************)
NestedRuns(k) == Up[Target[k]] \ (IF k \in Routed THEN {} ELSE {Input[k]})

\* The input set to v, then the histories reverted.
WithInput(k, v, values) ==
  [x \in Cell |-> IF x \in HistSrc[k] THEN old[x]
                  ELSE IF x = Input[k] THEN v ELSE values[x]]

Current(k) == phase = "run" /\ First(k, todo) /\ k \in Checker

Perturb(k) ==
  /\ \E v \in Value : val' = WithInput(k, v, val)
  /\ nested' = NestedRuns(k)

\* Mutants: the input stays perturbed; nothing is re-evaluated.
RestoreNoInput(k, values) ==
  val' = WithInput(k, values[Input[k]], values) /\ nested' = NestedRuns(k)

RestoreNoRerun(k, values) ==
  val' = WithInput(k, saved, values) /\ nested' = {}

Restore(k, values) ==
  /\ val' = WithInput(k, saved, values)
  /\ nested' = NestedRuns(k)

\* Mutant: the input is written to without a new revision.
CheckerStartUnnoticed(k) ==
  /\ Current(k) /\ stage = "none"
  /\ saved' = val[Input[k]]
  /\ Perturb(k) /\ stage' = "trial" /\ left' = Trials - 1
  /\ UNCHANGED <<old, foldVars, failed, loopVars>>

CheckerStart(k) ==
  /\ Current(k) /\ stage = "none"
  /\ dirty' = TRUE /\ saved' = val[Input[k]]
  /\ Perturb(k) /\ stage' = "trial" /\ left' = Trials - 1
  /\ UNCHANGED <<old, active, retired, fold, verify, failed, loopVars>>

\* update_property() with m_running set: every upstream callback runs, the retired
\* ones too, and the running loop keeps its state.
NestedRun(c) ==
  /\ stage # "none" /\ First(c, nested)
  /\ ~Throws(c, val, old)
  /\ Fill(c) /\ nested' = nested \ {c}
  /\ UNCHANGED <<old, foldVars, failed, loopVars, stage, left, saved>>

NextTrial(k) ==
  /\ Current(k) /\ stage = "trial" /\ nested = {} /\ left > 0
  /\ Perturb(k) /\ left' = left - 1
  /\ UNCHANGED <<old, foldVars, failed, loopVars, stage, saved>>

RestoreState(k) ==
  /\ Current(k) /\ stage = "trial" /\ nested = {} /\ left = 0
  /\ Restore(k, val) /\ stage' = "restore"
  /\ UNCHANGED <<old, foldVars, failed, loopVars, left, saved>>

\* A trial threw: restored before the exception goes on.  The restoration itself is
\* outside of the try block.
NestedThrows(k, c) ==
  /\ Current(k) /\ First(c, nested) /\ Throws(c, val, old)
  /\ IF stage = "trial"
     THEN /\ \E v \in Value : Restore(k, [val EXCEPT ![c] = v])
          /\ stage' = "rethrow" /\ left' = 0
          /\ UNCHANGED <<old, foldVars, failed, loopVars, saved>>
     ELSE Partly(c) /\ Abort

CheckerDone(k) ==
  /\ Current(k) /\ stage = "restore" /\ nested = {}
  /\ Partly(k)                                     \* its error, from the trials
  /\ todo' = todo \ {k} /\ stage' = "none" /\ saved' = Default
  /\ UNCHANGED <<old, foldVars, failed, phase, runs, left, nested>>

Rethrow(k) ==
  /\ Current(k) /\ stage = "rethrow" /\ nested = {}
  /\ UNCHANGED val
  /\ Abort

-----------------------------------------------------------------------------
(***************************************************************************)
(* The host between updates.                                               *)
(***************************************************************************)
\* external_state_source::bind: both sides of the history, no revision.
Bind(e, o, n) ==
  /\ ~Running
  /\ val' = [val EXCEPT ![e] = n] /\ old' = [old EXCEPT ![e] = o]
  /\ UNCHANGED <<foldVars, failed, loopVars, checkVars>>

\* Mutant: a write outside the graph leaves the revision alone.
WriteUnnoticed(x, v) ==
  /\ ~Running
  /\ val' = [val EXCEPT ![x] = v]
  /\ UNCHANGED <<old, foldVars, failed, loopVars, checkVars>>

\* set_parameter() on a parameter, get_mutable() on a property: the revision is bumped.
Write(x, v) ==
  /\ ~Running
  /\ val' = [val EXCEPT ![x] = v] /\ dirty' = TRUE
  /\ UNCHANGED <<old, active, retired, fold, verify, failed, loopVars, checkVars>>

FoldConstants(on) ==
  /\ ~Running
  /\ fold' = on /\ Reactivate
  /\ UNCHANGED <<graphVars, verify, dirty, failed, loopVars, checkVars>>

VerifyConstants(on) ==
  /\ ~Running /\ verify' = on
  /\ UNCHANGED <<graphVars, active, retired, fold, dirty, failed, loopVars, checkVars>>

\* Mutant: a failed update can be committed.
CommitAnyway ==
  /\ ~Running
  /\ old' = [h \in Held |-> val[h]]
  /\ UNCHANGED <<val, foldVars, failed, loopVars, checkVars>>

Commit ==
  /\ ~Running /\ ~failed
  /\ old' = [h \in Held |-> val[h]]
  /\ UNCHANGED <<val, foldVars, failed, loopVars, checkVars>>

Revert ==
  /\ ~Running
  /\ failed' = FALSE
  /\ val' = [x \in Cell |-> IF x \in Held THEN old[x] ELSE val[x]]
  /\ UNCHANGED <<old, foldVars, loopVars, checkVars>>

-----------------------------------------------------------------------------
\* The steps of an update in progress.
EngineStep ==
  \/ StartLoop \/ Finish
  \/ \E c \in Callback : \/ VerifyCallback(c) \/ VerifyThrows(c)
                         \/ RunCallback(c) \/ CallbackThrows(c)
                         \/ NestedRun(c)
  \/ \E k \in Checker : \/ CheckerStart(k) \/ NextTrial(k) \/ RestoreState(k)
                        \/ CheckerDone(k) \/ Rethrow(k)
                        \/ \E c \in Callback : NestedThrows(k, c)

HostStep ==
  \/ Update \/ \E c \in Callback, x \in Excludes : UpdateProperty(c, x)
  \/ \E e \in External, o, n \in Value : Bind(e, o, n)
  \/ \E x \in Writable, v \in Value : Write(x, v)
  \/ \E on \in BOOLEAN : FoldConstants(on) \/ VerifyConstants(on)
  \/ Commit \/ Revert

Next == EngineStep \/ HostStep

\* The callbacks return: the loops of an update go on.
Spec == Init /\ [][Next]_vars /\ WF_vars(EngineStep)

-----------------------------------------------------------------------------
(***************************************************************************)
(* Properties.                                                             *)
(***************************************************************************)
\* A retired callback is not run again, so what it filled in must be what running
\* it would fill in, unless a write outside the graph has been noticed
\* (refresh_constants, retire).
RetiredAreSettled == ~dirty => \A c \in retired : Settled(c, val, old)

\* A callback is either in the loop or retired, and only once-callbacks retire
\* (retire, reactivate).
Partition ==
  /\ active = Callback \ retired
  /\ retired \subseteq Once

\* After a complete update with folding on, exactly the once-callbacks are out of
\* the loop: the early return of retire() never leaves one in.
OnceRunOnce ==
  [][phase = "run" /\ phase' = "idle" /\ ~failed' /\ runs = Callback /\ fold
       => retired' = Once]_vars

\* Verifying the constants never stops an update unless a material with a constant to
\* verify has one that is not finite: no constant is found changed (verify).
VerifyIsSilent ==
  [][phase = "verify" /\ failed' => \E c \in todo : ~AllFinite(c)]_vars

\* A complete update leaves what evaluating every callback in order gives, whatever
\* was folded, verified or re-evaluated on the way (update).
UpdateMatchesReference ==
  [][phase = "run" /\ phase' = "idle" /\ ~failed' /\ runs = Callback
       => \A c \in Callback \ Checker : Settled(c, val', old')]_vars

\* A trial evaluates the target at the perturbed input: the re-evaluation does not
\* fill the input in again (numerical_diff_checker::compute, its exclusion).
TrialHoldsInput ==
  [][\A k \in Checker : Current(k) /\ stage = "trial" /\ stage' = "trial" /\ left' = left
       => val'[Input[k]] = val[Input[k]]]_vars

\* Putting the input back never throws: it repeats what succeeded before the trials
\* (restore_state, outside of the try block).
RestoreSucceeds ==
  stage \in {"restore", "rethrow"} =>
    \A c \in nested : First(c, nested) => ~Throws(c, val, old)

\* Every update that starts ends: it completes or fails.
UpdateEnds == Running ~> ~Running

(***************************************************************************)
(* The inductive invariant.                                                *)
(***************************************************************************)
\* The loops: what they have left is theirs, in order; a checker in progress is the
\* callback the loop is at.
Control ==
  /\ failed => ~Running
  /\ ~Running => runs = {}
  /\ phase = "verify" => ~dirty /\ todo \subseteq retired
  /\ phase = "run" => /\ todo \subseteq active
                      /\ \A d \in (active \cap runs) \ todo, e \in todo : d < e
  /\ stage = "none" => nested = {}
  /\ stage # "none" => dirty /\ \E k \in Checker : Current(k) /\ nested \subseteq NestedRuns(k)

\* An update is about everything upstream of its once-callbacks and checkers.
RunsClosed == \A c \in runs \cap (Once \cup Checker) : Up[c] \subseteq runs

\* Everything a retired callback depends on is as settled as the callback itself.
RetiredUpstream == ~dirty => \A c \in retired : \A a \in Up[c] : Settled(a, val, old)

\* With the values v: what the update has dealt with is settled, and so is everything
\* upstream of the retired callbacks it is about.
DealtWith(v) ==
  /\ \A c \in (runs \ todo) \ Checker : Settled(c, v, old)
  /\ \A c \in runs \cap retired : \A a \in Up[c] : Settled(a, v, old)

LoopSettled == phase = "run" /\ stage = "none" => DealtWith(val)

\* While checker k runs, the values v from before it started can still be told: they
\* are the ones outside of what it re-evaluates, and come back as it restores them.
Recoverable(k, v) ==
  /\ DealtWith(v) /\ v[Input[k]] = saved
  /\ \A x \in Cell \ (NestedRuns(k) \cup {Input[k]}) : val[x] = v[x]
  /\ stage \in {"restore", "rethrow"} =>
       /\ Input[k] \in NestedRuns(k) \/ val[Input[k]] = saved
       /\ \A c \in NestedRuns(k) \ nested : val[c] = v[c]

CheckerRecovers ==
  stage # "none" => \A k \in Checker : Current(k) => \E v \in [Cell -> Value] : Recoverable(k, v)

IInv ==
  /\ TypeOK /\ Partition /\ Control /\ RunsClosed
  /\ RetiredUpstream /\ LoopSettled /\ CheckerRecovers

\* What a host must observe for the results above: it excludes nothing that a
\* once-callback or a checker depends on.
ExclusionsSpare == \A x \in Excludes, c \in Once \cup Checker : Up[c] \cap x = {}

\* The histories a checker reverts are ones it re-evaluates.
HistoriesReevaluated == \A k \in Checker : HistSrc[k] \subseteq NestedRuns(k)

(***************************************************************************)
(* The engine implements the reference: constants, folding, verification   *)
(* and re-evaluation cannot be seen from outside.  While a checker runs,   *)
(* the source it perturbs is the one it saved.                             *)
(***************************************************************************)
Unperturbed(x) ==
  IF \E k \in Checker : Current(k) /\ stage # "none" /\ x = Input[k] THEN saved ELSE val[x]

Ref == INSTANCE ReferenceEngine WITH
  source  <- [x \in Parameter \cup External |-> Unperturbed(x)],
  result  <- [c \in Callback \ runs |-> val[c]],
  state   <- IF Running THEN "updating" ELSE IF failed THEN "failed" ELSE "idle",
  pending <- runs

RefinesReference == Ref!Spec
=============================================================================
