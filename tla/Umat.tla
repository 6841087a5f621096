-------------------------------- MODULE Umat --------------------------------
(***************************************************************************)
(* The UMAT layer (umat/): a finite element host calls umat_ from several  *)
(* threads.  umat_dispatch finds the thread's context for the material     *)
(* name, or builds it from the registered model, evaluates one integration *)
(* point from the STATEV of the call, with a solve for the out-of-plane    *)
(* strain in plane stress, and reports failures: those of the setup end    *)
(* the analysis, all others ask for a smaller increment.                   *)
(*                                                                         *)
(* The host (Abaqus, or CalculiX through calculix_dispatch) is external:   *)
(* it evaluates every point of the mesh, any number of times, from the     *)
(* state at the start of the increment, then takes the new state of all    *)
(* points or of none.                                                      *)
(***************************************************************************)
EXTENDS UmatContext, FiniteSets

CONSTANTS
  Thread, Point,
  Name,             \* material names
  Material,         \* the material name of a point's section
  PlaneStress,      \* the points of plane stress elements
  Live,             \* for each name the constants read by a props_scalar
  Buildable(_, _),  \* whether the builder of a name succeeds with these constants
  Deck,             \* the arguments the host may pass: increment, constants, DROT
  NoContext, NoState,
  MaxIter,          \* the option "max_iter" of the plane stress solve
  MaxIncrements     \* bound on the accepted increments

Args == [plane : Plane, props : Constants, rotate : BOOLEAN, sound : BOOLEAN]

ASSUME UmatAssumption ==
  /\ Material \in [Point -> Name]
  /\ PlaneStress \subseteq Point
  /\ Live \in [Name -> SUBSET (Nat \ {0})]
  /\ \A n \in Name, a \in Deck : Buildable(n, a.props) \in BOOLEAN
  /\ Deck \subseteq Args
  /\ MaxIter \in Nat \ {0} /\ MaxIncrements \in Nat
  /\ NoContext \notin Context

\* What the host stores for a point.
State == [hist : History, out : Out,      \* STATEV and its last slot in plane stress
          plane : Plane,                  \* STRAN
          stress : Stress,                \* STRESS
          energy : Seq([from : Stress, to : Result])]  \* the work in SSE and SPD

ASSUME StateAssumption == NoState \notin State

VARIABLES
  models,     \* m_models: the names that are registered
  cache,      \* thread_cache() of each thread
  pc,         \* where each thread is in a call
  point,      \* the point it evaluates
  arg,        \* the arguments of the call
  buf,        \* the arrays of the call
  guess,      \* plane stress: the iterate of the out-of-plane strain
  iter,       \* plane stress: the iterations before this one
  request,    \* the call has set PNEWDT
  accepted,   \* the host's state at the start of the increment
  trial,      \* what the calls of this increment returned
  cut,        \* one of them asked for a smaller increment
  increments, \* the increments accepted
  over        \* the analysis has been terminated

threadVars == <<pc, point, arg, buf, guess, iter, request>>
hostVars == <<accepted, trial, cut, increments>>
vars == <<models, cache, threadVars, hostVars, over>>

Places == {"idle", "entered", "lookup", "building", "ready", "trial", "prepared",
           "solve", "store", "returned"}

Caches == [Name -> Context \cup {NoContext}]

TypeOK ==
  /\ models \subseteq Name
  /\ cache \in [Thread -> Caches]
  /\ pc \in [Thread -> Places]
  /\ point \in [Thread -> Point]
  /\ arg \in [Thread -> Args]
  /\ buf \in [Thread -> State]
  /\ guess \in [Thread -> Out]
  /\ iter \in [Thread -> 0 .. MaxIter - 1]
  /\ request \in [Thread -> BOOLEAN]
  /\ accepted \in [Point -> State]
  /\ trial \in [Point -> State \cup {NoState}]
  /\ cut \in BOOLEAN /\ over \in BOOLEAN
  /\ increments \in 0 .. MaxIncrements

Virgin == [hist |-> <<>>, out |-> Flat, plane |-> Rest,
           stress |-> Zero, energy |-> <<>>]
NoArgs == [plane |-> Rest, props |-> <<>>,
           rotate |-> FALSE, sound |-> TRUE]

Init ==
  /\ models = {}
  /\ cache = [t \in Thread |-> [n \in Name |-> NoContext]]
  /\ pc = [t \in Thread |-> "idle"]
  /\ point \in [Thread -> Point]
  /\ arg = [t \in Thread |-> NoArgs]
  /\ buf = [t \in Thread |-> Virgin]
  /\ guess = [t \in Thread |-> Flat] /\ iter = [t \in Thread |-> 0]
  /\ request = [t \in Thread |-> FALSE]
  /\ accepted = [p \in Point |-> Virgin] /\ trial = [p \in Point |-> NoState]
  /\ cut = FALSE /\ over = FALSE /\ increments = 0

name(t) == Material[point[t]]
Cached(t) == cache[t][name(t)]
Goto(t, place) == pc' = [pc EXCEPT ![t] = place]
SetContext(t, c) == cache' = [cache EXCEPT ![t][name(t)] = c]

\* register_model(), under the mutex.
Register(n) ==
  /\ models' = models \cup {n}
  /\ UNCHANGED <<cache, threadVars, hostVars, over>>

\* reset_thread_cache(), by its thread.
ResetThreadCache(t) ==
  /\ pc[t] = "idle"
  /\ cache' = [cache EXCEPT ![t] = [n \in Name |-> NoContext]]
  /\ UNCHANGED <<models, threadVars, hostVars, over>>

\* nstatv() and describe_statev() build the context of a name as a call does; their
\* failures go to the caller.
Query(t, n, props) ==
  /\ pc[t] = "idle" /\ cache[t][n] = NoContext
  /\ n \in models /\ Buildable(n, props)
  /\ cache' = [cache EXCEPT ![t][n] = Fresh(props)]
  /\ UNCHANGED <<models, threadVars, hostVars, over>>

\* The host calls umat_ for a point that no other thread evaluates.
Call(t, p, a) ==
  /\ pc[t] = "idle" /\ increments < MaxIncrements
  /\ \A u \in Thread : pc[u] # "idle" => point[u] # p
  /\ point' = [point EXCEPT ![t] = p] /\ arg' = [arg EXCEPT ![t] = a]
  /\ buf' = [buf EXCEPT ![t] = accepted[p]]
  /\ request' = [request EXCEPT ![t] = FALSE]
  /\ Goto(t, "entered")
  /\ UNCHANGED <<models, cache, guess, iter, hostVars, over>>

\* thread_state_for(): the context is in the cache and fits the constants.
Hit(t) ==
  /\ pc[t] = "entered" /\ Cached(t) # NoContext
  /\ Matches(Cached(t), Live[name(t)], arg[t].props)
  /\ Goto(t, "ready")
  /\ UNCHANGED <<models, cache, point, arg, buf, guess, iter, request, hostVars, over>>

\* It is not there.
Miss(t) ==
  /\ pc[t] = "entered" /\ Cached(t) = NoContext
  /\ Goto(t, "lookup")
  /\ UNCHANGED <<models, cache, point, arg, buf, guess, iter, request, hostVars, over>>

\* The model is copied under the mutex.
Lookup(t) ==
  /\ pc[t] = "lookup" /\ name(t) \in models
  /\ Goto(t, "building")
  /\ UNCHANGED <<models, cache, point, arg, buf, guess, iter, request, hostVars, over>>

\* The builder runs without it.
Build(t) ==
  /\ pc[t] = "building" /\ Buildable(name(t), arg[t].props)
  /\ SetContext(t, Fresh(arg[t].props))
  /\ Goto(t, "ready")
  /\ UNCHANGED <<models, point, arg, buf, guess, iter, request, hostVars, over>>

\* bind_props(), then the out-of-plane strain starts from the one in STATEV.
\* Without live slots nothing is bound.
BindProps(t) ==
  /\ pc[t] = "ready"
  /\ \A i \in Live[name(t)] : i <= Len(arg[t].props)
  /\ SetContext(t, [Cached(t) EXCEPT !.live = arg[t].props])
  /\ guess' = [guess EXCEPT ![t] = buf[t].out] /\ iter' = [iter EXCEPT ![t] = 0]
  /\ Goto(t, "trial")
  /\ UNCHANGED <<models, point, arg, buf, request, hostVars, over>>

\* The strain increment of a trial.
Trial(t) == [old |-> [plane |-> buf[t].plane, out |-> buf[t].out],
             new |-> [plane |-> arg[t].plane, out |-> guess[t]]]

\* A mutant of Prepare: STATEV is loaded for the first trial only.
PrepareOnce(t) ==
  /\ pc[t] = "trial" /\ arg[t].sound
  /\ SetContext(t, IF iter[t] = 0
                     THEN Prepared(Cached(t), buf[t].hist, arg[t].rotate, Trial(t))
                     ELSE BindStrain([Cached(t) EXCEPT !.hist.old = Cached(t).hist.new],
                                     Trial(t)))
  /\ Goto(t, "prepared")
  /\ UNCHANGED <<models, point, arg, buf, guess, iter, request, hostVars, over>>

\* evaluate_canonical() up to the update; the arrays of the call have the sizes
\* the evaluator needs.
Prepare(t) ==
  /\ pc[t] = "trial" /\ arg[t].sound
  /\ SetContext(t, Prepared(Cached(t), buf[t].hist, arg[t].rotate, Trial(t)))
  /\ Goto(t, "prepared")
  /\ UNCHANGED <<models, point, arg, buf, guess, iter, request, hostVars, over>>

\* The update returns; the engine refuses it in a failed context.
Evaluate(t) ==
  /\ pc[t] = "prepared" /\ ~Cached(t).failed
  /\ SetContext(t, Evaluated(Cached(t), Live[name(t)]))
  /\ Goto(t, IF point[t] \in PlaneStress THEN "solve" ELSE "store")
  /\ UNCHANGED <<models, point, arg, buf, guess, iter, request, hostVars, over>>

\* Anything but a fatal_error: outputs zeroed, a smaller increment.
AskForCutback(t) ==
  /\ buf' = [buf EXCEPT ![t].stress = Zero]
  /\ request' = [request EXCEPT ![t] = TRUE]
  /\ Goto(t, "returned")

\* The update throws.
EvaluateThrows(t) ==
  /\ pc[t] = "prepared"
  /\ \E c \in Thrown(Cached(t), Live[name(t)]) : SetContext(t, c)
  /\ AskForCutback(t)
  /\ UNCHANGED <<models, point, arg, guess, iter, hostVars, over>>

\* Plane stress: the out-of-plane stress is within the tolerance.
Equilibrium(t) ==
  /\ pc[t] = "solve"
  /\ Goto(t, "store")
  /\ UNCHANGED <<models, cache, point, arg, buf, guess, iter, request, hostVars, over>>

\* A mutant of Correct: the iterations are not counted.
CorrectUncounted(t) ==
  /\ pc[t] = "solve" /\ iter[t] + 1 < MaxIter
  /\ \E e \in Out : guess' = [guess EXCEPT ![t] = e]
  /\ Goto(t, "trial")
  /\ UNCHANGED <<models, cache, point, arg, buf, iter, request, hostVars, over>>

\* It is not: the next trial.
Correct(t) ==
  /\ pc[t] = "solve" /\ iter[t] + 1 < MaxIter
  /\ \E e \in Out : guess' = [guess EXCEPT ![t] = e]
  /\ iter' = [iter EXCEPT ![t] = @ + 1]
  /\ Goto(t, "trial")
  /\ UNCHANGED <<models, cache, point, arg, buf, request, hostVars, over>>

\* A mutant of GiveUp: STATEV is written back.
GiveUpAndStore(t) ==
  /\ pc[t] = "solve"
  /\ buf' = [buf EXCEPT ![t].stress = Zero, ![t].hist = Cached(t).hist.new]
  /\ request' = [request EXCEPT ![t] = TRUE]
  /\ Goto(t, "returned")
  /\ UNCHANGED <<models, cache, point, arg, guess, iter, hostVars, over>>

\* The iterations are used up, or the out-of-plane stiffness is zero.
GiveUp(t) ==
  /\ pc[t] = "solve"
  /\ AskForCutback(t)
  /\ UNCHANGED <<models, cache, point, arg, guess, iter, hostVars, over>>

\* A mutant of Stored: the work is taken after STRESS was overwritten.
StoredLate(b, c, p, out) ==
  [b EXCEPT !.stress = c.stress, !.hist = c.hist.new,
            !.energy = Append(@, [from |-> c.stress, to |-> c.stress]),
            !.out = IF p \in PlaneStress THEN out ELSE @]

\* The arrays b of a call that succeeds in context c: stress and work, then STATEV
\* and in plane stress the out-of-plane strain behind it.
Stored(b, c, p, out) ==
  [b EXCEPT !.stress = c.stress, !.hist = c.hist.new,
            !.energy = Append(@, [from |-> b.stress, to |-> c.stress]),
            !.out = IF p \in PlaneStress THEN out ELSE @]

Store(t) ==
  /\ pc[t] = "store"
  /\ buf' = [buf EXCEPT ![t] = Stored(buf[t], Cached(t), point[t], guess[t])]
  /\ Goto(t, "returned")
  /\ UNCHANGED <<models, cache, point, arg, guess, iter, request, hostVars, over>>

\* A setup fault ends the analysis: a call with an element family, arrays or a
\* rotation the layer cannot serve, a name that is not registered, a model that
\* cannot be built, constants that contradict those it was built from or are too
\* few, a history that STATEV cannot hold.
Fatal(t) ==
  /\ \/ pc[t] \in {"entered", "trial"} /\ ~arg[t].sound
     \/ /\ pc[t] = "entered" /\ Cached(t) # NoContext
        /\ ~Matches(Cached(t), Live[name(t)], arg[t].props)
     \/ pc[t] = "lookup" /\ name(t) \notin models
     \/ pc[t] = "building" /\ ~Buildable(name(t), arg[t].props)
     \/ pc[t] = "ready" /\ \E i \in Live[name(t)] : i > Len(arg[t].props)
     \/ pc[t] = "store"
  /\ over' = TRUE
  /\ UNCHANGED <<models, cache, threadVars, hostVars>>

\* The host has the arrays again, and what the call kept of its own is gone.
Return(t) ==
  /\ pc[t] = "returned"
  /\ trial' = [trial EXCEPT ![point[t]] =
                 IF request[t] THEN NoState ELSE [buf[t] EXCEPT !.plane = arg[t].plane]]
  /\ cut' = (cut \/ request[t])
  /\ arg' = [arg EXCEPT ![t] = NoArgs] /\ buf' = [buf EXCEPT ![t] = Virgin]
  /\ guess' = [guess EXCEPT ![t] = Flat] /\ iter' = [iter EXCEPT ![t] = 0]
  /\ request' = [request EXCEPT ![t] = FALSE]
  /\ Goto(t, "idle")
  /\ UNCHANGED <<models, cache, point, accepted, increments, over>>

AllIdle == \A t \in Thread : pc[t] = "idle"

\* The host has converged: it takes the new state of every point.
Accept ==
  /\ AllIdle /\ ~cut /\ increments < MaxIncrements
  /\ \A p \in Point : trial[p] # NoState
  /\ accepted' = trial /\ trial' = [p \in Point |-> NoState]
  /\ increments' = increments + 1
  /\ UNCHANGED <<models, cache, threadVars, cut, over>>

\* It discards the increment and begins it again, a smaller one.
Cutback ==
  /\ AllIdle /\ cut
  /\ trial' = [p \in Point |-> NoState] /\ cut' = FALSE
  /\ UNCHANGED <<models, cache, threadVars, accepted, increments, over>>

Step(t) ==
  \/ Hit(t) \/ Miss(t) \/ Lookup(t) \/ Build(t) \/ BindProps(t)
  \/ Prepare(t) \/ Evaluate(t) \/ EvaluateThrows(t)
  \/ Equilibrium(t) \/ Correct(t) \/ GiveUp(t)
  \/ Store(t) \/ Fatal(t) \/ Return(t)

Host ==
  \/ \E n \in Name : Register(n)
  \/ \E t \in Thread : ResetThreadCache(t)
  \/ \E t \in Thread, n \in Name, a \in Deck : Query(t, n, a.props)
  \/ \E t \in Thread, p \in Point, a \in Deck : Call(t, p, a)
  \/ Accept \/ Cutback

Next == ~over /\ (Host \/ \E t \in Thread : Step(t))

Spec == Init /\ [][Next]_vars

\* Each thread goes on with the call it is in; the host need not make one.
FairSpec == Spec /\ \A t \in Thread : WF_vars(~over /\ Step(t))
-----------------------------------------------------------------------------
\* What a call with arguments a and out-of-plane strain o starts from, is driven
\* by, and answers in state s of its point.
Start(s, a) == IF a.rotate THEN Append(s.hist, Rotation) ELSE s.hist
Driven(s, a, o) == [old |-> [plane |-> s.plane, out |-> s.out],
                    new |-> [plane |-> a.plane, out |-> o]]
Answer(s, a, o) == [hist |-> Start(s, a), strain |-> Driven(s, a, o), props |-> a.props]

\* What it has to make of s: nothing else goes into it, whatever this thread
\* evaluated before.
Reference(s, a, o) ==
  [hist |-> Append(Start(s, a), [strain |-> Driven(s, a, o), props |-> a.props]),
   out |-> o, plane |-> s.plane, stress |-> Answer(s, a, o),
   energy |-> Append(s.energy, [from |-> s.stress, to |-> Answer(s, a, o)])]

Succeeded(t) == pc[t] = "returned" /\ ~request[t]

\* The evaluator is stateless: what a call returns is determined by what the host
\* passed to it, although the context has served other points, increments,
\* constants and element families, and has failed, before.
CallIsStateless ==
  \A t \in Thread : Succeeded(t) =>
    buf[t] = Reference(accepted[point[t]], arg[t], buf[t].out)

\* A call that asks for a smaller increment leaves STATEV and the energies as
\* they were and zeroes its outputs.
CutbackIsClean ==
  \A t \in Thread : pc[t] = "returned" /\ request[t] =>
    buf[t] = [accepted[point[t]] EXCEPT !.stress = Zero]

\* No setup fault is answered with a result or with a smaller increment: a call
\* that returns is one of a registered model that can be built, and its baked
\* constants are those the context was built from.
OnlySoundCallsReturn ==
  \A t \in Thread : pc[t] = "returned" =>
    /\ arg[t].sound /\ name(t) \in models
    /\ Buildable(name(t), Cached(t).props)
    /\ Len(Cached(t).props) = Len(arg[t].props)
    /\ \A i \in (1 .. Len(arg[t].props)) \ Live[name(t)] :
         Cached(t).props[i] = arg[t].props[i]

\* The state of a point moves with the increments of the host only, each time by
\* one evaluation of its own: no trial that was repeated, cut back or belongs to
\* another point is in it.
IncrementFollows ==
  accepted' # accepted =>
    \A p \in Point : \E a \in Deck, o \in Out :
      accepted'[p] = [Reference(accepted[p], a, o) EXCEPT !.plane = a.plane]

\* Each step of the system is such a one.
StepsFollow == [][IncrementFollows]_vars

\* Every call returns, or the analysis has been terminated.
CallsReturn == \A t \in Thread : pc[t] # "idle" ~> pc[t] = "idle" \/ over

\* The arrays of a call are the host's until they are written at its end.
BuffersUntouched ==
  \A t \in Thread : pc[t] \notin {"idle", "returned"} =>
    buf[t] = accepted[point[t]] /\ ~request[t] /\ arg[t] \in Deck

\* The context a call works on, from the moment it has one.
ContextInPlace ==
  \A t \in Thread :
    /\ pc[t] = "building" => name(t) \in models
    /\ \A n \in Name : cache[t][n] # NoContext =>
         n \in models /\ Buildable(n, cache[t][n].props)
    /\ pc[t] \in {"ready", "trial", "prepared", "solve", "store", "returned"} =>
         Cached(t) # NoContext /\ Matches(Cached(t), Live[name(t)], arg[t].props)
    /\ pc[t] \in {"trial", "prepared", "solve", "store"} =>
         Cached(t).live = arg[t].props
    /\ pc[t] \in {"prepared", "solve", "store", "returned"} => arg[t].sound

\* A failure is not held against the next call of the thread, and what a trial
\* starts from and leaves is that of its own point.
TrialIsOwn ==
  \A t \in Thread :
    /\ pc[t] = "prepared" =>
         /\ ~Cached(t).failed
         /\ Cached(t).hist.old = Start(accepted[point[t]], arg[t])
         /\ Cached(t).strain = Driven(accepted[point[t]], arg[t], guess[t])
    /\ pc[t] \in {"solve", "store"} =>
         /\ Cached(t).stress = Answer(accepted[point[t]], arg[t], guess[t])
         /\ Cached(t).hist.new = Reference(accepted[point[t]], arg[t], guess[t]).hist
    /\ pc[t] = "solve" => point[t] \in PlaneStress
    /\ point[t] \notin PlaneStress /\ pc[t] \in {"trial", "prepared", "store"} =>
         guess[t] = accepted[point[t]].out

\* The results of this increment are evaluations of their points, and no two
\* threads evaluate the same one.
TrialsFollow ==
  /\ \A p \in Point : trial[p] # NoState =>
       \E a \in Deck, o \in Out :
         trial[p] = [Reference(accepted[p], a, o) EXCEPT !.plane = a.plane]
  /\ \A t, u \in Thread :
       t # u /\ pc[t] # "idle" /\ pc[u] # "idle" => point[t] # point[u]
  /\ \A t \in Thread : pc[t] = "returned" => arg[t] \in Deck

\* The inductive invariant.
UmatInv ==
  /\ TypeOK
  /\ BuffersUntouched /\ ContextInPlace /\ TrialIsOwn /\ TrialsFollow
  /\ CallIsStateless /\ CutbackIsClean /\ OnlySoundCallsReturn
=============================================================================
