----------------------------- MODULE UmatProofs -----------------------------
(***************************************************************************)
(* Theorems about the UMAT layer, for every set of threads, points, names  *)
(* and arguments and every bound.                                          *)
(***************************************************************************)
EXTENDS Umat, TLAPS

\* The constants the materials read are those of the call.
LEMMA ReadsTheCall ==
  ASSUME NEW c \in Context, NEW live, NEW props \in Constants,
         Matches(c, live, props), c.live = props
  PROVE  Read(c, live) = props
<1>1. \A i \in 1 .. Len(c.props) : (IF i \in live THEN c.live[i] ELSE c.props[i]) = props[i]
  BY DEF Matches
<1>2. Len(c.props) = Len(props) /\ props = [i \in 1 .. Len(props) |-> props[i]]
  BY DEF Matches, Constants
<1> QED
  BY <1>1, <1>2 DEF Read

LEMMA FreshContext ==
  ASSUME NEW props \in Constants
  PROVE  /\ Fresh(props) \in Context /\ Fresh(props).props = props
         /\ \A live : Matches(Fresh(props), live, props)
<1>1. [plane |-> Rest, out |-> Flat] \in Strain
  BY ContextAssumption DEF Strain
<1>2. <<>> \in History /\ Zero \in Stress
  BY DEF History, Stress
<1> QED
  BY <1>1, <1>2 DEF Fresh, Context, Matches, Increment

LEMMA PreparedContext ==
  ASSUME NEW c \in Context, NEW s \in State, NEW a \in Args, NEW d \in Increment,
         NEW w, w = Prepared(c, s.hist, a.rotate, d)
  PROVE  /\ w \in Context /\ w.props = c.props /\ w.live = c.live
         /\ ~w.failed /\ w.strain = d
         /\ w.hist.old = Start(s, a)
<1> DEFINE h == s.hist
           g == Start(s, a)
           r == Reset(c)
           l == LoadHistory(r, h)
           o == Loaded(r, h, a.rotate)
<1>1. r \in Context /\ r.props = c.props /\ r.live = c.live /\ ~r.failed
  BY DEF Reset, Context, Increment
<1>2. h \in History /\ g \in History
  BY DEF Start, State, History, Entry
<1>3. /\ l \in Context /\ l.props = c.props /\ l.live = c.live /\ ~l.failed
      /\ l.hist = [old |-> h, new |-> h]
  BY <1>1, <1>2 DEF LoadHistory, Context
<1>4. o = [l EXCEPT !.hist = [old |-> g, new |-> g]]
  <2>1. CASE a.rotate
    BY <2>1, <1>3 DEF Loaded, RotateHistory, Start
  <2>2. CASE ~a.rotate
    <3>1. l = [l EXCEPT !.hist = [old |-> h, new |-> h]]
      BY <1>3 DEF Context
    <3> QED
      BY <2>2, <3>1 DEF Loaded, Start
  <2> QED
    BY <2>1, <2>2
<1>5. w = [o EXCEPT !.strain = d]
  BY DEF Prepared, BindStrain
<1> HIDE DEF h, g, l, o
<1>6. /\ o \in Context /\ o.props = c.props /\ o.live = c.live /\ ~o.failed
      /\ o.hist.old = g
  BY <1>2, <1>3, <1>4 DEF Context
<1> QED
  BY <1>5, <1>6 DEF g, Context

LEMMA EvaluatedContext ==
  ASSUME NEW c \in Context, NEW live, NEW props \in Constants,
         Matches(c, live, props), c.live = props
  PROVE  LET w == Evaluated(c, live)
         IN  /\ w \in Context /\ w.props = c.props /\ w.live = c.live
             /\ w.stress = [hist |-> c.hist.old, strain |-> c.strain, props |-> props]
             /\ w.hist.new = Append(c.hist.old, [strain |-> c.strain, props |-> props])
<1> DEFINE e == [strain |-> c.strain, props |-> props]
           s == [hist |-> c.hist.old, strain |-> c.strain, props |-> props]
<1>1. Read(c, live) = props
  BY ReadsTheCall
<1>2. c.hist.old \in History /\ c.strain \in Increment
  BY DEF Context
<1>3. Append(c.hist.old, e) \in History /\ s \in Stress
  BY <1>2 DEF History, Entry, Stress, Result
<1>4. Evaluated(c, live) = [c EXCEPT !.hist.new = Append(c.hist.old, e), !.stress = s]
  BY <1>1 DEF Evaluated
<1> HIDE DEF e, s
<1>5. [c EXCEPT !.hist.new = Append(c.hist.old, e), !.stress = s] \in Context
  BY <1>3 DEF Context
<1>6. /\ Evaluated(c, live).props = c.props /\ Evaluated(c, live).live = c.live
      /\ Evaluated(c, live).stress = s
      /\ Evaluated(c, live).hist.new = Append(c.hist.old, e)
  BY <1>4 DEF Context
<1> QED
  BY <1>4, <1>5, <1>6 DEF e, s

LEMMA ThrownContext ==
  ASSUME NEW c \in Context, NEW live, NEW props \in Constants,
         Matches(c, live, props), c.live = props,
         NEW w \in Thrown(c, live)
  PROVE  w \in Context /\ w.props = c.props
<1>1. Evaluated(c, live) \in Context /\ Evaluated(c, live).props = c.props
  BY EvaluatedContext
<1>2. PICK f \in BOOLEAN, x \in {c, Evaluated(c, live)} : w = [x EXCEPT !.failed = f]
  BY DEF Thrown
<1>3. x \in Context /\ x.props = c.props
  BY <1>1, <1>2
<1> QED
  BY <1>2, <1>3 DEF Context

\* The terms of the reference are of their types.
LEMMA ReferenceTypes ==
  ASSUME NEW s \in State, NEW a \in Args, NEW o \in Out
  PROVE  /\ Start(s, a) \in History /\ Driven(s, a, o) \in Increment
         /\ Answer(s, a, o) \in Result /\ Reference(s, a, o) \in State
<1>1. Start(s, a) \in History
  BY DEF Start, State, History, Entry
<1>2. Driven(s, a, o) \in Increment
  BY DEF Driven, State, Args, Increment, Strain
<1>3. Answer(s, a, o) \in Result
  BY <1>1, <1>2 DEF Answer, Result, Args
<1>4. Append(Start(s, a), [strain |-> Driven(s, a, o), props |-> a.props]) \in History
  BY <1>1, <1>2 DEF Args, History, Entry
<1>5. Append(s.energy, [from |-> s.stress, to |-> Answer(s, a, o)])
        \in Seq([from : Stress, to : Result])
  BY <1>3 DEF State
<1>6. s.plane \in Plane /\ Answer(s, a, o) \in Stress
  BY <1>3 DEF State, Stress
<1> QED
  BY <1>1, <1>2, <1>3, <1>4, <1>5, <1>6 DEF Reference, State

-----------------------------------------------------------------------------
\* The part of the invariant about one thread, of the values it is about: the
\* registered models, its contexts, its place, point, arguments, arrays, iterate and
\* request, and the accepted state of its point.
Own(ms, ctxs, place, p, a, b, g, rq, s) ==
  /\ place \notin {"idle", "returned"} => b = s /\ ~rq
  /\ place # "idle" => a \in Deck
  /\ place = "building" => Material[p] \in ms
  /\ \A n \in Name : ctxs[n] # NoContext => n \in ms /\ Buildable(n, ctxs[n].props)
  /\ place \in {"ready", "trial", "prepared", "solve", "store", "returned"} =>
       /\ ctxs[Material[p]] # NoContext
       /\ Matches(ctxs[Material[p]], Live[Material[p]], a.props)
  /\ place \in {"trial", "prepared", "solve", "store"} => ctxs[Material[p]].live = a.props
  /\ place \in {"prepared", "solve", "store", "returned"} => a.sound
  /\ place = "prepared" =>
       /\ ~ctxs[Material[p]].failed
       /\ ctxs[Material[p]].hist.old = Start(s, a)
       /\ ctxs[Material[p]].strain = Driven(s, a, g)
  /\ place \in {"solve", "store"} =>
       /\ ctxs[Material[p]].stress = Answer(s, a, g)
       /\ ctxs[Material[p]].hist.new = Reference(s, a, g).hist
  /\ place = "solve" => p \in PlaneStress
  /\ p \notin PlaneStress /\ place \in {"trial", "prepared", "store"} => g = s.out
  /\ place = "returned" /\ ~rq => b = Reference(s, a, b.out)
  /\ place = "returned" /\ rq => b = [s EXCEPT !.stress = Zero]

OwnOf(t) == Own(models, cache[t], pc[t], point[t], arg[t], buf[t], guess[t], request[t],
                accepted[point[t]])

Exclusive == \A t, u \in Thread :
  t # u /\ pc[t] # "idle" /\ pc[u] # "idle" => point[t] # point[u]

Follows(s, new) == \E a \in Deck, o \in Out :
  new = [Reference(s, a, o) EXCEPT !.plane = a.plane]

TrialFollows == \A p \in Point : trial[p] # NoState => Follows(accepted[p], trial[p])

Parts == TypeOK /\ (\A t \in Thread : OwnOf(t)) /\ Exclusive /\ TrialFollows

\* The invariant by its conjuncts is the invariant by threads.
LEMMA PartsOfInv == UmatInv => Parts
<1> SUFFICES ASSUME UmatInv PROVE Parts
  OBVIOUS
<1>1. ASSUME NEW t \in Thread PROVE OwnOf(t)
  <2>1. pc[t] \in Places
    BY DEF UmatInv, TypeOK
  <2> QED
    BY <2>1 DEF UmatInv, BuffersUntouched, ContextInPlace, TrialIsOwn, TrialsFollow,
       CallIsStateless, CutbackIsClean, OnlySoundCallsReturn, OwnOf, Own, Cached, name,
       Succeeded, Places
<1>2. Exclusive /\ TrialFollows
  BY DEF UmatInv, TrialsFollow, Exclusive, TrialFollows, Follows
<1> QED
  BY <1>1, <1>2 DEF UmatInv, Parts

LEMMA InvOfParts == Parts => UmatInv
<1> SUFFICES ASSUME Parts PROVE UmatInv
  OBVIOUS
<1>1. BuffersUntouched
  BY DEF Parts, OwnOf, Own, BuffersUntouched
<1>2. ContextInPlace
  BY DEF Parts, OwnOf, Own, ContextInPlace, Cached, name
<1>3. TrialIsOwn
  BY DEF Parts, OwnOf, Own, TrialIsOwn, Cached, name
<1>4. TrialsFollow
  BY DEF Parts, OwnOf, Own, TrialsFollow, Exclusive, TrialFollows, Follows
<1>5. CallIsStateless
  BY DEF Parts, OwnOf, Own, CallIsStateless, Succeeded
<1>6. CutbackIsClean
  BY DEF Parts, OwnOf, Own, CutbackIsClean
<1>7. OnlySoundCallsReturn
  <2> SUFFICES ASSUME NEW t \in Thread, pc[t] = "returned"
               PROVE  /\ arg[t].sound /\ name(t) \in models
                      /\ Buildable(name(t), Cached(t).props)
                      /\ Matches(Cached(t), Live[name(t)], arg[t].props)
    BY DEF OnlySoundCallsReturn, Matches
  <2>1. OwnOf(t) /\ name(t) \in Name
    BY UmatAssumption DEF Parts, TypeOK, name
  <2> QED
    BY <2>1 DEF OwnOf, Own, Cached, name
<1> QED
  BY <1>1, <1>2, <1>3, <1>4, <1>5, <1>6, <1>7 DEF UmatInv, Parts

LEMMA InitParts == Init => Parts
<1> SUFFICES ASSUME Init PROVE Parts
  OBVIOUS
<1>1. <<>> \in History /\ <<>> \in Seq([from : Stress, to : Result])
  BY DEF History
<1>2. Virgin \in State /\ NoArgs \in Args
  BY <1>1, ContextAssumption DEF Virgin, NoArgs, State, Args, Stress, Constants
<1>3. TypeOK
  <2>1. models \subseteq Name /\ cache \in [Thread -> Caches]
    BY DEF Init, Caches
  <2>2. pc \in [Thread -> Places] /\ point \in [Thread -> Point]
    BY DEF Init, Places
  <2>3. arg \in [Thread -> Args] /\ buf \in [Thread -> State]
    BY <1>2 DEF Init
  <2>4. /\ guess \in [Thread -> Out] /\ iter \in [Thread -> 0 .. MaxIter - 1]
        /\ request \in [Thread -> BOOLEAN]
    BY ContextAssumption, UmatAssumption DEF Init
  <2>5. accepted \in [Point -> State] /\ trial \in [Point -> State \cup {NoState}]
    BY <1>2 DEF Init
  <2>6. cut \in BOOLEAN /\ over \in BOOLEAN
    BY DEF Init
  <2>7. increments \in 0 .. MaxIncrements
    BY UmatAssumption DEF Init
  <2> QED
    BY <2>1, <2>2, <2>3, <2>4, <2>5, <2>6, <2>7 DEF TypeOK
<1>4. ASSUME NEW t \in Thread PROVE OwnOf(t)
  <2>1. pc[t] = "idle" /\ cache[t] = [n \in Name |-> NoContext]
    BY DEF Init
  <2> QED
    BY <2>1 DEF OwnOf, Own
<1>5. Exclusive /\ TrialFollows
  BY DEF Init, Exclusive, TrialFollows
<1> QED
  BY <1>3, <1>4, <1>5 DEF Parts

\* A registration takes nothing from a thread.
LEMMA OwnGrows ==
  ASSUME NEW ms, NEW more, ms \subseteq more,
         NEW ctxs, NEW place, NEW p, NEW a, NEW b, NEW g, NEW rq, NEW s,
         Own(ms, ctxs, place, p, a, b, g, rq, s)
  PROVE  Own(more, ctxs, place, p, a, b, g, rq, s)
BY DEF Own

\* What a step of t leaves alone: the other threads.
Others(t) == \A u \in Thread : u # t =>
  /\ cache'[u] = cache[u] /\ pc'[u] = pc[u] /\ point'[u] = point[u] /\ arg'[u] = arg[u]
  /\ buf'[u] = buf[u] /\ guess'[u] = guess[u] /\ request'[u] = request[u]

\* A step of t within its call.
Local(t) ==
  /\ Others(t) /\ point'[t] = point[t] /\ pc[t] # "idle"
  /\ UNCHANGED <<models, accepted, trial>>

LEMMA OthersKeep ==
  ASSUME NEW t \in Thread, NEW u \in Thread, u # t, OwnOf(u), Others(t),
         models' = models, accepted' = accepted
  PROVE  OwnOf(u)'
BY DEF OwnOf, Others

LEMMA LocalStep ==
  ASSUME Parts, NEW t \in Thread, Local(t), TypeOK', OwnOf(t)'
  PROVE  Parts'
<1>1. ASSUME NEW u \in Thread PROVE OwnOf(u)'
  <2>1. CASE u = t
    BY <2>1
  <2>2. CASE u # t
    BY <2>2, OthersKeep DEF Parts, Local
  <2> QED
    BY <2>1, <2>2
<1>2. Exclusive'
  <2> SUFFICES ASSUME NEW u \in Thread, NEW v \in Thread,
                      u # v, pc'[u] # "idle", pc'[v] # "idle"
               PROVE  point'[u] # point'[v]
    BY DEF Exclusive
  <2>1. point'[u] = point[u] /\ point'[v] = point[v] /\ pc[u] # "idle" /\ pc[v] # "idle"
    BY DEF Local, Others
  <2> QED
    BY <2>1 DEF Parts, Exclusive
<1>3. TrialFollows'
  BY DEF Parts, TrialFollows, Local
<1> QED
  BY <1>1, <1>2, <1>3 DEF Parts

\* What SetContext writes.
LEMMA ContextIsSet ==
  ASSUME TypeOK, NEW t \in Thread, NEW c \in Context, SetContext(t, c)
  PROVE  /\ name(t) \in Name /\ cache' \in [Thread -> Caches]
         /\ cache'[t][name(t)] = c
         /\ \A n \in Name : n # name(t) => cache'[t][n] = cache[t][n]
         /\ \A u \in Thread : u # t => cache'[u] = cache[u]
<1>1. name(t) \in Name
  BY UmatAssumption DEF TypeOK, name
<1>2. cache \in [Thread -> [Name -> Context \cup {NoContext}]]
  BY DEF TypeOK, Caches
<1>3. cache' = [cache EXCEPT ![t] = [cache[t] EXCEPT ![name(t)] = c]]
  BY <1>2 DEF SetContext
<1>4. [cache[t] EXCEPT ![name(t)] = c] \in Caches
  BY <1>2 DEF Caches
<1>5. cache' \in [Thread -> Caches]
  BY <1>3, <1>4 DEF TypeOK
<1> QED
  BY <1>1, <1>2, <1>3, <1>5

\* The facts about the call of t that every step of it uses.
LEMMA CallFacts ==
  ASSUME Parts, NEW t \in Thread, pc[t] # "idle"
  PROVE  /\ name(t) = Material[point[t]] /\ name(t) \in Name
         /\ point[t] \in Point /\ accepted[point[t]] \in State
         /\ arg[t] \in Deck /\ arg[t] \in Args /\ arg[t].props \in Constants
         /\ buf[t] \in State /\ guess[t] \in Out /\ cache[t] \in Caches
         /\ Cached(t) # NoContext => Cached(t) \in Context
         /\ pc[t] \in {"ready", "trial", "prepared", "solve", "store", "returned"} =>
              Cached(t) # NoContext
<1>1. point[t] \in Point /\ name(t) = Material[point[t]] /\ name(t) \in Name
  BY UmatAssumption DEF Parts, TypeOK, name
<1>2. cache[t] \in Caches /\ Cached(t) = cache[t][name(t)]
  BY DEF Parts, TypeOK, Cached
<1>3. arg[t] \in Args /\ arg[t] \in Deck /\ buf[t] \in State /\ guess[t] \in Out
  BY DEF Parts, TypeOK, OwnOf, Own
<1>4. OwnOf(t)
  BY DEF Parts
<1> QED
  BY <1>1, <1>2, <1>3, <1>4 DEF Parts, TypeOK, Caches, Args, OwnOf, Own

-----------------------------------------------------------------------------
\* Each step of a call keeps the parts.
LEMMA HitKeeps ==
  ASSUME Parts, NEW t \in Thread, Hit(t) PROVE Parts'
<1>1. Local(t)
  BY DEF Hit, hostVars, Local, Others, Goto, Parts, TypeOK
<1>2. TypeOK'
  BY DEF Hit, hostVars, Goto, Parts, TypeOK, Places
<1>3. OwnOf(t)'
  <2>1. pc'[t] = "ready" /\ OwnOf(t)
    BY DEF Hit, hostVars, Goto, Parts, TypeOK
  <2> QED
    BY <2>1 DEF Hit, hostVars, OwnOf, Own, Cached, name
<1> QED
  BY <1>1, <1>2, <1>3, LocalStep

LEMMA MissKeeps ==
  ASSUME Parts, NEW t \in Thread, Miss(t) PROVE Parts'
<1>1. Local(t)
  BY DEF Miss, hostVars, Local, Others, Goto, Parts, TypeOK
<1>2. TypeOK'
  BY DEF Miss, hostVars, Goto, Parts, TypeOK, Places
<1>3. OwnOf(t)'
  <2>1. pc'[t] = "lookup" /\ OwnOf(t)
    BY DEF Miss, hostVars, Goto, Parts, TypeOK
  <2> QED
    BY <2>1 DEF Miss, hostVars, OwnOf, Own
<1> QED
  BY <1>1, <1>2, <1>3, LocalStep

LEMMA LookupKeeps ==
  ASSUME Parts, NEW t \in Thread, Lookup(t) PROVE Parts'
<1>1. Local(t)
  BY DEF Lookup, hostVars, Local, Others, Goto, Parts, TypeOK
<1>2. TypeOK'
  BY DEF Lookup, hostVars, Goto, Parts, TypeOK, Places
<1>3. OwnOf(t)'
  <2>1. pc'[t] = "building" /\ OwnOf(t)
    BY DEF Lookup, hostVars, Goto, Parts, TypeOK
  <2> QED
    BY <2>1 DEF Lookup, hostVars, OwnOf, Own, name
<1> QED
  BY <1>1, <1>2, <1>3, LocalStep

LEMMA BuildKeeps ==
  ASSUME Parts, NEW t \in Thread, Build(t) PROVE Parts'
<1> DEFINE c == Fresh(arg[t].props)
<1>1. pc[t] = "building" /\ SetContext(t, c) /\ Buildable(name(t), arg[t].props)
  BY DEF Build
<1>2. c \in Context /\ c.props = arg[t].props /\ \A live : Matches(c, live, arg[t].props)
  BY <1>1, CallFacts, FreshContext
<1> HIDE DEF c
<1>3. /\ name(t) \in Name /\ cache' \in [Thread -> Caches] /\ cache'[t][name(t)] = c
      /\ \A n \in Name : n # name(t) => cache'[t][n] = cache[t][n]
      /\ \A u \in Thread : u # t => cache'[u] = cache[u]
  BY <1>1, <1>2, ContextIsSet DEF Parts
<1>4. Local(t)
  BY <1>3 DEF Build, hostVars, Local, Others, Goto, Parts, TypeOK
<1>5. TypeOK'
  BY <1>3 DEF Build, hostVars, Goto, Parts, TypeOK, Places
<1>6. OwnOf(t)'
  <2>1. pc'[t] = "ready" /\ OwnOf(t) /\ c # NoContext
    BY <1>2, UmatAssumption DEF Build, hostVars, Goto, Parts, TypeOK
  <2>2. name(t) \in models /\ buf[t] = accepted[point[t]] /\ ~request[t] /\ arg[t] \in Deck
    BY <1>1, <2>1 DEF OwnOf, Own, name
  <2>3. \A n \in Name : cache'[t][n] # NoContext => n \in models /\ Buildable(n, cache'[t][n].props)
    BY <1>1, <1>2, <1>3, <2>1, <2>2 DEF OwnOf, Own
  <2>4. /\ models' = models /\ point' = point /\ arg' = arg /\ buf' = buf
        /\ request' = request /\ accepted' = accepted
    BY DEF Build, hostVars
  <2> QED
    BY <1>2, <1>3, <2>1, <2>2, <2>3, <2>4 DEF OwnOf, Own, name
<1> QED
  BY <1>4, <1>5, <1>6, LocalStep

\* A step that writes the context and keeps the constants it was built from.
LEMMA ContextIsKept ==
  ASSUME Parts, NEW t \in Thread, NEW c \in Context, SetContext(t, c),
         pc[t] \in {"ready", "trial", "prepared", "solve", "store", "returned"},
         c.props = Cached(t).props
  PROVE  /\ name(t) \in Name /\ cache' \in [Thread -> Caches]
         /\ cache'[t][name(t)] = c /\ c # NoContext
         /\ \A u \in Thread : u # t => cache'[u] = cache[u]
         /\ \A n \in Name : cache'[t][n] # NoContext =>
              n \in models /\ Buildable(n, cache'[t][n].props)
         /\ Matches(c, Live[name(t)], arg[t].props)
<1>1. /\ name(t) \in Name /\ cache' \in [Thread -> Caches] /\ cache'[t][name(t)] = c
      /\ \A n \in Name : n # name(t) => cache'[t][n] = cache[t][n]
      /\ \A u \in Thread : u # t => cache'[u] = cache[u]
  BY ContextIsSet DEF Parts
<1>2. c # NoContext
  BY UmatAssumption
<1>3. OwnOf(t)
  BY DEF Parts
<1>4. Cached(t) # NoContext /\ Matches(Cached(t), Live[name(t)], arg[t].props)
  BY <1>3 DEF OwnOf, Own, Cached, name
<1>5. Matches(c, Live[name(t)], arg[t].props)
  BY <1>4 DEF Matches
<1>6. \A n \in Name : cache'[t][n] # NoContext =>
        n \in models /\ Buildable(n, cache'[t][n].props)
  BY <1>1, <1>3, <1>4 DEF OwnOf, Own, Cached
<1> QED
  BY <1>1, <1>2, <1>5, <1>6

LEMMA BindPropsKeeps ==
  ASSUME Parts, NEW t \in Thread, BindProps(t) PROVE Parts'
<1> DEFINE c == [Cached(t) EXCEPT !.live = arg[t].props]
<1>1. pc[t] = "ready" /\ SetContext(t, c)
  BY DEF BindProps
<1>2. Cached(t) \in Context /\ arg[t].props \in Constants
  BY <1>1, CallFacts
<1>3. c \in Context /\ c.props = Cached(t).props /\ c.live = arg[t].props
  BY <1>2 DEF Context
<1> HIDE DEF c
<1>4. /\ name(t) \in Name /\ cache' \in [Thread -> Caches]
      /\ cache'[t][name(t)] = c /\ c # NoContext
      /\ \A u \in Thread : u # t => cache'[u] = cache[u]
      /\ \A n \in Name : cache'[t][n] # NoContext =>
           n \in models /\ Buildable(n, cache'[t][n].props)
      /\ Matches(c, Live[name(t)], arg[t].props)
  BY <1>1, <1>3, ContextIsKept
<1>5. Local(t)
  BY <1>4 DEF BindProps, hostVars, Local, Others, Goto, Parts, TypeOK
<1>6. TypeOK'
  <2>1. buf[t].out \in Out /\ 0 \in 0 .. MaxIter - 1
    BY <1>1, CallFacts, UmatAssumption DEF State
  <2> QED
    BY <1>4, <2>1 DEF BindProps, hostVars, Goto, Parts, TypeOK, Places
<1>7. OwnOf(t)'
  <2>1. pc'[t] = "trial" /\ guess'[t] = buf[t].out /\ OwnOf(t)
    BY DEF BindProps, Goto, Parts, TypeOK
  <2>2. buf[t] = accepted[point[t]] /\ ~request[t] /\ arg[t] \in Deck
    BY <1>1, <2>1 DEF OwnOf, Own
  <2>3. /\ models' = models /\ point' = point /\ arg' = arg /\ buf' = buf
        /\ request' = request /\ accepted' = accepted
    BY DEF BindProps, hostVars
  <2> QED
    BY <1>3, <1>4, <2>1, <2>2, <2>3 DEF OwnOf, Own, name
<1> QED
  BY <1>5, <1>6, <1>7, LocalStep

LEMMA PrepareKeeps ==
  ASSUME Parts, NEW t \in Thread, Prepare(t) PROVE Parts'
<1> DEFINE s == accepted[point[t]]
           d == Trial(t)
           c == Prepared(Cached(t), buf[t].hist, arg[t].rotate, d)
<1>1. pc[t] = "trial" /\ arg[t].sound /\ SetContext(t, c)
  BY DEF Prepare
<1>2. /\ Cached(t) \in Context /\ arg[t] \in Args /\ buf[t] \in State
      /\ guess[t] \in Out
  BY <1>1, CallFacts
<1>3. OwnOf(t)
  BY DEF Parts
<1>4. buf[t] = s /\ ~request[t] /\ arg[t] \in Deck /\ Cached(t).live = arg[t].props
  BY <1>1, <1>3 DEF OwnOf, Own, Cached, name
<1>5. d = Driven(s, arg[t], guess[t]) /\ d \in Increment
  BY <1>2, <1>4, ReferenceTypes DEF Trial, Driven
<1> HIDE DEF d
<1>6. /\ c \in Context /\ c.props = Cached(t).props /\ c.live = arg[t].props
      /\ ~c.failed /\ c.strain = Driven(s, arg[t], guess[t])
      /\ c.hist.old = Start(s, arg[t])
  <2>1. /\ c \in Context /\ c.props = Cached(t).props /\ c.live = Cached(t).live
        /\ ~c.failed /\ c.strain = d /\ c.hist.old = Start(buf[t], arg[t])
    BY <1>2, <1>5, PreparedContext
  <2> HIDE DEF c, s
  <2> QED
    BY <2>1, <1>4, <1>5
<1> HIDE DEF c, s
<1>7. /\ name(t) \in Name /\ cache' \in [Thread -> Caches]
      /\ cache'[t][name(t)] = c /\ c # NoContext
      /\ \A u \in Thread : u # t => cache'[u] = cache[u]
      /\ \A n \in Name : cache'[t][n] # NoContext =>
           n \in models /\ Buildable(n, cache'[t][n].props)
      /\ Matches(c, Live[name(t)], arg[t].props)
  BY <1>1, <1>6, ContextIsKept
<1>8. Local(t)
  BY <1>7 DEF Prepare, hostVars, Local, Others, Goto, Parts, TypeOK
<1>9. TypeOK'
  BY <1>7 DEF Prepare, hostVars, Goto, Parts, TypeOK, Places
<1>10. OwnOf(t)'
  <2>1. pc'[t] = "prepared"
    BY DEF Prepare, Goto, Parts, TypeOK
  <2>2. point[t] \notin PlaneStress => guess[t] = s.out
    BY <1>1, <1>3 DEF OwnOf, Own, s
  <2>3. /\ models' = models /\ point' = point /\ arg' = arg /\ buf' = buf
        /\ guess' = guess /\ request' = request /\ accepted' = accepted
    BY DEF Prepare, hostVars
  <2>4. Own(models, cache'[t], "prepared", point[t], arg[t], buf[t], guess[t], request[t], s)
    BY <1>1, <1>4, <1>6, <1>7, <2>2 DEF Own, name
  <2> QED
    BY <2>1, <2>3, <2>4 DEF OwnOf, s
<1> QED
  BY <1>8, <1>9, <1>10, LocalStep

LEMMA EvaluateKeeps ==
  ASSUME Parts, NEW t \in Thread, Evaluate(t) PROVE Parts'
<1> DEFINE s == accepted[point[t]]
           c == Evaluated(Cached(t), Live[name(t)])
           place == IF point[t] \in PlaneStress THEN "solve" ELSE "store"
<1>1. pc[t] = "prepared" /\ SetContext(t, c)
  BY DEF Evaluate
<1>2. Cached(t) \in Context /\ arg[t].props \in Constants
  BY <1>1, CallFacts
<1>3. OwnOf(t)
  BY DEF Parts
<1>4. /\ buf[t] = s /\ ~request[t] /\ arg[t] \in Deck /\ arg[t].sound
      /\ Cached(t).live = arg[t].props
      /\ Matches(Cached(t), Live[name(t)], arg[t].props)
      /\ Cached(t).hist.old = Start(s, arg[t])
      /\ Cached(t).strain = Driven(s, arg[t], guess[t])
  BY <1>1, <1>3 DEF OwnOf, Own, Cached, name
<1>5. /\ c \in Context /\ c.props = Cached(t).props /\ c.live = arg[t].props
      /\ c.stress = Answer(s, arg[t], guess[t])
      /\ c.hist.new = Reference(s, arg[t], guess[t]).hist
  BY <1>2, <1>4, EvaluatedContext DEF Answer, Reference
<1> HIDE DEF c, s
<1>6. /\ name(t) \in Name /\ cache' \in [Thread -> Caches]
      /\ cache'[t][name(t)] = c /\ c # NoContext
      /\ \A u \in Thread : u # t => cache'[u] = cache[u]
      /\ \A n \in Name : cache'[t][n] # NoContext =>
           n \in models /\ Buildable(n, cache'[t][n].props)
      /\ Matches(c, Live[name(t)], arg[t].props)
  BY <1>1, <1>5, ContextIsKept
<1>7. Local(t)
  BY <1>6 DEF Evaluate, hostVars, Local, Others, Goto, Parts, TypeOK
<1>8. TypeOK'
  BY <1>6 DEF Evaluate, hostVars, Goto, Parts, TypeOK, Places
<1>9. OwnOf(t)'
  <2>1. pc'[t] = place
    BY DEF Evaluate, Goto, Parts, TypeOK
  <2>2. point[t] \notin PlaneStress => guess[t] = s.out
    BY <1>1, <1>3 DEF OwnOf, Own, s
  <2>3. /\ models' = models /\ point' = point /\ arg' = arg /\ buf' = buf
        /\ guess' = guess /\ request' = request /\ accepted' = accepted
    BY DEF Evaluate, hostVars
  <2>4. Own(models, cache'[t], place, point[t], arg[t], buf[t], guess[t], request[t], s)
    BY <1>4, <1>5, <1>6, <2>2 DEF Own, name
  <2> QED
    BY <2>1, <2>3, <2>4 DEF OwnOf, s
<1> QED
  BY <1>7, <1>8, <1>9, LocalStep

LEMMA EquilibriumKeeps ==
  ASSUME Parts, NEW t \in Thread, Equilibrium(t) PROVE Parts'
<1>1. Local(t)
  BY DEF Equilibrium, hostVars, Local, Others, Goto, Parts, TypeOK
<1>2. TypeOK'
  BY DEF Equilibrium, hostVars, Goto, Parts, TypeOK, Places
<1>3. OwnOf(t)'
  <2>1. pc[t] = "solve" /\ pc'[t] = "store" /\ OwnOf(t)
    BY DEF Equilibrium, Goto, Parts, TypeOK
  <2> QED
    BY <2>1 DEF Equilibrium, hostVars, OwnOf, Own
<1> QED
  BY <1>1, <1>2, <1>3, LocalStep

LEMMA CorrectKeeps ==
  ASSUME Parts, NEW t \in Thread, Correct(t) PROVE Parts'
<1>1. Local(t)
  BY DEF Correct, hostVars, Local, Others, Goto, Parts, TypeOK
<1>2. TypeOK'
  <2>1. iter[t] + 1 \in 0 .. MaxIter - 1
    BY UmatAssumption DEF Correct, Parts, TypeOK
  <2>2. iter' \in [Thread -> 0 .. MaxIter - 1] /\ guess' \in [Thread -> Out]
    BY <2>1 DEF Correct, Parts, TypeOK
  <2> QED
    BY <2>2 DEF Correct, hostVars, Goto, Parts, TypeOK, Places
<1>3. OwnOf(t)'
  <2>1. pc[t] = "solve" /\ pc'[t] = "trial" /\ OwnOf(t)
    BY DEF Correct, Goto, Parts, TypeOK
  <2>2. point[t] \in PlaneStress
    BY <2>1 DEF OwnOf, Own
  <2> QED
    BY <2>1, <2>2 DEF Correct, hostVars, OwnOf, Own
<1> QED
  BY <1>1, <1>2, <1>3, LocalStep

\* What AskForCutback leaves in the arrays.
LEMMA StressIsZeroed ==
  ASSUME Parts, NEW t \in Thread, AskForCutback(t), buf[t] = accepted[point[t]]
  PROVE  /\ buf' \in [Thread -> State] /\ request' \in [Thread -> BOOLEAN]
         /\ buf'[t] = [accepted[point[t]] EXCEPT !.stress = Zero]
         /\ request'[t] = TRUE /\ pc'[t] = "returned" /\ pc' \in [Thread -> Places]
         /\ \A u \in Thread : u # t =>
              buf'[u] = buf[u] /\ request'[u] = request[u] /\ pc'[u] = pc[u]
<1> DEFINE b == [buf[t] EXCEPT !.stress = Zero]
<1>1. buf \in [Thread -> State] /\ request \in [Thread -> BOOLEAN] /\ pc \in [Thread -> Places]
  BY DEF Parts, TypeOK
<1>2. b \in State
  BY <1>1 DEF State, Stress
<1>3. buf' = [buf EXCEPT ![t] = b]
  BY <1>1 DEF AskForCutback
<1>4. request' = [request EXCEPT ![t] = TRUE] /\ pc' = [pc EXCEPT ![t] = "returned"]
  BY DEF AskForCutback, Goto
<1>5. b = [accepted[point[t]] EXCEPT !.stress = Zero]
  OBVIOUS
<1> HIDE DEF b
<1>6. buf' \in [Thread -> State] /\ buf'[t] = b /\ \A u \in Thread : u # t => buf'[u] = buf[u]
  BY <1>1, <1>2, <1>3
<1>7. /\ request' \in [Thread -> BOOLEAN] /\ request'[t] = TRUE
      /\ \A u \in Thread : u # t => request'[u] = request[u]
  BY <1>1, <1>4
<1>8. /\ pc'[t] = "returned" /\ pc' \in [Thread -> Places]
      /\ \A u \in Thread : u # t => pc'[u] = pc[u]
  BY <1>1, <1>4 DEF Places
<1> QED
  BY <1>5, <1>6, <1>7, <1>8

LEMMA EvaluateThrowsKeeps ==
  ASSUME Parts, NEW t \in Thread, EvaluateThrows(t) PROVE Parts'
<1>1. PICK c \in Thrown(Cached(t), Live[name(t)]) : SetContext(t, c)
  BY DEF EvaluateThrows
<1>2. pc[t] = "prepared" /\ AskForCutback(t)
  BY DEF EvaluateThrows
<1>3. OwnOf(t) /\ Cached(t) \in Context /\ arg[t].props \in Constants
  BY <1>2, CallFacts DEF Parts
<1>4. /\ buf[t] = accepted[point[t]] /\ arg[t] \in Deck /\ arg[t].sound
      /\ Cached(t).live = arg[t].props
      /\ Matches(Cached(t), Live[name(t)], arg[t].props)
  BY <1>2, <1>3 DEF OwnOf, Own, Cached, name
<1>5. c \in Context /\ c.props = Cached(t).props
  BY <1>3, <1>4, ThrownContext
<1>6. /\ name(t) \in Name /\ cache' \in [Thread -> Caches]
      /\ cache'[t][name(t)] = c /\ c # NoContext
      /\ \A u \in Thread : u # t => cache'[u] = cache[u]
      /\ \A n \in Name : cache'[t][n] # NoContext =>
           n \in models /\ Buildable(n, cache'[t][n].props)
      /\ Matches(c, Live[name(t)], arg[t].props)
  BY <1>1, <1>2, <1>5, ContextIsKept
<1>7. /\ buf' \in [Thread -> State] /\ request' \in [Thread -> BOOLEAN]
      /\ buf'[t] = [accepted[point[t]] EXCEPT !.stress = Zero]
      /\ request'[t] = TRUE /\ pc'[t] = "returned" /\ pc' \in [Thread -> Places]
      /\ \A u \in Thread : u # t =>
           buf'[u] = buf[u] /\ request'[u] = request[u] /\ pc'[u] = pc[u]
  BY <1>2, <1>4, StressIsZeroed
<1>8. Local(t)
  BY <1>2, <1>6, <1>7 DEF EvaluateThrows, hostVars, Local, Others
<1>9. TypeOK'
  BY <1>6, <1>7 DEF EvaluateThrows, hostVars, Parts, TypeOK
<1>10. OwnOf(t)'
  <2>1. /\ models' = models /\ point' = point /\ arg' = arg
        /\ guess' = guess /\ accepted' = accepted
    BY DEF EvaluateThrows, hostVars
  <2>2. Own(models, cache'[t], "returned", point[t], arg[t], buf'[t], guess[t], TRUE,
            accepted[point[t]])
    BY <1>4, <1>6, <1>7 DEF Own, name
  <2> QED
    BY <1>7, <2>1, <2>2 DEF OwnOf
<1> QED
  BY <1>8, <1>9, <1>10, LocalStep

LEMMA GiveUpKeeps ==
  ASSUME Parts, NEW t \in Thread, GiveUp(t) PROVE Parts'
<1>1. pc[t] = "solve" /\ AskForCutback(t) /\ OwnOf(t)
  BY DEF GiveUp, Parts
<1>2. /\ buf[t] = accepted[point[t]] /\ arg[t] \in Deck /\ arg[t].sound
      /\ cache[t][Material[point[t]]] # NoContext
      /\ Matches(cache[t][Material[point[t]]], Live[Material[point[t]]], arg[t].props)
      /\ \A n \in Name : cache[t][n] # NoContext =>
           n \in models /\ Buildable(n, cache[t][n].props)
  BY <1>1 DEF OwnOf, Own
<1>3. /\ buf' \in [Thread -> State] /\ request' \in [Thread -> BOOLEAN]
      /\ buf'[t] = [accepted[point[t]] EXCEPT !.stress = Zero]
      /\ request'[t] = TRUE /\ pc'[t] = "returned" /\ pc' \in [Thread -> Places]
      /\ \A u \in Thread : u # t =>
           buf'[u] = buf[u] /\ request'[u] = request[u] /\ pc'[u] = pc[u]
  BY <1>1, <1>2, StressIsZeroed
<1>4. Local(t)
  BY <1>1, <1>3 DEF GiveUp, hostVars, Local, Others
<1>5. TypeOK'
  BY <1>3 DEF GiveUp, hostVars, Parts, TypeOK
<1>6. OwnOf(t)'
  <2>1. /\ models' = models /\ point' = point /\ arg' = arg /\ cache' = cache
        /\ guess' = guess /\ accepted' = accepted
    BY DEF GiveUp, hostVars
  <2>2. Own(models, cache[t], "returned", point[t], arg[t], buf'[t], guess[t], TRUE,
            accepted[point[t]])
    BY <1>2, <1>3 DEF Own
  <2> QED
    BY <1>3, <2>1, <2>2 DEF OwnOf
<1> QED
  BY <1>4, <1>5, <1>6, LocalStep

LEMMA StoreKeeps ==
  ASSUME Parts, NEW t \in Thread, Store(t) PROVE Parts'
<1> DEFINE s == accepted[point[t]]
           r == Reference(s, arg[t], guess[t])
<1>1. pc[t] = "store" /\ OwnOf(t)
  BY DEF Store, Parts
<1>2. /\ s \in State /\ arg[t] \in Args /\ guess[t] \in Out /\ Cached(t) \in Context
  BY <1>1, CallFacts
<1>3. r \in State /\ r.out = guess[t]
  BY <1>2, ReferenceTypes DEF Reference
<1>4. /\ buf[t] = s /\ ~request[t] /\ arg[t] \in Deck /\ arg[t].sound
      /\ cache[t][Material[point[t]]] # NoContext
      /\ Matches(cache[t][Material[point[t]]], Live[Material[point[t]]], arg[t].props)
      /\ \A n \in Name : cache[t][n] # NoContext =>
           n \in models /\ Buildable(n, cache[t][n].props)
      /\ point[t] \notin PlaneStress => guess[t] = s.out
      /\ Cached(t).stress = Answer(s, arg[t], guess[t])
      /\ Cached(t).hist.new = r.hist
  BY <1>1 DEF OwnOf, Own, Cached, name
<1>5. Stored(buf[t], Cached(t), point[t], guess[t]) = r
  <2> DEFINE w == Answer(s, arg[t], guess[t])
             h == r.hist
             e == Append(s.energy, [from |-> s.stress, to |-> w])
  <2>1. r = [hist |-> h, out |-> guess[t], plane |-> s.plane, stress |-> w, energy |-> e]
    BY DEF Reference
  <2>2. (IF point[t] \in PlaneStress THEN guess[t] ELSE buf[t].out) = guess[t]
    BY <1>4
  <2>3. Stored(buf[t], Cached(t), point[t], guess[t]) =
          [s EXCEPT !.stress = w, !.hist = h, !.energy = e, !.out = guess[t]]
    BY <1>4, <2>2 DEF Stored
  <2> HIDE DEF w, h, e, s, r
  <2> QED
    BY <1>2, <2>1, <2>3 DEF State
<1> HIDE DEF r
<1>6. buf' = [buf EXCEPT ![t] = r]
  BY <1>5 DEF Store
<1>7. buf' \in [Thread -> State] /\ buf'[t] = r /\ \A u \in Thread : u # t => buf'[u] = buf[u]
  BY <1>3, <1>6 DEF Parts, TypeOK
<1>8. Local(t)
  BY <1>1, <1>7 DEF Store, Goto, hostVars, Local, Others, Parts, TypeOK
<1>9. TypeOK'
  BY <1>7 DEF Store, Goto, hostVars, Parts, TypeOK, Places
<1>10. OwnOf(t)'
  <2>1. /\ models' = models /\ point' = point /\ arg' = arg /\ cache' = cache
        /\ guess' = guess /\ request' = request /\ accepted' = accepted
        /\ pc'[t] = "returned"
    BY DEF Store, Goto, hostVars, Parts, TypeOK
  <2>2. buf'[t] = Reference(s, arg[t], buf'[t].out)
    BY <1>3, <1>7 DEF r
  <2> HIDE DEF s
  <2>3. Own(models, cache[t], "returned", point[t], arg[t], buf'[t], guess[t], request[t], s)
    BY <1>4, <2>2 DEF Own
  <2> QED
    BY <2>1, <2>3 DEF OwnOf, s
<1> QED
  BY <1>8, <1>9, <1>10, LocalStep

LEMMA FatalKeeps ==
  ASSUME Parts, NEW t \in Thread, Fatal(t) PROVE Parts'
<1>1. over' \in BOOLEAN /\ UNCHANGED <<models, cache, threadVars, hostVars>>
  BY DEF Fatal
<1>2. TypeOK'
  BY <1>1 DEF hostVars, threadVars, Parts, TypeOK
<1>3. ASSUME NEW u \in Thread PROVE OwnOf(u)'
  BY <1>1 DEF hostVars, threadVars, Parts, OwnOf
<1>4. Exclusive' /\ TrialFollows'
  BY <1>1 DEF hostVars, threadVars, Parts, Exclusive, TrialFollows
<1> QED
  BY <1>2, <1>3, <1>4 DEF Parts

LEMMA ReturnKeeps ==
  ASSUME Parts, NEW t \in Thread, Return(t) PROVE Parts'
<1> DEFINE p == point[t]
           new == [buf[t] EXCEPT !.plane = arg[t].plane]
           taken == IF request[t] THEN NoState ELSE new
<1>1. pc[t] = "returned" /\ OwnOf(t)
  BY DEF Return, Parts
<1>2. p \in Point /\ arg[t] \in Args /\ arg[t] \in Deck /\ buf[t] \in State
  BY <1>1, CallFacts
<1>3. new \in State
  BY <1>2 DEF State, Args
<1>4. ~request[t] => Follows(accepted[p], new)
  <2> SUFFICES ASSUME ~request[t] PROVE Follows(accepted[p], new)
    OBVIOUS
  <2>1. buf[t] = Reference(accepted[p], arg[t], buf[t].out) /\ buf[t].out \in Out
    BY <1>1, <1>2 DEF OwnOf, Own, State
  <2>2. new = [Reference(accepted[p], arg[t], buf[t].out) EXCEPT !.plane = arg[t].plane]
    BY <2>1
  <2> HIDE DEF new, p
  <2> QED
    BY <1>2, <2>1, <2>2 DEF Follows
<1> HIDE DEF new
<1>5. /\ trial' = [trial EXCEPT ![p] = taken] /\ accepted' = accepted
      /\ models' = models /\ cache' = cache /\ point' = point
  BY DEF Return, new
<1>6. /\ trial' \in [Point -> State \cup {NoState}] /\ trial'[p] = taken
      /\ \A q \in Point : q # p => trial'[q] = trial[q]
  BY <1>2, <1>3, <1>5 DEF Parts, TypeOK
<1>7. pc'[t] = "idle" /\ Others(t)
  BY <1>5 DEF Return, Goto, Others, Parts, TypeOK
<1>8. TypeOK'
  <2>1. <<>> \in History /\ <<>> \in Seq([from : Stress, to : Result])
    BY DEF History
  <2>2. Virgin \in State /\ NoArgs \in Args
    BY <2>1, ContextAssumption DEF Virgin, NoArgs, State, Args, Stress, Constants
  <2>3. arg' \in [Thread -> Args] /\ buf' \in [Thread -> State]
    BY <2>2 DEF Return, Parts, TypeOK
  <2>4. guess' \in [Thread -> Out] /\ iter' \in [Thread -> 0 .. MaxIter - 1]
    BY ContextAssumption, UmatAssumption DEF Return, Parts, TypeOK
  <2>5. request' \in [Thread -> BOOLEAN] /\ pc' \in [Thread -> Places]
    BY DEF Return, Goto, Parts, TypeOK, Places
  <2>6. cut' \in BOOLEAN /\ over' \in BOOLEAN
    BY DEF Return, Parts, TypeOK
  <2>7. /\ models' \subseteq Name /\ cache' \in [Thread -> Caches] /\ point' \in [Thread -> Point]
        /\ accepted' \in [Point -> State] /\ increments' \in 0 .. MaxIncrements
    BY DEF Return, Parts, TypeOK
  <2> QED
    BY <1>6, <2>3, <2>4, <2>5, <2>6, <2>7 DEF TypeOK
<1>9. ASSUME NEW u \in Thread PROVE OwnOf(u)'
  <2>1. CASE u = t
    <3>1. \A n \in Name : cache[t][n] # NoContext => n \in models /\ Buildable(n, cache[t][n].props)
      BY <1>1 DEF OwnOf, Own
    <3> QED
      BY <2>1, <1>5, <1>7, <3>1 DEF OwnOf, Own
  <2>2. CASE u # t
    BY <2>2, <1>5, <1>7, OthersKeep DEF Parts
  <2> QED
    BY <2>1, <2>2
<1>10. Exclusive'
  <2> SUFFICES ASSUME NEW u \in Thread, NEW v \in Thread,
                      u # v, pc'[u] # "idle", pc'[v] # "idle"
               PROVE  point'[u] # point'[v]
    BY DEF Exclusive
  <2>1. pc[u] # "idle" /\ pc[v] # "idle"
    BY <1>7 DEF Others
  <2> QED
    BY <1>5, <2>1 DEF Parts, Exclusive
<1>11. TrialFollows'
  <2> SUFFICES ASSUME NEW q \in Point, trial'[q] # NoState
               PROVE  Follows(accepted[q], trial'[q])
    BY <1>5 DEF TrialFollows
  <2>1. CASE q = p
    <3>1. ~request[t] /\ trial'[q] = new
      BY <2>1, <1>6
    <3> QED
      BY <2>1, <3>1, <1>4
  <2>2. CASE q # p
    BY <2>2, <1>6 DEF Parts, TrialFollows
  <2> QED
    BY <2>1, <2>2
<1> QED
  BY <1>8, <1>9, <1>10, <1>11 DEF Parts

-----------------------------------------------------------------------------
\* So does each step of the host.
LEMMA RegisterKeeps ==
  ASSUME Parts, NEW n \in Name, Register(n) PROVE Parts'
<1>1. models' = models \cup {n} /\ UNCHANGED <<cache, threadVars, hostVars, over>>
  BY DEF Register
<1>2. TypeOK'
  BY <1>1 DEF threadVars, hostVars, Parts, TypeOK
<1>3. ASSUME NEW t \in Thread PROVE OwnOf(t)'
  <2>1. Own(models', cache[t], pc[t], point[t], arg[t], buf[t], guess[t], request[t],
            accepted[point[t]])
    BY <1>1, OwnGrows DEF Parts, OwnOf
  <2> QED
    BY <1>1, <2>1 DEF threadVars, hostVars, OwnOf
<1>4. Exclusive' /\ TrialFollows'
  BY <1>1 DEF threadVars, hostVars, Parts, Exclusive, TrialFollows
<1> QED
  BY <1>2, <1>3, <1>4 DEF Parts

LEMMA ResetThreadCacheKeeps ==
  ASSUME Parts, NEW t \in Thread, ResetThreadCache(t) PROVE Parts'
<1>1. /\ pc[t] = "idle" /\ cache' = [cache EXCEPT ![t] = [n \in Name |-> NoContext]]
      /\ UNCHANGED <<models, threadVars, hostVars, over>>
  BY DEF ResetThreadCache
<1>2. [n \in Name |-> NoContext] \in Caches
  BY DEF Caches
<1>3. TypeOK'
  BY <1>1, <1>2 DEF threadVars, hostVars, Parts, TypeOK
<1>4. ASSUME NEW u \in Thread PROVE OwnOf(u)'
  <2>1. CASE u = t
    <3>1. pc'[t] = "idle" /\ cache'[t] = [n \in Name |-> NoContext]
      BY <1>1 DEF threadVars, Parts, TypeOK
    <3> QED
      BY <2>1, <3>1 DEF OwnOf, Own
  <2>2. CASE u # t
    <3>1. cache'[u] = cache[u]
      BY <2>2, <1>1 DEF Parts, TypeOK
    <3> QED
      BY <3>1, <1>1 DEF threadVars, hostVars, Parts, OwnOf
  <2> QED
    BY <2>1, <2>2
<1>5. Exclusive' /\ TrialFollows'
  BY <1>1 DEF threadVars, hostVars, Parts, Exclusive, TrialFollows
<1> QED
  BY <1>3, <1>4, <1>5 DEF Parts

LEMMA QueryKeeps ==
  ASSUME Parts, NEW t \in Thread, NEW n \in Name, NEW props \in Constants, Query(t, n, props)
  PROVE  Parts'
<1> DEFINE c == Fresh(props)
<1>1. /\ pc[t] = "idle" /\ n \in models /\ Buildable(n, props)
      /\ cache' = [cache EXCEPT ![t][n] = c]
      /\ UNCHANGED <<models, threadVars, hostVars, over>>
  BY DEF Query
<1>2. c \in Context /\ c.props = props
  BY FreshContext
<1> HIDE DEF c
<1>3. cache \in [Thread -> [Name -> Context \cup {NoContext}]]
  BY DEF Parts, TypeOK, Caches
<1>4. cache' = [cache EXCEPT ![t] = [cache[t] EXCEPT ![n] = c]]
  BY <1>1, <1>3
<1>5. /\ cache' \in [Thread -> Caches] /\ cache'[t][n] = c
      /\ \A m \in Name : m # n => cache'[t][m] = cache[t][m]
      /\ \A u \in Thread : u # t => cache'[u] = cache[u]
  BY <1>2, <1>3, <1>4 DEF Caches
<1>6. TypeOK'
  BY <1>1, <1>5 DEF threadVars, hostVars, Parts, TypeOK
<1>7. ASSUME NEW u \in Thread PROVE OwnOf(u)'
  <2>1. CASE u = t
    <3>1. \A m \in Name : cache[t][m] # NoContext => m \in models /\ Buildable(m, cache[t][m].props)
      BY DEF Parts, OwnOf, Own
    <3>2. \A m \in Name : cache'[t][m] # NoContext => m \in models /\ Buildable(m, cache'[t][m].props)
      BY <1>1, <1>2, <1>5, <3>1
    <3>3. pc'[t] = "idle" /\ models' = models
      BY <1>1 DEF threadVars
    <3> QED
      BY <2>1, <3>2, <3>3 DEF OwnOf, Own
  <2>2. CASE u # t
    BY <2>2, <1>1, <1>5 DEF threadVars, hostVars, Parts, OwnOf
  <2> QED
    BY <2>1, <2>2
<1>8. Exclusive' /\ TrialFollows'
  BY <1>1 DEF threadVars, hostVars, Parts, Exclusive, TrialFollows
<1> QED
  BY <1>6, <1>7, <1>8 DEF Parts

LEMMA CallKeeps ==
  ASSUME Parts, NEW t \in Thread, NEW p \in Point, NEW a \in Deck, Call(t, p, a)
  PROVE  Parts'
<1>1. a \in Args
  BY UmatAssumption
<1>2. /\ point'[t] = p /\ arg'[t] = a /\ buf'[t] = accepted[p] /\ ~request'[t]
      /\ pc'[t] = "entered" /\ Others(t)
      /\ models' = models /\ cache' = cache /\ accepted' = accepted /\ trial' = trial
  BY DEF Call, hostVars, Goto, Others, Parts, TypeOK
<1>3. TypeOK'
  <2>1. buf' \in [Thread -> State]
    BY DEF Call, Parts, TypeOK
  <2>2. point' \in [Thread -> Point] /\ arg' \in [Thread -> Args]
    BY <1>1 DEF Call, Parts, TypeOK
  <2>3. request' \in [Thread -> BOOLEAN] /\ pc' \in [Thread -> Places]
    BY DEF Call, Goto, Parts, TypeOK, Places
  <2> QED
    BY <2>1, <2>2, <2>3 DEF Call, hostVars, Parts, TypeOK
<1>4. ASSUME NEW u \in Thread PROVE OwnOf(u)'
  <2>1. CASE u = t
    <3>1. \A n \in Name : cache[t][n] # NoContext => n \in models /\ Buildable(n, cache[t][n].props)
      BY DEF Parts, OwnOf, Own
    <3> QED
      BY <2>1, <1>2, <3>1 DEF OwnOf, Own
  <2>2. CASE u # t
    BY <2>2, <1>2, OthersKeep DEF Parts
  <2> QED
    BY <2>1, <2>2
<1>5. Exclusive'
  <2> SUFFICES ASSUME NEW u \in Thread, NEW v \in Thread,
                      u # v, pc'[u] # "idle", pc'[v] # "idle"
               PROVE  point'[u] # point'[v]
    BY DEF Exclusive
  <2>1. \A w \in Thread : w # t /\ pc'[w] # "idle" => point'[w] = point[w] /\ point[w] # p
    BY <1>2 DEF Call, Others
  <2>2. CASE u = t \/ v = t
    BY <2>1, <2>2, <1>2
  <2>3. CASE u # t /\ v # t
    BY <2>3, <1>2 DEF Parts, Exclusive, Others
  <2> QED
    BY <2>2, <2>3
<1>6. TrialFollows'
  BY <1>2 DEF Parts, TrialFollows
<1> QED
  BY <1>3, <1>4, <1>5, <1>6 DEF Parts

\* Between two increments no thread is in a call.
LEMMA IdleKeeps ==
  ASSUME Parts, AllIdle, UNCHANGED <<models, cache, threadVars>>
  PROVE  (\A t \in Thread : OwnOf(t)') /\ Exclusive'
<1>1. ASSUME NEW t \in Thread PROVE OwnOf(t)'
  <2>1. pc'[t] = "idle" /\ cache'[t] = cache[t] /\ models' = models
    BY DEF AllIdle, threadVars
  <2>2. \A n \in Name : cache[t][n] # NoContext => n \in models /\ Buildable(n, cache[t][n].props)
    BY DEF Parts, OwnOf, Own
  <2> QED
    BY <2>1, <2>2 DEF OwnOf, Own
<1>2. Exclusive'
  BY DEF AllIdle, threadVars, Exclusive
<1> QED
  BY <1>1, <1>2

LEMMA AcceptKeeps ==
  ASSUME Parts, Accept PROVE Parts'
<1>1. AllIdle /\ UNCHANGED <<models, cache, threadVars>>
  BY DEF Accept
<1>2. (\A t \in Thread : OwnOf(t)') /\ Exclusive'
  BY <1>1, IdleKeeps
<1>3. accepted' \in [Point -> State] /\ trial' = [p \in Point |-> NoState]
  <2>1. trial \in [Point -> State \cup {NoState}] /\ \A p \in Point : trial[p] # NoState
    BY DEF Accept, Parts, TypeOK
  <2> QED
    BY <2>1 DEF Accept
<1>4. increments' \in 0 .. MaxIncrements
  BY UmatAssumption DEF Accept, Parts, TypeOK
<1>5. TypeOK'
  BY <1>1, <1>3, <1>4 DEF Accept, threadVars, Parts, TypeOK
<1>6. TrialFollows'
  BY <1>3 DEF TrialFollows
<1> QED
  BY <1>2, <1>5, <1>6 DEF Parts

LEMMA CutbackKeeps ==
  ASSUME Parts, Cutback PROVE Parts'
<1>1. /\ AllIdle /\ UNCHANGED <<models, cache, threadVars>>
      /\ trial' = [p \in Point |-> NoState]
  BY DEF Cutback
<1>2. (\A t \in Thread : OwnOf(t)') /\ Exclusive'
  BY <1>1, IdleKeeps
<1>3. TypeOK'
  BY <1>1 DEF Cutback, threadVars, Parts, TypeOK
<1>4. TrialFollows'
  BY <1>1 DEF TrialFollows
<1> QED
  BY <1>2, <1>3, <1>4 DEF Parts

-----------------------------------------------------------------------------
\* Every step keeps the parts.
LEMMA StepKeeps ==
  ASSUME Parts, [Next]_vars PROVE Parts'
<1>1. CASE Next
  <2>1. ASSUME NEW t \in Thread, Step(t) PROVE Parts'
    BY <2>1, HitKeeps, MissKeeps, LookupKeeps, BuildKeeps, BindPropsKeeps, PrepareKeeps,
       EvaluateKeeps, EvaluateThrowsKeeps, EquilibriumKeeps, CorrectKeeps, GiveUpKeeps,
       StoreKeeps, FatalKeeps, ReturnKeeps DEF Step
  <2>2. CASE Host
    <3>1. \A a \in Deck : a.props \in Constants
      BY UmatAssumption DEF Args
    <3> QED
      BY <2>2, <3>1, RegisterKeeps, ResetThreadCacheKeeps, QueryKeeps, CallKeeps, AcceptKeeps,
         CutbackKeeps DEF Host
  <2> QED
    BY <1>1, <2>1, <2>2 DEF Next
<1>2. CASE UNCHANGED vars
  <2>1. TypeOK'
    BY <1>2 DEF vars, threadVars, hostVars, Parts, TypeOK
  <2>2. ASSUME NEW t \in Thread PROVE OwnOf(t)'
    BY <1>2 DEF vars, threadVars, hostVars, Parts, OwnOf
  <2>3. Exclusive' /\ TrialFollows'
    BY <1>2 DEF vars, threadVars, hostVars, Parts, Exclusive, TrialFollows
  <2> QED
    BY <2>1, <2>2, <2>3 DEF Parts
<1> QED
  BY <1>1, <1>2

LEMMA PartsHold == Spec => []Parts
<1>1. Init => Parts
  BY InitParts
<1>2. Parts /\ [Next]_vars => Parts'
  BY StepKeeps
<1> QED
  BY <1>1, <1>2, PTL DEF Spec

\* The invariant of the layer (umat_dispatch and what it calls, and the host): the
\* arrays, contexts and places of all calls, and the results of the increment.
THEOREM UmatInvariant == Spec => []UmatInv
<1>1. Parts => UmatInv
  BY InvOfParts
<1> QED
  BY <1>1, PartsHold, PTL

\* A call's result is determined by what the host passed (the evaluator is
\* stateless between calls).
THEOREM CallIsStatelessHolds == Spec => []CallIsStateless
<1>1. UmatInv => CallIsStateless
  BY DEF UmatInv
<1> QED
  BY <1>1, UmatInvariant, PTL

\* A call that fails leaves STATEV and the energies to the host (handled in
\* umat_dispatch).
THEOREM CutbackIsCleanHolds == Spec => []CutbackIsClean
<1>1. UmatInv => CutbackIsClean
  BY DEF UmatInv
<1> QED
  BY <1>1, UmatInvariant, PTL

\* A call that returns had no setup fault (thread_state_for, and what throws
\* fatal_error).
THEOREM OnlySoundCallsReturnHolds == Spec => []OnlySoundCallsReturn
<1>1. UmatInv => OnlySoundCallsReturn
  BY DEF UmatInv
<1> QED
  BY <1>1, UmatInvariant, PTL

\* The state of a point moves by one evaluation of its own per accepted increment.
THEOREM StepsFollowHolds == Spec => StepsFollow
<1>1. ASSUME Parts, [Next]_vars PROVE IncrementFollows
  <2> SUFFICES ASSUME accepted' # accepted
               PROVE  \A p \in Point : Follows(accepted[p], accepted'[p])
    BY DEF IncrementFollows, Follows
  <2>1. Accept
    BY <1>1 DEF Next, Host, Register, ResetThreadCache, Query, Call, Cutback, Step,
       Hit, Miss, Lookup, Build, BindProps, Prepare, Evaluate, EvaluateThrows, Equilibrium, Correct,
       GiveUp, Store, Fatal, Return, hostVars, vars
  <2> QED
    BY <1>1, <2>1 DEF Accept, Parts, TrialFollows
<1>2. Parts /\ [Next]_vars => [IncrementFollows]_vars
  BY <1>1
<1> QED
  BY <1>2, PartsHold, PTL DEF Spec, StepsFollow
=============================================================================
