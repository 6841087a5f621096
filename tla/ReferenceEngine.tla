-------------------------- MODULE ReferenceEngine --------------------------
(***************************************************************************)
(* What property_engine promises its host: an update is one evaluation of  *)
(* the callbacks it is about, in order, from the sources and the accepted  *)
(* history.  There are no constants, no folding, no verification and no    *)
(* re-evaluation here; an update that fails says so, and nothing but       *)
(* revert() brings the context back.                                       *)
(***************************************************************************)
EXTENDS PropertyGraph

CONSTANT Excludes

VARIABLES
  source,     \* current value of every parameter and host-bound property
  old,        \* accepted value of every history property
  result,     \* what the callbacks the update in progress is not about filled in last
  state,      \* "idle", "updating" or "failed"
  pending     \* the callbacks the update in progress is about

vars == <<source, old, result, state, pending>>

Results == [Callback -> Value]

\* The cells when the callbacks hold the values f.
With(f) == [x \in Cell |-> IF x \in Callback THEN f[x] ELSE source[x]]

\* f keeps what the update is not about.
Keeps(f) == \A c \in Callback \ pending : f[c] = result[c]

Evaluated(f, S) == \A c \in S \ Checker : Settled(c, With(f), old)

Init ==
  /\ source = [x \in Parameter \cup External |-> Default]
  /\ old = [h \in Held |-> Default]
  /\ result = [c \in Callback |-> Default]
  /\ state = "idle" /\ pending = {}

Begin(r) ==
  /\ state = "idle" /\ state' = "updating"
  /\ pending' = r /\ result' = [c \in Callback \ r |-> result[c]]
  /\ UNCHANGED <<source, old>>

Complete ==
  /\ state = "updating" /\ state' = "idle"
  /\ result' \in Results /\ Keeps(result') /\ Evaluated(result', pending)
  /\ pending' = {}
  /\ UNCHANGED <<source, old>>

\* Only a callback that throws, a checker whose trial throws or a material with a
\* constant that is not finite (one yet to be evaluated may still hold what was written
\* into it) makes an update fail, and on inputs evaluated as they should be.
MayFail(c, f) ==
  \/ c \in Checker
  \/ Throws(c, With(f), old)
  \/ /\ c \in Once /\ Settled(c, With(f), old)
     /\ \E d \in Checks[c] : f[d] \in NotFinite

Fail ==
  /\ state = "updating" /\ state' = "failed"
  /\ \E f \in Results, c \in pending :
       Keeps(f) /\ Evaluated(f, (pending \cap Up[c]) \ {c}) /\ MayFail(c, f)
  /\ result' \in Results /\ Keeps(result')
  /\ pending' = {}
  /\ UNCHANGED <<source, old>>

Assign(f, x, v) == IF x \in DOMAIN f THEN [f EXCEPT ![x] = v] ELSE f

Bind(e, o, n) ==
  /\ state # "updating"
  /\ source' = Assign(source, e, n) /\ old' = [old EXCEPT ![e] = o]
  /\ UNCHANGED <<result, state, pending>>

Write(x, v) ==
  /\ state # "updating"
  /\ source' = Assign(source, x, v) /\ result' = Assign(result, x, v)
  /\ UNCHANGED <<old, state, pending>>

Commit ==
  /\ state = "idle"
  /\ old' = [h \in Held |-> With(result)[h]]
  /\ UNCHANGED <<source, result, state, pending>>

Revert ==
  /\ state # "updating" /\ state' = "idle"
  /\ source' = [x \in Parameter \cup External |->
                  IF x \in External THEN old[x] ELSE source[x]]
  /\ result' = [c \in Callback |-> IF c \in History THEN old[c] ELSE result[c]]
  /\ UNCHANGED <<old, pending>>

Next ==
  \/ Begin(Callback) \/ \E c \in Callback, x \in Excludes : Begin(Up[c] \ x)
  \/ Complete \/ Fail
  \/ \E e \in External, o, n \in Value : Bind(e, o, n)
  \/ \E x \in Cell, v \in Value : Write(x, v)
  \/ Commit \/ Revert

Spec == Init /\ [][Next]_vars
=============================================================================
