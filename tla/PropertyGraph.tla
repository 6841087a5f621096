--------------------------- MODULE PropertyGraph ---------------------------
(***************************************************************************)
(* The finalized property graph with its values: what an update may rely   *)
(* on and never changes.                                                   *)
(*                                                                         *)
(* A callback is a function of its declared reads; the read check of the   *)
(* debug builds enforces that declaration.                                 *)
(***************************************************************************)
EXTENDS FinalizedGraph

CONSTANTS
  Checker,       \* numerical_diff_checker callbacks
  Target,        \* Target[k]: the output a checker re-evaluates
  Input,         \* Input[k]: the property it perturbs
  Routed,        \* checkers whose input is not the first output of its callback
  HistSrc,       \* HistSrc[k]: the histories it reverts before each trial
  Checks,        \* Checks[c]: the constants of c's material, compared when c is verified
  Value,         \* values of a cell
  NotFinite,     \* ... among them, the ones a constant must not take
  Default,       \* the value of a default-constructed property
  Compute(_, _, _), \* Compute(c, r, o): what c fills in from its reads
  Fails(_, _, _)    \* Fails(c, r, o): c throws on these reads

(***************************************************************************)
(* What callback c sees of the current values v and the accepted values o. *)
(***************************************************************************)
Out(c, v, o) ==
  Compute(c, [x \in Reads[c] |-> v[x]], [h \in OldReads[c] |-> o[h]])

Throws(c, v, o) ==
  Fails(c, [x \in Reads[c] |-> v[x]], [h \in OldReads[c] |-> o[h]])

\* Rerunning c would change nothing.
Settled(c, v, o) == ~Throws(c, v, o) /\ v[c] = Out(c, v, o)

(***************************************************************************)
(* The upstream set of a property: itself and everything it depends on,    *)
(* the least set closed under reads.                                       *)
(***************************************************************************)
Closed(S) == \A c \in S : Reads[c] \cap Callback \subseteq S

Up == [c \in Callback |->
         {d \in Callback : \A S \in SUBSET Callback : c \in S /\ Closed(S) => d \in S}]

-----------------------------------------------------------------------------
\* What build() guarantees, as GraphBuildProofs shows.
ASSUME FinalizedAssumption == Finalized

(***************************************************************************)
(* A checker reads its input and its target, and nothing reads a checker:  *)
(* its outputs are an error and a relative error.                          *)
(***************************************************************************)
ASSUME CheckerAssumption ==
  /\ Checker \subseteq Callback \ (History \cup Constant) /\ Routed \subseteq Checker
  /\ Target \in [Checker -> Callback] /\ Input \in [Checker -> Property]
  /\ HistSrc \in [Checker -> SUBSET Held]
  /\ \A k \in Checker : {Target[k], Input[k]} \subseteq Reads[k]
  /\ \A c \in Callback : Reads[c] \cap Checker = {}

\* A once-callback is one of the constant outputs of its material (m_checks).
ASSUME ChecksAssumption ==
  /\ Checks \in [Once -> SUBSET Constant]
  /\ \A c \in Once : c \in Checks[c]

ASSUME ValueAssumption ==
  /\ Default \in Value /\ NotFinite \subseteq Value
  /\ \A c \in Callback, r \in UNION {[S -> Value] : S \in {Reads[d] : d \in Callback}} :
       \A o \in UNION {[S -> Value] : S \in {OldReads[d] : d \in Callback}} :
         (DOMAIN r = Reads[c] /\ DOMAIN o = OldReads[c])
           => Compute(c, r, o) \in Value /\ Fails(c, r, o) \in BOOLEAN
=============================================================================
