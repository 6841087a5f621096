--------------------------- MODULE FinalizedGraph ---------------------------
(***************************************************************************)
(* The graph property_engine::build leaves, as far as it is the work of    *)
(* build(): what is in m_callbacks, in which order, and what was found     *)
(* constant.                                                               *)
(*                                                                         *)
(* A callback stands for the group of outputs it fills and is numbered by  *)
(* its place in m_callbacks, the topological order.  Cells are what        *)
(* callbacks read: material parameters, the properties a host binds        *)
(* (external_state_source, which has no callback) and callback outputs.    *)
(***************************************************************************)
EXTENDS Integers, FiniteSets

CONSTANTS
  N,             \* number of callbacks
  Parameter,     \* parameter cells, written by set_parameter
  External,      \* history properties bound by the host, without a callback
  History,       \* callbacks that fill a history output
  Reads,         \* Reads[c]: the cells c reads over global edges
  OldReads,      \* OldReads[c]: the histories whose accepted value c reads
  Constant,      \* callbacks whose outputs find_constants() found constant
  Once           \* ... among them, the callbacks that run once (m_once)

Callback == 1..N
Property == External \cup Callback
Cell     == Parameter \cup Property
Held     == External \cup History        \* the properties with an accepted value

-----------------------------------------------------------------------------
CellsDiffer ==
  /\ N \in Nat
  /\ Parameter \cap Property = {} /\ External \cap Callback = {}
  /\ History \subseteq Callback

\* The order is topological.
ReadsComeFirst ==
  /\ Reads \in [Callback -> SUBSET Cell]
  /\ OldReads \in [Callback -> SUBSET Held]
  /\ \A c \in Callback : \A d \in Reads[c] \cap Callback : d < c

\* A constant callback reads parameters and constants alone.
ConstantsReadConstants ==
  /\ Once \subseteq Constant /\ Constant \subseteq Callback
  /\ Constant \cap History = {}
  /\ \A c \in Constant : Reads[c] \subseteq Parameter \cup Constant /\ OldReads[c] = {}

Finalized == CellsDiffer /\ ReadsComeFirst /\ ConstantsReadConstants
=============================================================================
