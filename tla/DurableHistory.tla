--------------------------- MODULE DurableHistory ---------------------------
(***************************************************************************)
(* What a context promises about history: it is accepted a whole step at a *)
(* time, whatever number of properties it is spread over, and a checkpoint *)
(* puts it back at the step it was written at, or leaves it alone.         *)
(*                                                                         *)
(* The history is as old as the number of steps it has accepted.  It is    *)
(* Lost when its properties are not of one step: after an update of some   *)
(* of them, which the host must complete or revert before it commits.      *)
(***************************************************************************)
EXTENDS Naturals

CONSTANTS Lost, None   \* neither of them a number

Age == Nat \cup {Lost}

After(a) == IF a = Lost THEN Lost ELSE a + 1

VARIABLES
  at,       \* the age of the accepted history
  trial,    \* the age of what the last update made of it
  failed,   \* the last update threw
  spoilt,   \* the history has been reached by more than one whole update per step
  saved     \* the checkpoint, or None

durableVars == <<at, trial, failed, spoilt, saved>>

Checkpoint == [at : Age, trial : Age, spoilt : BOOLEAN]

DurableTypeOK ==
  /\ at \in Age /\ trial \in Age
  /\ failed \in BOOLEAN /\ spoilt \in BOOLEAN
  /\ saved \in Checkpoint \cup {None}

Init ==
  /\ at = 0 /\ trial = 0 /\ failed = FALSE /\ spoilt = FALSE
  /\ saved = None

Update ==
  /\ ~failed
  /\ trial' = After(at)
  /\ UNCHANGED <<at, failed, spoilt, saved>>

UpdateThrows ==
  /\ ~failed
  /\ failed' = TRUE /\ trial' \in Age
  /\ UNCHANGED <<at, spoilt, saved>>

\* update_property(), when it leaves some of the history behind.
UpdatePart ==
  /\ ~failed
  /\ trial' = Lost
  /\ UNCHANGED <<at, failed, spoilt, saved>>

Commit ==
  /\ ~failed
  /\ at' = trial /\ spoilt' = (spoilt \/ trial = Lost)
  /\ UNCHANGED <<trial, failed, saved>>

Revert ==
  /\ trial' = at /\ failed' = FALSE
  /\ UNCHANGED <<at, spoilt, saved>>

Half == failed \/ trial = Lost

\* Nothing tells a checkpoint that cannot be used from one that can, until it is loaded.
Save ==
  /\ \/ saved' \in {None, [at |-> at, trial |-> trial, spoilt |-> spoilt \/ Half]}
     \/ /\ spoilt \/ Half
        /\ saved' \in [at : Age, trial : Age, spoilt : {TRUE}]
  /\ UNCHANGED <<at, trial, failed, spoilt>>

\* The process ends, a new one starts from the beginning; what is on disk stays.
Restart ==
  /\ at' = 0 /\ trial' = 0 /\ failed' = FALSE /\ spoilt' = FALSE
  /\ UNCHANGED saved

Restore ==
  /\ saved # None
  /\ at' = saved.at /\ trial' = saved.trial /\ spoilt' = saved.spoilt
  /\ UNCHANGED <<failed, saved>>

Spoil ==
  /\ spoilt' = TRUE
  /\ at' \in Age /\ trial' \in Age /\ failed' \in BOOLEAN
  /\ UNCHANGED saved

Next ==
  \/ Update \/ UpdateThrows \/ UpdatePart \/ Commit \/ Revert
  \/ Save \/ Restart \/ Restore \/ Spoil

Spec == Init /\ [][Next]_durableVars
=============================================================================
