------------------------------ MODULE Rundown ------------------------------
(***************************************************************************)
(* What the modules of the watchdog rely on when they guard a shared       *)
(* object with a rundown protection: references can be taken until the     *)
(* rundown starts, none can be taken afterwards, and the rundown is over   *)
(* only when no reference is left.  The implementation is specified in     *)
(* RundownProtection.                                                      *)
(***************************************************************************)
CONSTANT Calls          \* the Acquire ... Release pairs made on the object

VARIABLES
  active,               \* has the rundown started?
  holders,              \* the calls that hold a reference
  drained               \* has Wait returned?

vars == <<active, holders, drained>>

TypeOK ==
  /\ active \in BOOLEAN
  /\ holders \subseteq Calls
  /\ drained \in BOOLEAN

Init ==
  /\ active = FALSE
  /\ holders = {}
  /\ drained = FALSE

Enter(c) ==
  /\ ~active
  /\ c \notin holders
  /\ holders' = holders \cup {c}
  /\ UNCHANGED <<active, drained>>

Leave(c) ==
  /\ c \in holders
  /\ holders' = holders \ {c}
  /\ UNCHANGED <<active, drained>>

\* The rundown of an object nobody uses may be over at once.
Begin ==
  /\ ~active
  /\ active' = TRUE
  /\ drained' \in {FALSE, holders = {}}
  /\ UNCHANGED holders

End ==
  /\ active
  /\ ~drained
  /\ holders = {}
  /\ drained' = TRUE
  /\ UNCHANGED <<active, holders>>

Next ==
  \/ \E c \in Calls : Enter(c) \/ Leave(c)
  \/ Begin
  \/ End

Spec == Init /\ [][Next]_vars
=============================================================================
