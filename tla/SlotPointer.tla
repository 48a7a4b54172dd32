------------------------------ MODULE SlotPointer ------------------------------
(***************************************************************************)
(* What the GPT tools promise about the copy that boot0, U-Boot and the    *)
(* kernel read, while no write fails.  A flip leaves it alone until the    *)
(* backup copy is done; then the slot it selects changes at most once, to  *)
(* the other one, and until the end the copy may be invalid, because its   *)
(* entries and its header are two writes.  A flip that succeeds has        *)
(* changed the slot and leaves a valid copy; one that a power cut ends     *)
(* leaves what there is.  Growing the card never changes the slot.         *)
(***************************************************************************)

VARIABLES
  at,     \* the slot the entries select
  valid,  \* the header's CRC is that of the entries
  job,    \* "idle", "backup" or "primary" for the halves of a flip, "grow"
  was     \* the slot that was selected when the flip began

vars == <<at, valid, job, was>>

Other(s) == IF s = "A" THEN "B" ELSE "A"

Init == at = "A" /\ valid = TRUE /\ job = "idle" /\ was = "A"

Begin ==
  /\ job = "idle" /\ job' = "backup"
  /\ UNCHANGED <<at, valid, was>>

Turn ==
  /\ job = "backup" /\ job' = "primary"
  /\ UNCHANGED <<at, valid, was>>

Take ==
  /\ job = "primary" /\ at = was
  /\ at' = Other(was) /\ valid' \in BOOLEAN
  /\ UNCHANGED <<job, was>>

Refresh ==
  /\ job \in {"primary", "grow"}
  /\ valid' \in BOOLEAN
  /\ UNCHANGED <<at, job, was>>

Succeed ==
  /\ job = "primary" /\ at = Other(was) /\ valid
  /\ job' = "idle" /\ was' = at
  /\ UNCHANGED <<at, valid>>

Grow ==
  /\ job = "idle" /\ job' = "grow"
  /\ UNCHANGED <<at, valid, was>>

Grown ==
  /\ job = "grow" /\ job' = "idle"
  /\ valid' = TRUE
  /\ UNCHANGED <<at, was>>

Crash ==
  /\ job # "idle" /\ job' = "idle" /\ was' = at
  /\ UNCHANGED <<at, valid>>

Next ==
  Begin \/ Turn \/ Take \/ Refresh \/ Succeed \/ Grow \/ Grown \/ Crash

Spec == Init /\ [][Next]_vars

=============================================================================
