----------------------------- MODULE MCSlotUpdate -----------------------------
(***************************************************************************)
(* Small instances of SlotUpdate: a factory image and one or two payloads. *)
(***************************************************************************)
EXTENDS SlotUpdate

CONSTANTS f, n1, n2

MCVersion == [i \in Images |-> IF i = f THEN 1 ELSE IF i = n1 THEN 2 ELSE 3]

AllPhases == (BootPhases \union UpdatePhases) \ {"off"}

\* Everywhere but between a flip and the files that go with it.
OutsideWindows == AllPhases \ {"record", "trial", "forget"}

\* Everywhere but in the commit, from the flip to the sync.
OutsideCommit == AllPhases \ {"record", "trial", "sync"}

InCommit == {"record", "trial"}

OnlyStuck == {"stuck"}

InSession == {"session", "stuck"}

\* From the count of a boot to its session.
BeforeSession == {"apply", "launch", "stuck"}

=============================================================================
