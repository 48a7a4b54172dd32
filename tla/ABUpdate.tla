------------------------------- MODULE ABUpdate -------------------------------
(***************************************************************************)
(* What the A/B update promises: a selected image and a fallback, a trial  *)
(* that ends in a confirmation or, after a bounded number of boots, with   *)
(* the fallback selected again, and no image ever tried twice.  Files,     *)
(* phases, power cuts and the steps of a commit do not appear.             *)
(***************************************************************************)
EXTENDS Naturals

CONSTANTS Images, Blank, Factory, Sound, Version, Legacy, MaxTrialBoots

VARIABLES
  os,        \* the image that boots next
  fallback,  \* the image of the other slot, Blank when it has none
  onTrial,   \* os has yet to start a session
  tries,     \* boots of the trial that boot-check has counted
  tried      \* images that have been installed

vars == <<os, fallback, onTrial, tries, tried>>

Init ==
  /\ os = Factory
  /\ fallback = Blank
  /\ onTrial = FALSE
  /\ tries = 0
  /\ tried = Legacy

\* The other slot is written, well or badly; never during a trial.
Prepare ==
  /\ ~onTrial
  /\ fallback' \in Images \union {Blank}
  /\ UNCHANGED <<os, onTrial, tries, tried>>

\* The commit: the two images change roles and the trial begins.
Install ==
  /\ ~onTrial
  /\ fallback \in Images \ tried
  /\ Version[fallback] >= Version[os] /\ fallback # os
  /\ os' = fallback
  /\ fallback' = os
  /\ onTrial' = TRUE
  /\ tries' = 0
  /\ tried' = tried \union {fallback}

TrialBoot ==
  /\ onTrial
  /\ tries + 1 < MaxTrialBoots
  /\ tries' = tries + 1
  /\ UNCHANGED <<os, fallback, onTrial, tried>>

Confirm ==
  /\ onTrial
  /\ os \in Sound
  /\ onTrial' = FALSE
  /\ tries' = 0
  /\ UNCHANGED <<os, fallback, tried>>

Restore ==
  /\ onTrial
  /\ tries + 1 = MaxTrialBoots
  /\ os' = fallback
  /\ fallback' = os
  /\ onTrial' = FALSE
  /\ tries' = 0
  /\ UNCHANGED tried

Next == Prepare \/ Install \/ TrialBoot \/ Confirm \/ Restore

Spec == Init /\ [][Next]_vars

=============================================================================
