--------------------------- MODULE SlotUpdateProof ----------------------------
(***************************************************************************)
(* Theorems about SlotUpdate, for any images, versions, trial length,      *)
(* stop phases and faults that the assumptions of the module allow.        *)
(***************************************************************************)
EXTENDS SlotUpdate, TLAPS

-----------------------------------------------------------------------------
(* Type correctness. *)

LEMMA TrialTypes ==
  /\ NoTrial \in Trials
  /\ TornTrial \in Trials
  /\ \A i \in Images : NewTrial(i) \in Trials
BY PolicyAssumption DEF NewTrial, NoTrial, TornTrial, Trials

\* Counting a boot below the bound keeps a state file well typed.
LEMMA CountedTypes ==
  ASSUME NEW t \in Trials, t.attempts + 1 < MaxTrialBoots
  PROVE  Counted(t) \in Trials
<1>1. CASE t.image = Blank
  BY <1>1 DEF Counted
<1>2. CASE t.image # Blank
  BY <1>2, PolicyAssumption DEF Counted, Trials
<1> QED
  BY <1>1, <1>2

\* What GoesOff leaves well typed: it is the end of five actions.
LEMMA OffTypes ==
  ASSUME TypeOK, NEW h \in SUBSET Images, NEW t \in Trials, GoesOff(h, t),
         card' \in SUBSET Images
  PROVE  TypeOK'
BY ImagesAssumption
   DEF TypeOK, GoesOff, ghost, Slots, BootPhases, UpdatePhases

LEMMA CleanStopTypes ==
  ASSUME TypeOK, CleanStop, UNCHANGED card
  PROVE  TypeOK'
BY OffTypes DEF CleanStop, TypeOK

\* The type invariant of SlotUpdate.
THEOREM TypeCorrect == Spec => []TypeOK
<1>1. Init => TypeOK
  <2> SUFFICES ASSUME Init PROVE TypeOK
    OBVIOUS
  <2>1. slot \in [Slots -> Images \union {Blank}] /\ proven \in [Slots -> BOOLEAN]
    BY ImagesAssumption DEF Init
  <2>2. NoTrial \in Trials /\ boots \in 0 .. MaxTrialBoots
    BY PolicyAssumption, TrialTypes DEF Init
  <2> QED
    BY <2>1, <2>2, ImagesAssumption
       DEF Init, TypeOK, Slots, BootPhases, UpdatePhases
<1>2. ASSUME TypeOK, [Next]_vars
      PROVE  TypeOK'
  <2> USE <1>2, ImagesAssumption, PolicyAssumption DEF TypeOK, Stored, files,
      apply, where, ghost
  <2>1. CASE PowerOn
    BY <2>1, TrialTypes DEF PowerOn, Slots, BootPhases
  <2>2. CASE NoTrialCheck
    BY <2>2 DEF NoTrialCheck, BootPhases
  <2>3. CASE CountBoot
    BY <2>3, CountedTypes DEF CountBoot, BootPhases, NextAttempt
  <2>4. CASE RestoreFlip
    BY <2>4 DEF RestoreFlip, BootPhases, Slots, Other
  <2>5. CASE RestoreFails
    BY <2>5, TrialTypes DEF RestoreFails, BootPhases, Slots, Other
  <2>6. CASE RestoreForget
    BY <2>6, TrialTypes DEF RestoreForget, BootPhases
  <2>7. CASE RestoreReboot
    BY <2>7, CleanStopTypes DEF RestoreReboot
  <2>8. CASE NothingToApply
    BY <2>8 DEF NothingToApply, BootPhases
  <2>9. CASE StartApply
    BY <2>9 DEF StartApply, Applicable, UpdatePhases, Slots, Other
  <2>10. CASE WriteChunk
    BY <2>10 DEF WriteChunk, Slots
  <2>29. CASE WriteSlot
    BY <2>29 DEF WriteSlot, Sync, UpdatePhases, Slots
  <2>11. CASE WriteFails
    BY <2>11 DEF WriteFails, EndApply, BootPhases, Slots
  <2>12. CASE VerifySlot
    BY <2>12 DEF VerifySlot, UpdatePhases
  <2>13. CASE VerifyFails
    BY <2>13 DEF VerifyFails, EndApply, BootPhases, Slots
  <2>14. CASE CommitFlip
    BY <2>14 DEF CommitFlip, UpdatePhases, Slots, Other
  <2>15. CASE CommitFails
    BY <2>15 DEF CommitFails, EndApply, BootPhases, Slots, Other
  <2>16. CASE RecordHistory
    BY <2>16 DEF RecordHistory, UpdatePhases
  <2>17. CASE OpenTrial
    BY <2>17, TrialTypes DEF OpenTrial, UpdatePhases
  <2>18. CASE SyncCommit
    BY <2>18 DEF SyncCommit, Sync, UpdatePhases
  <2>19. CASE RemovePayload
    BY <2>19 DEF RemovePayload, Sync, NoSync, UpdatePhases
  <2>20. CASE ApplyReboot
    BY <2>20, CleanStopTypes DEF ApplyReboot
  <2>21. CASE StartSession
    BY <2>21, TrialTypes DEF StartSession, Confirm, Sync, NoSync, BootPhases
  <2>22. CASE RespawnSession
    BY <2>22, TrialTypes DEF RespawnSession, Confirm, Sync, NoSync
  <2>23. CASE Hang
    BY <2>23 DEF Hang, BootPhases
  <2>24. CASE Shutdown
    BY <2>24, CleanStopTypes DEF Shutdown
  <2>25. CASE PowerCut
    BY <2>25, OffTypes, TrialTypes DEF PowerCut
  <2>26. CASE WriteBack
    BY <2>26 DEF WriteBack, Sync
  <2>27. CASE SetPayloads
    BY <2>27 DEF SetPayloads
  <2>28. CASE UNCHANGED vars
    BY <2>28 DEF vars
  <2> QED
    BY <2>1, <2>2, <2>3, <2>4, <2>5, <2>6, <2>7, <2>8, <2>9, <2>10, <2>11,
       <2>12, <2>13, <2>14, <2>15, <2>16, <2>17, <2>18, <2>19, <2>20, <2>21,
       <2>22, <2>23, <2>24, <2>25, <2>26, <2>27, <2>28, <2>29
       DEF Next, BootCheck, Apply, Session, Environment
<1> QED
  BY <1>1, <1>2, PTL DEF Spec

-----------------------------------------------------------------------------
(* The commit selects what was verified, under every fault. *)

\* While an update runs the GPT is still, so the slot chosen at its start is
\* the one a flip selects; past the verification that slot holds the image.
ApplyInv ==
  /\ upd # "idle" => boot \in {"apply", "session"}
  /\ upd \in {"write", "verify", "flip"} => dest = Other(gpt)
  /\ upd = "flip" => slot[dest] = job

LEMMA ApplyInvStep ==
  ASSUME TypeOK, ApplyInv, [Next]_vars
  PROVE  ApplyInv'
<1> USE DEF ApplyInv, TypeOK, files, apply, where, ghost
<1>1. CASE PowerOn \/ NoTrialCheck \/ CountBoot \/ RestoreFlip \/ RestoreFails
        \/ RestoreForget \/ NothingToApply \/ Hang
  BY <1>1 DEF PowerOn, NoTrialCheck, CountBoot, RestoreFlip, RestoreFails,
              RestoreForget, NothingToApply, Hang
<1>2. CASE StartApply
  BY <1>2 DEF StartApply
<1>3. CASE WriteChunk \/ WriteSlot \/ VerifySlot
  BY <1>3 DEF WriteChunk, WriteSlot, VerifySlot, Slots
<1>4. CASE WriteFails \/ VerifyFails \/ CommitFails
  BY <1>4 DEF WriteFails, VerifyFails, CommitFails, EndApply
<1>5. CASE CommitFlip \/ RecordHistory \/ OpenTrial \/ SyncCommit
             \/ RemovePayload
  BY <1>5 DEF CommitFlip, RecordHistory, OpenTrial, SyncCommit, RemovePayload
<1>6. CASE RestoreReboot \/ ApplyReboot \/ Shutdown \/ PowerCut
  BY <1>6 DEF RestoreReboot, ApplyReboot, Shutdown, PowerCut, CleanStop,
              GoesOff
<1>7. CASE StartSession \/ RespawnSession \/ WriteBack \/ SetPayloads
  BY <1>7 DEF StartSession, RespawnSession, WriteBack, SetPayloads
<1>8. CASE UNCHANGED vars
  BY <1>8 DEF vars
<1> QED
  BY <1>1, <1>2, <1>3, <1>4, <1>5, <1>6, <1>7, <1>8
     DEF Next, BootCheck, Apply, Session, Environment

LEMMA ApplyInvariant == Spec => []ApplyInv
<1>1. Init => ApplyInv
  BY DEF Init, ApplyInv
<1>2. TypeOK /\ ApplyInv /\ [Next]_vars => ApplyInv'
  BY ApplyInvStep
<1> QED
  BY <1>1, <1>2, TypeCorrect, PTL DEF Spec

\* Of the steps of Next, only the two ends of gptslot in apply change the GPT
\* while an update is at its flip.
LEMMA FlipSteps ==
  ASSUME TypeOK, ApplyInv, Next, upd = "flip", gpt' # gpt
  PROVE  CommitFlip \/ CommitFails
<1> USE DEF ApplyInv, files, apply, where, ghost
<1>1. CASE PowerOn \/ BootCheck \/ NothingToApply \/ Hang
  BY <1>1 DEF PowerOn, BootCheck, NoTrialCheck, CountBoot, RestoreFlip,
              RestoreFails, RestoreForget, RestoreReboot, NothingToApply, Hang
<1>2. CASE Apply
  BY <1>2 DEF Apply, StartApply, WriteChunk, WriteSlot, WriteFails,
              VerifySlot, VerifyFails, RecordHistory, OpenTrial, SyncCommit, RemovePayload,
              ApplyReboot
<1>3. CASE Session \/ Environment
  BY <1>3 DEF Session, Environment, StartSession, RespawnSession, Shutdown,
              PowerCut, CleanStop, GoesOff, WriteBack, SetPayloads
<1> QED
  BY <1>1, <1>2, <1>3 DEF Next

\* The GPT is flipped only to a slot that verified, whatever the faults and
\* wherever the power is cut.
THEOREM CommitVerified == Spec => CommitFlipsToVerified
<1>1. ASSUME TypeOK, ApplyInv, [Next]_vars
      PROVE  upd = "flip" /\ gpt' # gpt => slot[gpt'] = job /\ job \in Images
  <2> SUFFICES ASSUME upd = "flip", gpt' # gpt
               PROVE  slot[gpt'] = job /\ job \in Images
    OBVIOUS
  <2>1. CommitFlip \/ CommitFails
    BY <1>1, FlipSteps DEF vars
  <2> QED
    BY <1>1, <2>1 DEF CommitFlip, CommitFails, ApplyInv, TypeOK
<1> QED
  BY <1>1, TypeCorrect, ApplyInvariant, PTL DEF Spec, CommitFlipsToVerified

-----------------------------------------------------------------------------
(* The running system is never written. *)

\* Up to its flip an update runs on the slot the GPT selects: after a flip that
\* gptslot reports, the machine only goes down.  A late failure of gptslot is
\* the exception, and the theorem excludes it.
RootInv ==
  boot \notin {"off", "forget", "settle"} /\ upd \in {"idle", "write", "verify", "flip"}
    => root = gpt

LEMMA RootInvStep ==
  ASSUME "lateflip" \notin Faults, TypeOK, ApplyInv, RootInv, [Next]_vars
  PROVE  RootInv'
<1> USE DEF RootInv, ApplyInv, files, apply, where, ghost
<1>1. CASE PowerOn
  BY <1>1 DEF PowerOn
<1>2. CASE NoTrialCheck \/ CountBoot \/ RestoreFlip \/ RestoreFails
             \/ RestoreForget \/ NothingToApply \/ Hang
  BY <1>2 DEF NoTrialCheck, CountBoot, RestoreFlip, RestoreFails,
              RestoreForget, NothingToApply, Hang
<1>3. CASE StartApply \/ WriteChunk \/ WriteSlot \/ VerifySlot
  BY <1>3 DEF StartApply, WriteChunk, WriteSlot, VerifySlot
<1>4. CASE WriteFails \/ VerifyFails \/ CommitFails
  BY <1>4 DEF WriteFails, VerifyFails, CommitFails, EndApply
<1>5. CASE CommitFlip \/ RecordHistory \/ OpenTrial \/ SyncCommit
             \/ RemovePayload
  BY <1>5 DEF CommitFlip, RecordHistory, OpenTrial, SyncCommit, RemovePayload
<1>6. CASE RestoreReboot \/ ApplyReboot \/ Shutdown \/ PowerCut
  BY <1>6 DEF RestoreReboot, ApplyReboot, Shutdown, PowerCut, CleanStop,
              GoesOff
<1>7. CASE StartSession \/ RespawnSession \/ WriteBack \/ SetPayloads
  BY <1>7 DEF StartSession, RespawnSession, WriteBack, SetPayloads
<1>8. CASE UNCHANGED vars
  BY <1>8 DEF vars
<1> QED
  BY <1>1, <1>2, <1>3, <1>4, <1>5, <1>6, <1>7, <1>8
     DEF Next, BootCheck, Apply, Session, Environment

\* Of the steps of Next, only the two writes of apply change a slot.
LEMMA SlotSteps ==
  ASSUME [Next]_vars, slot' # slot
  PROVE  WriteChunk \/ WriteSlot
<1> USE DEF files, apply, where, ghost
<1>1. CASE PowerOn \/ BootCheck \/ NothingToApply \/ Hang
  BY <1>1 DEF PowerOn, BootCheck, NoTrialCheck, CountBoot, RestoreFlip,
              RestoreFails, RestoreForget, RestoreReboot, NothingToApply, Hang,
              CleanStop, GoesOff
<1>2. CASE Apply
  BY <1>2 DEF Apply, StartApply, WriteFails, VerifySlot, VerifyFails, CommitFlip,
              CommitFails, RecordHistory, OpenTrial, SyncCommit, RemovePayload,
              ApplyReboot, CleanStop, GoesOff
<1>3. CASE Session \/ Environment
  BY <1>3 DEF Session, Environment, StartSession, RespawnSession, Shutdown,
              PowerCut, CleanStop, GoesOff, WriteBack, SetPayloads
<1>4. CASE UNCHANGED vars
  BY <1>4 DEF vars
<1> QED
  BY <1>1, <1>2, <1>3, <1>4 DEF Next

\* No update writes the slot that is mounted as /, with or without an operator
\* who applies by hand, whatever is cut, lost or corrupt.
THEOREM RunningSlotKept ==
  ASSUME "lateflip" \notin Faults
  PROVE  Spec => RootUntouched
<1>1. Init => RootInv
  BY DEF Init, RootInv
<1>2. TypeOK /\ ApplyInv /\ RootInv /\ [Next]_vars => RootInv'
  BY RootInvStep
<1>3. ASSUME TypeOK, ApplyInv, RootInv, [Next]_vars, upd = "write"
      PROVE  slot'[root] = slot[root]
  <2>1. CASE slot' = slot
    BY <2>1
  <2>2. CASE slot' # slot
    <3>1. WriteChunk \/ WriteSlot
      BY <1>3, <2>2, SlotSteps
    <3>2. boot \in {"apply", "session"} /\ root = gpt /\ dest = Other(gpt)
      BY <1>3 DEF ApplyInv, RootInv
    <3>3. root \in Slots /\ dest # root
      BY <1>3, <3>2 DEF TypeOK, Slots, Other
    <3> QED
      BY <1>3, <3>1, <3>3 DEF WriteChunk, WriteSlot, TypeOK
  <2> QED
    BY <2>1, <2>2
<1> QED
  BY <1>1, <1>2, <1>3, TypeCorrect, ApplyInvariant, PTL DEF Spec, RootUntouched

-----------------------------------------------------------------------------
(* The history: no image is committed twice. *)

\* The updater is not stopped between its flip and its sync, /data is there
\* at every boot, gptslot tells the truth, and writes on /data succeed.
CommitUndisturbed ==
  /\ StopPhases \intersect {"record", "trial", "sync"} = {}
  /\ Faults \intersect {"nodata", "lateflip", "nowrite"} = {}

\* Every committed image is in the history, and from the sync on in the file
\* on the card; the image being applied is not.
HistoryInv ==
  /\ data
  /\ committed \subseteq hist \union (IF upd = "record" THEN {job} ELSE {})
  /\ upd \notin {"record", "trial", "sync"} => committed \subseteq histD
  /\ upd \in {"write", "verify", "flip"} => job \notin hist
  /\ boot = "off" => hist = histD /\ upd = "idle"

LEMMA HistoryInvStep ==
  ASSUME CommitUndisturbed, TypeOK, ApplyInv, HistoryInv, [Next]_vars
  PROVE  HistoryInv'
<1> USE DEF HistoryInv, Stored, files, apply, where, ghost
<1>1. CASE PowerOn
  BY <1>1 DEF PowerOn, CommitUndisturbed
<1>2. CASE NoTrialCheck \/ CountBoot \/ RestoreFlip \/ RestoreForget
             \/ NothingToApply \/ Hang
  BY <1>2 DEF NoTrialCheck, CountBoot, RestoreFlip, RestoreForget,
              NothingToApply, Hang
<1>3. CASE RestoreFails
  BY <1>3 DEF RestoreFails
<1>4. CASE StartApply
  BY <1>4 DEF StartApply, Applicable, Eligible
<1>5. CASE WriteChunk \/ WriteSlot \/ VerifySlot
  BY <1>5 DEF WriteChunk, WriteSlot, VerifySlot, Sync, ApplyInv
<1>6. CASE WriteFails \/ VerifyFails
  BY <1>6 DEF WriteFails, VerifyFails, EndApply, ApplyInv
<1>7. CASE CommitFails
  BY <1>7 DEF CommitFails, EndApply, CommitUndisturbed, ApplyInv
<1>8. CASE CommitFlip \/ RecordHistory \/ OpenTrial
  BY <1>8 DEF CommitFlip, RecordHistory, OpenTrial, ApplyInv, CommitUndisturbed
<1>9. CASE SyncCommit \/ RemovePayload
  BY <1>9 DEF SyncCommit, RemovePayload, Sync, NoSync, ApplyInv
<1>10. CASE RestoreReboot \/ ApplyReboot
  BY <1>10 DEF RestoreReboot, ApplyReboot, CleanStop, GoesOff, ApplyInv
<1>11. CASE Shutdown
  BY <1>11 DEF Shutdown, CleanStop, GoesOff, CommitUndisturbed
<1>12. CASE PowerCut
  <2>1. upd \notin {"record", "trial", "sync"}
    BY <1>12 DEF PowerCut, Phase, CommitUndisturbed
  <2>2. committed \subseteq hist /\ committed \subseteq histD
    BY <2>1
  <2> QED
    BY <1>12, <2>2 DEF PowerCut, GoesOff
<1>13. CASE StartSession \/ RespawnSession
  BY <1>13 DEF StartSession, RespawnSession, Confirm, Sync, NoSync, ApplyInv
<1>14. CASE WriteBack
  BY <1>14 DEF WriteBack, Sync
<1>15. CASE SetPayloads
  BY <1>15 DEF SetPayloads
<1>16. CASE UNCHANGED vars
  BY <1>16 DEF vars
<1> QED
  BY <1>1, <1>2, <1>3, <1>4, <1>5, <1>6, <1>7, <1>8, <1>9, <1>10, <1>11,
     <1>12, <1>13, <1>14, <1>15, <1>16
     DEF Next, BootCheck, Apply, Session, Environment

\* With an undisturbed commit no image is committed twice, even if every
\* other unsynced write may be lost and the power cut at any other point.
THEOREM CommittedOnce ==
  ASSUME CommitUndisturbed
  PROVE  Spec => NoRecommit
<1>1. Init => HistoryInv
  BY DEF Init, HistoryInv
<1>2. TypeOK /\ ApplyInv /\ HistoryInv /\ [Next]_vars => HistoryInv'
  BY CommitUndisturbed, HistoryInvStep
<1>3. HistoryInv => (upd = "flip" /\ gpt' # gpt => job \notin committed)
  BY DEF HistoryInv
<1> QED
  BY <1>1, <1>2, <1>3, TypeCorrect, ApplyInvariant, PTL DEF Spec, NoRecommit

-----------------------------------------------------------------------------
(* The whole trial-and-rollback argument, for a user who puts one          *)
(* unapplied payload on the card at a time and a power supply that fails   *)
(* anywhere but between a flip and the files that go with it.              *)

\* One payload at a time, applied by rcS; cached writes reach the card before
\* a cut; gptslot succeeds; payloads may still be corrupt.
OrderlyUse ==
  /\ PatientUser /\ ~ManualApply
  /\ Faults \subseteq {"corrupt"}
  /\ StopPhases \intersect {"record", "trial", "forget"} = {}

Writing == upd \in {"write", "verify", "flip"}

Flipped == upd \in {"record", "trial"}

\* Which slot the system runs from, and what /data says when it is off.
PlaceInv ==
  /\ data
  /\ upd # "idle" => boot = "apply"
  /\ boot \in {"apply", "launch", "session"} /\ (upd = "idle" \/ Writing)
       => root = gpt
  /\ boot = "check" => root = gpt
  /\ boot = "off" => hist = histD /\ trial = trialD
  /\ boot = "session" => ~trial.open
  /\ boot = "settle" => ~trial.open
  /\ boot = "forget" => trial.open

\* A slot from which a session has started holds a sound image.
ProvenInv == \A s \in Slots : proven[s] => slot[s] \in Sound

\* There is at most one unapplied payload, and none during a trial.
CardInv ==
  /\ \A i, j \in card \ hist : i = j
  /\ trial.open /\ boot # "forget" => card \subseteq hist
  /\ Writing \/ upd = "record" => card \ hist \subseteq {job}
  /\ upd = "trial" => card \subseteq hist

\* Outside the two windows: either the selected slot is proven and no trial is
\* open, or it is on its own trial and the other slot is proven.
TrialInv ==
  /\ ~InWindow =>
       \/ ~trial.open /\ proven[gpt]
       \/ /\ trial.open /\ trial.image = slot[gpt] /\ slot[gpt] \in Images
          /\ ~proven[gpt] /\ proven[Other(gpt)]
          /\ boots = trial.attempts
  /\ Writing => ~trial.open
  /\ upd \in {"verify", "flip"} => ~proven[Other(gpt)]
  /\ Flipped => /\ ~trial.open /\ proven[Other(gpt)] /\ ~proven[gpt]
                /\ slot[gpt] = job /\ boots = 0
  /\ boot = "forget" => proven[gpt] /\ boots = 0
  /\ boots < MaxTrialBoots

\* The image being written is a newer one, or another build, not yet tried.
JobInv ==
  Writing => /\ job \notin hist /\ job # slot[gpt] /\ slot[gpt] \in Images
             /\ Version[job] >= Version[slot[gpt]]

PatientInv == PlaceInv /\ ProvenInv /\ CardInv /\ TrialInv /\ JobInv

\* A confirmation closes the trial and brings no payload.
LEMMA ConfirmEffect ==
  ASSUME OrderlyUse, Confirm
  PROVE  ~trial'.open /\ card' \subseteq card
BY DEF OrderlyUse, Confirm, Stored, NoTrial

\* Every step keeps the place of the system and of the updater.
LEMMA PlaceStep ==
  ASSUME OrderlyUse, TypeOK, ApplyInv, PatientInv, [Next]_vars
  PROVE  PlaceInv'
<1> USE ImagesAssumption, PolicyAssumption
    DEF PatientInv, PlaceInv, ProvenInv, CardInv, TrialInv, JobInv, InWindow,
        Writing, Flipped, ApplyInv, TypeOK, OrderlyUse, Stored, files, apply, where,
        ghost, Slots, Other
<1>1. CASE PowerOn
  BY <1>1 DEF PowerOn, OrderlyUse
<1>2. CASE NoTrialCheck
  BY <1>2 DEF NoTrialCheck
<1>3. CASE CountBoot
  BY <1>3 DEF CountBoot, NextAttempt, Counted, Trials
<1>4. CASE RestoreFlip
  BY <1>4 DEF RestoreFlip, NextAttempt
<1>5. CASE RestoreFails
  BY <1>5 DEF RestoreFails
<1>6. CASE RestoreForget
  BY <1>6 DEF RestoreForget, NoTrial
<1>7. CASE RestoreReboot \/ ApplyReboot
  BY <1>7 DEF RestoreReboot, ApplyReboot, CleanStop, GoesOff
<1>8. CASE NothingToApply \/ Hang
  BY <1>8 DEF NothingToApply, Hang
<1>9. CASE StartApply
  BY <1>9 DEF StartApply, Applicable, Eligible
<1>10. CASE WriteChunk \/ WriteSlot
  BY <1>10 DEF WriteChunk, WriteSlot, Sync
<1>11. CASE WriteFails \/ VerifyFails \/ CommitFails
  BY <1>11 DEF WriteFails, VerifyFails, CommitFails, EndApply
<1>12. CASE VerifySlot
  BY <1>12 DEF VerifySlot
<1>13. CASE CommitFlip
  BY <1>13 DEF CommitFlip
<1>14. CASE RecordHistory
  BY <1>14 DEF RecordHistory
<1>15. CASE OpenTrial
  BY <1>15 DEF OpenTrial, NewTrial
<1>16. CASE SyncCommit \/ RemovePayload
  BY <1>16 DEF SyncCommit, RemovePayload, Sync, NoSync
<1>17. CASE StartSession \/ RespawnSession
  BY <1>17, ConfirmEffect DEF StartSession, RespawnSession
<1>18. CASE Shutdown
  BY <1>18 DEF Shutdown, CleanStop, GoesOff
<1>19. CASE PowerCut
  BY <1>19 DEF PowerCut, Phase, GoesOff
<1>20. CASE WriteBack
  BY <1>20 DEF WriteBack, Sync
<1>21. CASE SetPayloads
  BY <1>21 DEF SetPayloads
<1>22. CASE UNCHANGED vars
  BY <1>22 DEF vars
<1> QED
  BY <1>1, <1>2, <1>3, <1>4, <1>5, <1>6, <1>7, <1>8, <1>9, <1>10, <1>11,
     <1>12, <1>13, <1>14, <1>15, <1>16, <1>17, <1>18, <1>19, <1>20, <1>21,
     <1>22
     DEF Next, BootCheck, Apply, Session, Environment

\* Every step keeps proven slots sound.
LEMMA ProvenStep ==
  ASSUME OrderlyUse, TypeOK, ApplyInv, PatientInv, [Next]_vars
  PROVE  ProvenInv'
<1> USE ImagesAssumption, PolicyAssumption
    DEF PatientInv, PlaceInv, ProvenInv, CardInv, TrialInv, JobInv, InWindow,
        Writing, Flipped, ApplyInv, TypeOK, OrderlyUse, Stored, files, apply, where,
        ghost, Slots, Other
<1>1. CASE PowerOn
  BY <1>1 DEF PowerOn, OrderlyUse
<1>2. CASE NoTrialCheck
  BY <1>2 DEF NoTrialCheck
<1>3. CASE CountBoot
  BY <1>3 DEF CountBoot, NextAttempt, Counted, Trials
<1>4. CASE RestoreFlip
  BY <1>4 DEF RestoreFlip, NextAttempt
<1>5. CASE RestoreFails
  BY <1>5 DEF RestoreFails
<1>6. CASE RestoreForget
  BY <1>6 DEF RestoreForget, NoTrial
<1>7. CASE RestoreReboot \/ ApplyReboot
  BY <1>7 DEF RestoreReboot, ApplyReboot, CleanStop, GoesOff
<1>8. CASE NothingToApply \/ Hang
  BY <1>8 DEF NothingToApply, Hang
<1>9. CASE StartApply
  BY <1>9 DEF StartApply, Applicable, Eligible
<1>10. CASE WriteChunk \/ WriteSlot
  BY <1>10 DEF WriteChunk, WriteSlot, Sync
<1>11. CASE WriteFails \/ VerifyFails \/ CommitFails
  BY <1>11 DEF WriteFails, VerifyFails, CommitFails, EndApply
<1>12. CASE VerifySlot
  BY <1>12 DEF VerifySlot
<1>13. CASE CommitFlip
  BY <1>13 DEF CommitFlip
<1>14. CASE RecordHistory
  BY <1>14 DEF RecordHistory
<1>15. CASE OpenTrial
  BY <1>15 DEF OpenTrial, NewTrial
<1>16. CASE SyncCommit \/ RemovePayload
  BY <1>16 DEF SyncCommit, RemovePayload, Sync, NoSync
<1>17. CASE StartSession \/ RespawnSession
  BY <1>17, ConfirmEffect DEF StartSession, RespawnSession
<1>18. CASE Shutdown
  BY <1>18 DEF Shutdown, CleanStop, GoesOff
<1>19. CASE PowerCut
  BY <1>19 DEF PowerCut, Phase, GoesOff
<1>20. CASE WriteBack
  BY <1>20 DEF WriteBack, Sync
<1>21. CASE SetPayloads
  BY <1>21 DEF SetPayloads
<1>22. CASE UNCHANGED vars
  BY <1>22 DEF vars
<1> QED
  BY <1>1, <1>2, <1>3, <1>4, <1>5, <1>6, <1>7, <1>8, <1>9, <1>10, <1>11,
     <1>12, <1>13, <1>14, <1>15, <1>16, <1>17, <1>18, <1>19, <1>20, <1>21,
     <1>22
     DEF Next, BootCheck, Apply, Session, Environment

\* Every step keeps the card in order.
LEMMA CardStep ==
  ASSUME OrderlyUse, TypeOK, ApplyInv, PatientInv, [Next]_vars
  PROVE  CardInv'
<1> USE ImagesAssumption, PolicyAssumption
    DEF PatientInv, PlaceInv, ProvenInv, CardInv, TrialInv, JobInv, InWindow,
        Writing, Flipped, ApplyInv, TypeOK, OrderlyUse, Stored, files, apply, where,
        ghost, Slots, Other
<1>1. CASE PowerOn
  BY <1>1 DEF PowerOn, OrderlyUse
<1>2. CASE NoTrialCheck
  BY <1>2 DEF NoTrialCheck
<1>3. CASE CountBoot
  BY <1>3 DEF CountBoot, NextAttempt, Counted, Trials
<1>4. CASE RestoreFlip
  BY <1>4 DEF RestoreFlip, NextAttempt
<1>5. CASE RestoreFails
  BY <1>5 DEF RestoreFails
<1>6. CASE RestoreForget
  BY <1>6 DEF RestoreForget, NoTrial
<1>7. CASE RestoreReboot \/ ApplyReboot
  BY <1>7 DEF RestoreReboot, ApplyReboot, CleanStop, GoesOff
<1>8. CASE NothingToApply \/ Hang
  BY <1>8 DEF NothingToApply, Hang
<1>9. CASE StartApply
  BY <1>9 DEF StartApply, Applicable, Eligible
<1>10. CASE WriteChunk \/ WriteSlot
  BY <1>10 DEF WriteChunk, WriteSlot, Sync
<1>11. CASE WriteFails \/ VerifyFails \/ CommitFails
  BY <1>11 DEF WriteFails, VerifyFails, CommitFails, EndApply
<1>12. CASE VerifySlot
  BY <1>12 DEF VerifySlot
<1>13. CASE CommitFlip
  BY <1>13 DEF CommitFlip
<1>14. CASE RecordHistory
  BY <1>14 DEF RecordHistory
<1>15. CASE OpenTrial
  BY <1>15 DEF OpenTrial, NewTrial
<1>16. CASE SyncCommit \/ RemovePayload
  BY <1>16 DEF SyncCommit, RemovePayload, Sync, NoSync
<1>17. CASE StartSession \/ RespawnSession
  BY <1>17, ConfirmEffect DEF StartSession, RespawnSession
<1>18. CASE Shutdown
  BY <1>18 DEF Shutdown, CleanStop, GoesOff
<1>19. CASE PowerCut
  BY <1>19 DEF PowerCut, Phase, GoesOff
<1>20. CASE WriteBack
  BY <1>20 DEF WriteBack, Sync
<1>21. CASE SetPayloads
  BY <1>21 DEF SetPayloads
<1>22. CASE UNCHANGED vars
  BY <1>22 DEF vars
<1> QED
  BY <1>1, <1>2, <1>3, <1>4, <1>5, <1>6, <1>7, <1>8, <1>9, <1>10, <1>11,
     <1>12, <1>13, <1>14, <1>15, <1>16, <1>17, <1>18, <1>19, <1>20, <1>21,
     <1>22
     DEF Next, BootCheck, Apply, Session, Environment

\* Every step keeps the job eligible.
LEMMA JobStep ==
  ASSUME OrderlyUse, TypeOK, ApplyInv, PatientInv, [Next]_vars
  PROVE  JobInv'
<1> USE ImagesAssumption, PolicyAssumption
    DEF PatientInv, PlaceInv, ProvenInv, CardInv, TrialInv, JobInv, InWindow,
        Writing, Flipped, ApplyInv, TypeOK, OrderlyUse, Stored, files, apply, where,
        ghost, Slots, Other
<1>1. CASE PowerOn
  BY <1>1 DEF PowerOn, OrderlyUse
<1>2. CASE NoTrialCheck
  BY <1>2 DEF NoTrialCheck
<1>3. CASE CountBoot
  BY <1>3 DEF CountBoot, NextAttempt, Counted, Trials
<1>4. CASE RestoreFlip
  BY <1>4 DEF RestoreFlip, NextAttempt
<1>5. CASE RestoreFails
  BY <1>5 DEF RestoreFails
<1>6. CASE RestoreForget
  BY <1>6 DEF RestoreForget, NoTrial
<1>7. CASE RestoreReboot \/ ApplyReboot
  BY <1>7 DEF RestoreReboot, ApplyReboot, CleanStop, GoesOff
<1>8. CASE NothingToApply \/ Hang
  BY <1>8 DEF NothingToApply, Hang
<1>9. CASE StartApply
  BY <1>9 DEF StartApply, Applicable, Eligible
<1>10. CASE WriteChunk \/ WriteSlot
  <2>1. UNCHANGED <<gpt, job, hist>> /\ upd = "write"
    BY <1>10 DEF WriteChunk, WriteSlot
  <2>2. slot'[gpt] = slot[gpt]
    BY <1>10 DEF WriteChunk, WriteSlot
  <2> QED
    BY <2>1, <2>2
<1>11. CASE WriteFails \/ VerifyFails \/ CommitFails
  BY <1>11 DEF WriteFails, VerifyFails, CommitFails, EndApply
<1>12. CASE VerifySlot
  BY <1>12 DEF VerifySlot
<1>13. CASE CommitFlip
  BY <1>13 DEF CommitFlip
<1>14. CASE RecordHistory
  BY <1>14 DEF RecordHistory
<1>15. CASE OpenTrial
  BY <1>15 DEF OpenTrial, NewTrial
<1>16. CASE SyncCommit \/ RemovePayload
  BY <1>16 DEF SyncCommit, RemovePayload, Sync, NoSync
<1>17. CASE StartSession \/ RespawnSession
  BY <1>17, ConfirmEffect DEF StartSession, RespawnSession
<1>18. CASE Shutdown
  BY <1>18 DEF Shutdown, CleanStop, GoesOff
<1>19. CASE PowerCut
  BY <1>19 DEF PowerCut, Phase, GoesOff
<1>20. CASE WriteBack
  BY <1>20 DEF WriteBack, Sync
<1>21. CASE SetPayloads
  BY <1>21 DEF SetPayloads
<1>22. CASE UNCHANGED vars
  BY <1>22 DEF vars
<1> QED
  BY <1>1, <1>2, <1>3, <1>4, <1>5, <1>6, <1>7, <1>8, <1>9, <1>10, <1>11,
     <1>12, <1>13, <1>14, <1>15, <1>16, <1>17, <1>18, <1>19, <1>20, <1>21,
     <1>22
     DEF Next, BootCheck, Apply, Session, Environment

\* Every step keeps the trial and the two slots in order.
LEMMA TrialStep ==
  ASSUME OrderlyUse, TypeOK, ApplyInv, PatientInv, [Next]_vars
  PROVE  TrialInv'
<1> USE ImagesAssumption, PolicyAssumption
    DEF PatientInv, PlaceInv, ProvenInv, CardInv, TrialInv, JobInv, InWindow,
        Writing, Flipped, ApplyInv, TypeOK, OrderlyUse, Stored, files, apply, where,
        ghost, Slots, Other
<1>1. CASE PowerOn
  BY <1>1 DEF PowerOn, OrderlyUse
<1>2. CASE NoTrialCheck
  BY <1>2 DEF NoTrialCheck
<1>3. CASE CountBoot
  BY <1>3 DEF CountBoot, NextAttempt, Counted, Trials
<1>4. CASE RestoreFlip
  BY <1>4 DEF RestoreFlip, NextAttempt
<1>5. CASE RestoreFails
  BY <1>5 DEF RestoreFails
<1>6. CASE RestoreForget
  BY <1>6 DEF RestoreForget, NoTrial
<1>7. CASE RestoreReboot \/ ApplyReboot
  BY <1>7 DEF RestoreReboot, ApplyReboot, CleanStop, GoesOff
<1>8. CASE NothingToApply \/ Hang
  BY <1>8 DEF NothingToApply, Hang
<1>9. CASE StartApply
  BY <1>9 DEF StartApply, Applicable, Eligible
<1>10. CASE WriteChunk \/ WriteSlot
  <2>1. UNCHANGED <<gpt, trial, boot, boots>> /\ upd = "write"
    BY <1>10 DEF WriteChunk, WriteSlot
  <2>2. proven' = [proven EXCEPT ![Other(gpt)] = FALSE]
    BY <1>10 DEF WriteChunk, WriteSlot
  <2>3. upd' \in {"write", "verify"}
    BY <1>10 DEF WriteChunk, WriteSlot
  <2>4. ~trial.open /\ proven[gpt]
    BY <2>1
  <2> QED
    BY <2>1, <2>2, <2>3, <2>4
<1>11. CASE WriteFails \/ VerifyFails \/ CommitFails
  BY <1>11 DEF WriteFails, VerifyFails, CommitFails, EndApply
<1>12. CASE VerifySlot
  BY <1>12 DEF VerifySlot
<1>13. CASE CommitFlip
  BY <1>13 DEF CommitFlip
<1>14. CASE RecordHistory
  BY <1>14 DEF RecordHistory
<1>15. CASE OpenTrial
  BY <1>15 DEF OpenTrial, NewTrial
<1>16. CASE SyncCommit \/ RemovePayload
  BY <1>16 DEF SyncCommit, RemovePayload, Sync, NoSync
<1>17. CASE StartSession \/ RespawnSession
  BY <1>17, ConfirmEffect DEF StartSession, RespawnSession
<1>18. CASE Shutdown
  BY <1>18 DEF Shutdown, CleanStop, GoesOff
<1>19. CASE PowerCut
  BY <1>19 DEF PowerCut, Phase, GoesOff
<1>20. CASE WriteBack
  BY <1>20 DEF WriteBack, Sync
<1>21. CASE SetPayloads
  BY <1>21 DEF SetPayloads
<1>22. CASE UNCHANGED vars
  BY <1>22 DEF vars
<1> QED
  BY <1>1, <1>2, <1>3, <1>4, <1>5, <1>6, <1>7, <1>8, <1>9, <1>10, <1>11,
     <1>12, <1>13, <1>14, <1>15, <1>16, <1>17, <1>18, <1>19, <1>20, <1>21,
     <1>22
     DEF Next, BootCheck, Apply, Session, Environment

LEMMA PatientInvariant ==
  ASSUME OrderlyUse
  PROVE  Spec => []PatientInv
<1>1. ASSUME Init PROVE PatientInv
  <2> USE <1>1 DEF Init, NoTrial
  <2>1. proven["A"] /\ ~proven["B"] /\ slot["A"] = Factory
    BY DEF Slots
  <2>2. PlaceInv /\ CardInv /\ JobInv
    BY DEF PlaceInv, CardInv, JobInv, Writing
  <2>3. ProvenInv
    BY <2>1, ImagesAssumption DEF ProvenInv, Slots
  <2>4. TrialInv
    BY <2>1, PolicyAssumption DEF TrialInv, InWindow, Writing, Flipped
  <2> QED
    BY <2>2, <2>3, <2>4 DEF PatientInv
<1>2. TypeOK /\ ApplyInv /\ PatientInv /\ [Next]_vars => PatientInv'
  BY OrderlyUse, PlaceStep, ProvenStep, CardStep, TrialStep, JobStep
     DEF PatientInv
<1> QED
  BY <1>1, <1>2, TypeCorrect, ApplyInvariant, PTL DEF Spec

-----------------------------------------------------------------------------
(* What follows from the invariant. *)

\* No selected image is without a way back.
THEOREM AlwaysProtected ==
  ASSUME OrderlyUse
  PROVE  Spec => []Protected
<1>1. PatientInv => Protected
  BY DEF PatientInv, TrialInv, Protected
<1> QED
  BY <1>1, PatientInvariant, PTL

\* As long as a trial is open, the slot a rollback would select holds an image
\* that has started a session.
THEOREM RollbackWorks ==
  ASSUME OrderlyUse
  PROVE  Spec => []RestoreTargetProven
<1>1. PatientInv => RestoreTargetProven
  BY DEF PatientInv, TrialInv, RestoreTargetProven
<1> QED
  BY <1>1, PatientInvariant, PTL

\* The MaxTrialBoots-th boot of a trial does not get past boot-check.
THEOREM TrialIsBounded ==
  ASSUME OrderlyUse
  PROVE  Spec => []TrialBounded
<1>1. PatientInv => TrialBounded
  BY DEF PatientInv, TrialInv, TrialBounded
<1> QED
  BY <1>1, PatientInvariant, PTL

\* boot-check never takes the device off an image that has started a session.
THEOREM ConfirmationIsFinal ==
  ASSUME OrderlyUse
  PROVE  Spec => ProvenNotDemoted
<1>1. ASSUME TypeOK, ApplyInv, PatientInv, [Next]_vars
      PROVE  upd = "idle" /\ gpt' # gpt => ~proven[gpt]
  <2> SUFFICES ASSUME upd = "idle", gpt' # gpt
               PROVE  ~proven[gpt]
    OBVIOUS
  <2> USE <1>1 DEF files, apply, where, ghost
  <2>1. RestoreFlip \/ RestoreFails
    <3>1. CASE PowerOn \/ NothingToApply \/ Hang
      BY <3>1 DEF PowerOn, NothingToApply, Hang
    <3>2. CASE BootCheck
      BY <3>2 DEF BootCheck, NoTrialCheck, CountBoot, RestoreForget,
                  RestoreReboot, CleanStop, GoesOff
    <3>3. CASE Apply
      BY <3>3 DEF Apply, StartApply, WriteChunk, WriteSlot, WriteFails,
                  VerifySlot, VerifyFails, CommitFlip, CommitFails, RecordHistory,
                  OpenTrial, SyncCommit, RemovePayload, ApplyReboot
    <3>4. CASE Session \/ Environment
      BY <3>4 DEF Session, Environment, StartSession, RespawnSession, Shutdown,
                  PowerCut, CleanStop, GoesOff, WriteBack, SetPayloads
    <3>5. CASE UNCHANGED vars
      BY <3>5 DEF vars
    <3> QED
      BY <3>1, <3>2, <3>3, <3>4, <3>5 DEF Next
  <2>2. trial.open /\ ~InWindow
    BY <2>1 DEF RestoreFlip, RestoreFails, InWindow
  <2> QED
    BY <2>2 DEF PatientInv, TrialInv
<1> QED
  BY <1>1, PatientInvariant, TypeCorrect, ApplyInvariant, PTL
     DEF Spec, ProvenNotDemoted

-----------------------------------------------------------------------------
(* The procedure implements ABUpdate. *)

LEMMA InitRefines ==
  ASSUME Init
  PROVE  Promise!Init
BY DEF Init, Promise!Init, OnTrial, Committing, NoTrial, Slots, Other

\* Every step is one step of ABUpdate, or none.
LEMMA StepRefines ==
  ASSUME OrderlyUse, TypeOK, ApplyInv, PatientInv, PatientInv', [Next]_vars
  PROVE  [Promise!Next]_(Promise!vars)
<1> USE ImagesAssumption, PolicyAssumption
    DEF PatientInv, PlaceInv, ProvenInv, CardInv, TrialInv, JobInv, InWindow,
        Writing, Flipped, ApplyInv, TypeOK, OrderlyUse, Stored, files, apply, where,
        ghost, Slots, Other, OnTrial, Committing, Promise!vars
<1>1. CASE PowerOn \/ NoTrialCheck \/ NothingToApply \/ Hang \/ WriteBack
             \/ SetPayloads \/ UNCHANGED vars
  BY <1>1 DEF PowerOn, NoTrialCheck, NothingToApply, Hang, WriteBack, Sync,
              SetPayloads, vars
<1>2. CASE CountBoot
  <2>1. Promise!TrialBoot
    BY <1>2 DEF CountBoot, NextAttempt, Counted, Trials, Promise!TrialBoot
  <2> QED
    BY <2>1 DEF Promise!Next
<1>3. CASE RestoreFlip
  <2>1. Promise!Restore
    BY <1>3 DEF RestoreFlip, NextAttempt, Trials, Promise!Restore
  <2> QED
    BY <2>1 DEF Promise!Next
<1>4. CASE RestoreFails
  BY <1>4 DEF RestoreFails
<1>5. CASE RestoreForget
  BY <1>5 DEF RestoreForget, NoTrial
<1>6. CASE RestoreReboot \/ ApplyReboot \/ Shutdown
  BY <1>6 DEF RestoreReboot, ApplyReboot, Shutdown, CleanStop, GoesOff
<1>7. CASE StartApply
  BY <1>7 DEF StartApply
<1>8. CASE WriteChunk \/ WriteSlot
  <2>1. Promise!Prepare
    BY <1>8 DEF WriteChunk, WriteSlot, Promise!Prepare
  <2> QED
    BY <2>1 DEF Promise!Next
<1>9. CASE WriteFails \/ VerifySlot \/ VerifyFails \/ CommitFails
  BY <1>9 DEF WriteFails, VerifySlot, VerifyFails, CommitFails, EndApply
<1>10. CASE CommitFlip
  BY <1>10 DEF CommitFlip, Promise!Install, Promise!Next
<1>11. CASE RecordHistory
  BY <1>11 DEF RecordHistory
<1>12. CASE OpenTrial
  BY <1>12 DEF OpenTrial, NewTrial
<1>13. CASE SyncCommit \/ RemovePayload
  BY <1>13 DEF SyncCommit, RemovePayload
<1>14. CASE StartSession \/ RespawnSession
  BY <1>14, ConfirmEffect
     DEF StartSession, RespawnSession, Promise!Confirm, Promise!Next
<1>15. CASE PowerCut
  BY <1>15 DEF PowerCut, Phase, GoesOff
<1> QED
  BY <1>1, <1>2, <1>3, <1>4, <1>5, <1>6, <1>7, <1>8, <1>9, <1>10, <1>11,
     <1>12, <1>13, <1>14, <1>15
     DEF Next, BootCheck, Apply, Session, Environment

\* The update procedure, its callers included, implements the abstract A/B
\* update for every set of images and every trial length.
THEOREM Refinement ==
  ASSUME OrderlyUse
  PROVE  Spec => ImplementsABUpdate
<1>1. Init => Promise!Init
  BY InitRefines
<1>2. TypeOK /\ ApplyInv /\ PatientInv /\ PatientInv' /\ [Next]_vars
        => [Promise!Next]_(Promise!vars)
  BY OrderlyUse, StepRefines
<1> QED
  BY <1>1, <1>2, TypeCorrect, ApplyInvariant, PatientInvariant, PTL
     DEF Spec, ImplementsABUpdate, Promise!Spec

=============================================================================
