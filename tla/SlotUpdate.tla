------------------------------ MODULE SlotUpdate ------------------------------
(***************************************************************************)
(* The A/B system update of BaseOS: baseos-update (apply, boot-check,      *)
(* confirm), the callers that run it (rcS at boot, frontend-session when a *)
(* session starts or is respawned, an operator over adb) and the state it  *)
(* keeps: GPT entry 5, the two rootfs slots and two files on /data.        *)
(*                                                                         *)
(* An image stands for the triple (sha, version, build) of a manifest and  *)
(* for the bytes the sha names; Version orders images as version_newer     *)
(* does, and two images of one version are two builds.                     *)
(*                                                                         *)
(* The flip of the GPT is one step here (gptslot fsyncs it before it       *)
(* returns).  The two files have a value in the page cache and a value on  *)
(* the card; they become equal at a sync or at a write-back.               *)
(***************************************************************************)
EXTENDS Naturals, FiniteSets

CONSTANTS
  Images,         \* the images that exist: the factory one and the payloads
  Blank,          \* a slot, or a trial file, that holds no complete value
  Factory,        \* the image the card was built with, in slot A
  Bootable,       \* images whose userspace reaches boot-check
  Sound,          \* images that also reach a frontend session
  Version,        \* Version[i]: the version number of image i
  Legacy,         \* the sha of a pre-1.0.3 committed-sha file, if there is one
  MaxTrialBoots,  \* MAX_TRIAL_BOOTS of the script
  StopPhases,     \* phases in which the power may be cut or the updater killed
  Faults,         \* what else may go wrong, a subset of FaultKinds
  ManualApply,    \* an operator may run "baseos-update apply" in a session
  PatientUser     \* the user never puts a second unapplied payload on the card

Slots == {"A", "B"}

Other(s) == IF s = "A" THEN "B" ELSE "A"

\* "lost": a power cut may lose writes that were never synced.
\* "corrupt": a payload may fail to decompress, or to its manifest's sha.
\* "flip": gptslot may fail before it has changed the primary GPT.
\* "lateflip": gptslot may fail after it has (the last fsync reports an error).
\* "nodata": /data may fail to mount, and rcS then mounts a tmpfs there.
\* "nowrite": /data may be full or read-only, so that a file on it stays as it
\* was.  The script does not look at the status of these writes.
FaultKinds == {"lost", "corrupt", "flip", "lateflip", "nodata", "nowrite"}

BootPhases ==
  {"off", "check", "forget", "settle", "apply", "launch", "session", "stuck"}

UpdatePhases ==
  {"write", "verify", "flip", "record", "trial", "sync", "remove", "reboot"}

ASSUME ImagesAssumption ==
  /\ Blank \notin Images
  /\ Factory \in Sound
  /\ Sound \subseteq Bootable
  /\ Bootable \subseteq Images
  /\ Legacy \subseteq Images
  /\ Version \in [Images -> Nat]

ASSUME PolicyAssumption ==
  /\ MaxTrialBoots \in Nat \ {0, 1}
  /\ StopPhases \subseteq BootPhases \union UpdatePhases
  /\ Faults \subseteq FaultKinds
  /\ ManualApply \in BOOLEAN
  /\ PatientUser \in BOOLEAN

VARIABLES
  gpt,        \* the slot GPT entry 5 points at: the "active" slot of gptslot
  slot,       \* slot[s]: the image in slot s, Blank while it is being written
  card,       \* the *.bosupd payloads on the frontend card
  hist,       \* /data/update/history, as programs read it
  histD,      \* ... and as it is on the card
  trial,      \* /data/update/state, as programs read it
  trialD,     \* ... and as it is on the card
  boot,       \* where the boot sequence is
  root,       \* the slot the running kernel mounted as /
  usb,        \* this is a USB-storage maintenance boot
  data,       \* /data is the real partition, not the tmpfs rcS falls back to
  upd,        \* where the running "baseos-update apply" is, or "idle"
  job,        \* the image it applies
  dest,       \* the slot it writes: SLOT_INACTIVE_START when it started
  proven,     \* history variable: a session started since this slot was written
  committed,  \* history variable: the images a commit flip has selected
  boots       \* history variable: boots counted since the last flip

files == <<hist, histD, trial, trialD>>
apply == <<upd, job, dest>>
where == <<root, usb, data>>
ghost == <<proven, committed, boots>>
vars == <<gpt, slot, card, hist, histD, trial, trialD, boot, root, usb, data,
          upd, job, dest, proven, committed, boots>>

-----------------------------------------------------------------------------
(* The state file: its "trial=", "sha=" and "attempts=" lines. *)

NoTrial == [open |-> FALSE, image |-> Blank, attempts |-> 0]

\* A state file that is there and has no readable line.
TornTrial == [open |-> TRUE, image |-> Blank, attempts |-> 0]

NewTrial(i) == [open |-> TRUE, image |-> i, attempts |-> 0]

Trials ==
  [open: BOOLEAN, image: Images \union {Blank},
   attempts: 0 .. MaxTrialBoots - 1]

\* A slip of NextAttempt: the count is compared before it is advanced.
SlipNextAttempt == trial.attempts

\* boot_check: an absent attempts line counts as zero.
NextAttempt == trial.attempts + 1

\* A slip of Counted: the sed expression matches no line.
SlipCounted(t) == t

\* boot_check: sed replaces an attempts line and adds none.
Counted(t) ==
  IF t.image = Blank THEN t ELSE [t EXCEPT !.attempts = @ + 1]

-----------------------------------------------------------------------------
(* Selection of a payload. *)

\* A slip of Eligible: the history is not consulted.
SlipEligible(i) ==
  /\ slot[root] \in Images
  /\ \/ Version[i] > Version[slot[root]]
     \/ Version[i] = Version[slot[root]] /\ i # slot[root]

\* evaluate: newer than the running image, or another build of its version,
\* and not in the history.
Eligible(i) ==
  /\ slot[root] \in Images
  /\ \/ Version[i] > Version[slot[root]]
     \/ Version[i] = Version[slot[root]] /\ i # slot[root]
  /\ i \notin hist

\* scan_dirs and select_payload: which of them is taken depends on file names.
Applicable == IF usb THEN {} ELSE {i \in card : Eligible(i)}

-----------------------------------------------------------------------------
(* What reaches the card. *)

Sync ==
  /\ histD' = IF data THEN hist ELSE histD
  /\ trialD' = IF data THEN trial ELSE trialD

NoSync == UNCHANGED <<histD, trialD>>

\* What a file may hold after a write of new: new, or what it held.
Stored(new, old) == {new} \union (IF "nowrite" \in Faults THEN {old} ELSE {})

\* The machine stops with h and t on the card.
GoesOff(h, t) ==
  /\ boot' = "off"
  /\ upd' = "idle" /\ job' = Blank /\ dest' = "A"
  /\ hist' = h /\ histD' = h
  /\ trial' = t /\ trialD' = t
  /\ UNCHANGED <<gpt, slot, root, usb, data, ghost>>

\* rcK: writers are killed, then a sync.
CleanStop ==
  GoesOff(IF data THEN hist ELSE histD, IF data THEN trial ELSE trialD)

Phase == IF upd = "idle" THEN boot ELSE upd

-----------------------------------------------------------------------------
Init ==
  /\ gpt = "A"
  /\ slot = [s \in Slots |-> IF s = "A" THEN Factory ELSE Blank]
  /\ card = {}
  /\ hist = Legacy /\ histD = Legacy
  /\ trial = NoTrial /\ trialD = NoTrial
  /\ boot = "off"
  /\ root = "A" /\ usb = FALSE /\ data = TRUE
  /\ upd = "idle" /\ job = Blank /\ dest = "A"
  /\ proven = [s \in Slots |-> s = "A"]
  /\ committed = Legacy
  /\ boots = 0

-----------------------------------------------------------------------------
(* The boot: U-Boot and the kernel take the slot from GPT entry 5. *)

\* /data, then everything up to the call of boot-check.
PowerOn ==
  /\ boot = "off"
  /\ boot' = IF slot[gpt] \in Bootable THEN "check" ELSE "stuck"
  /\ root' = gpt
  /\ usb' \in BOOLEAN
  /\ data' \in (IF "nodata" \in Faults THEN BOOLEAN ELSE {TRUE})
  /\ hist' = IF data' THEN histD ELSE {}
  /\ trial' = IF data' THEN trialD ELSE NoTrial
  /\ UNCHANGED <<gpt, slot, card, histD, trialD, apply, ghost>>

\* boot_check with no state file.
NoTrialCheck ==
  /\ boot = "check" /\ ~trial.open
  /\ boot' = "apply"
  /\ UNCHANGED <<gpt, slot, card, files, where, apply, ghost>>

\* boot_check: another boot of the trial.  The new count is not synced; where
\* sed or mv fails the boot goes on without it.
CountBoot ==
  /\ boot = "check" /\ trial.open
  /\ NextAttempt < MaxTrialBoots
  /\ trial' \in Stored(Counted(trial), trial)
  /\ boot' = "apply"
  /\ boots' = IF boots < MaxTrialBoots THEN boots + 1 ELSE boots
  /\ UNCHANGED <<gpt, slot, card, hist, histD, trialD, where, apply, proven,
                 committed>>

\* boot_check: the trial has used its boots, and the GPT is flipped back.
RestoreFlip ==
  /\ boot = "check" /\ trial.open
  /\ NextAttempt >= MaxTrialBoots
  /\ gpt' = Other(gpt)
  /\ boot' = "forget"
  /\ boots' = 0
  /\ UNCHANGED <<slot, card, files, where, apply, proven, committed>>

\* boot_check: gptslot failed; the state file is removed all the same.
RestoreFails ==
  /\ boot = "check" /\ trial.open
  /\ NextAttempt >= MaxTrialBoots
  /\ \/ "flip" \in Faults /\ UNCHANGED gpt
     \/ "lateflip" \in Faults /\ gpt' = Other(gpt)
  /\ trial' \in Stored(NoTrial, trial)
  /\ boot' = "apply"
  /\ UNCHANGED <<slot, card, hist, histD, trialD, where, apply, ghost>>

\* A slip of RestoreForget: the state file outlives the rollback.
SlipRestoreForget ==
  /\ boot = "forget"
  /\ boot' = "settle"
  /\ UNCHANGED <<gpt, slot, card, files, where, apply, ghost>>

\* boot_check: rm -f "$STATE" after the flip.
RestoreForget ==
  /\ boot = "forget"
  /\ trial' \in Stored(NoTrial, trial)
  /\ boot' = "settle"
  /\ UNCHANGED <<gpt, slot, card, hist, histD, trialD, where, apply, ghost>>

\* boot_check: sync; reboot.
RestoreReboot ==
  /\ boot = "settle"
  /\ CleanStop
  /\ UNCHANGED card

\* rcS calls apply, which finds nothing to do.
NothingToApply ==
  /\ boot = "apply" /\ upd = "idle"
  /\ Applicable = {}
  /\ boot' = "launch"
  /\ UNCHANGED <<gpt, slot, card, files, where, apply, ghost>>

-----------------------------------------------------------------------------
(* apply, step by step. *)

\* A slip of StartApply: the start of the active slot is taken.
SlipStartApply ==
  /\ upd = "idle"
  /\ boot = "apply" \/ (ManualApply /\ boot = "session")
  /\ job' \in Applicable
  /\ upd' = "write"
  /\ dest' = gpt
  /\ UNCHANGED <<gpt, slot, card, files, boot, where, ghost>>

\* The geometry is read once, and a payload is chosen.
StartApply ==
  /\ upd = "idle"
  /\ boot = "apply" \/ (ManualApply /\ boot = "session")
  /\ job' \in Applicable
  /\ upd' = "write"
  /\ dest' = Other(gpt)
  /\ UNCHANGED <<gpt, slot, card, files, boot, where, ghost>>

\* The first chunk that reaches the card destroys what the slot held.
WriteChunk ==
  /\ upd = "write" /\ slot[dest] # Blank
  /\ slot' = [slot EXCEPT ![dest] = Blank]
  /\ proven' = [proven EXCEPT ![dest] = FALSE]
  /\ UNCHANGED <<gpt, card, files, boot, where, apply, committed, boots>>

\* apply returns; rcS goes on to start the session.
EndApply ==
  /\ upd' = "idle" /\ job' = Blank /\ dest' = "A"
  /\ boot' = IF boot = "apply" THEN "launch" ELSE boot

\* The last chunk is written and synced.  A stream that ends early leaves the
\* slot half written, or, when it delivers nothing, as it was.
WriteSlot ==
  /\ upd = "write"
  /\ \E c \in {job} \union
               (IF "corrupt" \in Faults THEN {Blank, slot[dest]} ELSE {}) :
       slot' = [slot EXCEPT ![dest] = c]
  /\ proven' = [proven EXCEPT ![dest] = FALSE]
  /\ upd' = "verify"
  /\ Sync
  /\ UNCHANGED <<gpt, card, hist, trial, boot, where, job, dest, committed,
                 boots>>

WriteFails ==
  /\ upd = "write" /\ "corrupt" \in Faults
  /\ EndApply
  /\ UNCHANGED <<gpt, slot, card, files, where, ghost>>

\* A slip of VerifySlot: the hash is not compared.
SlipVerifySlot ==
  /\ upd = "verify"
  /\ upd' = "flip"
  /\ UNCHANGED <<gpt, slot, card, files, boot, where, job, dest, ghost>>

\* The slot is read back and hashed.
VerifySlot ==
  /\ upd = "verify" /\ slot[dest] = job
  /\ upd' = "flip"
  /\ UNCHANGED <<gpt, slot, card, files, boot, where, job, dest, ghost>>

VerifyFails ==
  /\ upd = "verify" /\ slot[dest] # job
  /\ EndApply
  /\ UNCHANGED <<gpt, slot, card, files, where, ghost>>

\* gptslot flip: the other slot of the GPT as it is now.
CommitFlip ==
  /\ upd = "flip"
  /\ gpt' = Other(gpt)
  /\ upd' = "record"
  /\ committed' = committed \union {job}
  /\ boots' = 0
  /\ UNCHANGED <<slot, card, files, boot, where, job, dest, proven>>

\* gptslot reports an error: apply says the old slot is still selected.
CommitFails ==
  /\ upd = "flip"
  /\ \/ "flip" \in Faults /\ UNCHANGED <<gpt, committed, boots>>
     \/ /\ "lateflip" \in Faults
        /\ gpt' = Other(gpt) /\ committed' = committed \union {job} /\ boots' = 0
  /\ EndApply
  /\ UNCHANGED <<slot, card, files, where, proven>>

\* printf >> "$HISTORY".
RecordHistory ==
  /\ upd = "record"
  /\ hist' \in Stored(hist \union {job}, hist)
  /\ upd' = "trial"
  /\ UNCHANGED <<gpt, slot, card, histD, trial, trialD, boot, where, job, dest,
                 ghost>>

\* A slip of OpenTrial: the state file names the running image.
SlipOpenTrial ==
  /\ upd = "trial"
  /\ trial' = NewTrial(slot[root])
  /\ upd' = "sync"
  /\ UNCHANGED <<gpt, slot, card, hist, histD, trialD, boot, where, job, dest,
                 ghost>>

\* The state file of the trial: trial=, build=, attempts=0, sha=.  Where there
\* is no room the file is there and empty.
OpenTrial ==
  /\ upd = "trial"
  /\ \/ trial' \in Stored(NewTrial(job), trial)
     \/ "nowrite" \in Faults /\ trial' = TornTrial
  /\ upd' = "sync"
  /\ UNCHANGED <<gpt, slot, card, hist, histD, trialD, boot, where, job, dest,
                 ghost>>

SyncCommit ==
  /\ upd = "sync"
  /\ Sync
  /\ upd' = "remove"
  /\ UNCHANGED <<gpt, slot, card, hist, trial, boot, where, job, dest, ghost>>

\* remove_payload: the remount may be refused, then nothing more is done;
\* the rm may fail, and the sync follows all the same.
RemovePayload ==
  /\ upd = "remove"
  /\ \/ card' \in {card, card \ {job}} /\ Sync
     \/ UNCHANGED card /\ NoSync
  /\ upd' = "reboot"
  /\ UNCHANGED <<gpt, slot, hist, trial, boot, where, job, dest, ghost>>

\* reboot: init runs rcK.
ApplyReboot ==
  /\ upd = "reboot"
  /\ CleanStop
  /\ UNCHANGED card

-----------------------------------------------------------------------------
(* frontend-session, and what ends a boot. *)

\* remove_trial_payload: only the payload of the trial this system runs.
TrialPayload ==
  IF ~usb /\ trial.image = slot[root] THEN card \intersect {trial.image} ELSE {}

\* A slip of Confirm: the trial ends only where an archive was left behind.
SlipConfirm ==
  IF trial.open /\ TrialPayload # {}
    THEN trial' = NoTrial /\ card' = card \ TrialPayload /\ Sync
    ELSE UNCHANGED <<card, trial, histD, trialD>>

\* confirm: archives of the trial are removed (with a sync each), then the
\* state file, with none.
Confirm ==
  \/ /\ ~trial.open \/ TrialPayload = {}
     /\ trial' \in Stored(NoTrial, trial)
     /\ UNCHANGED card /\ NoSync
  \/ /\ trial.open /\ TrialPayload # {}
     /\ trial' \in Stored(NoTrial, trial)
     /\ \/ card' \in {card, card \ TrialPayload} /\ Sync
        \/ UNCHANGED card /\ NoSync

\* The first session of this boot.
StartSession ==
  /\ boot = "launch" /\ slot[root] \in Sound
  /\ boot' = "session"
  /\ Confirm
  /\ proven' = [proven EXCEPT ![root] = TRUE]
  /\ UNCHANGED <<gpt, slot, hist, where, apply, committed, boots>>

\* init respawns frontend-session whenever it exits.
RespawnSession ==
  /\ boot = "session" /\ slot[root] \in Sound
  /\ Confirm
  /\ UNCHANGED <<gpt, slot, hist, boot, where, apply, ghost>>

\* An image that is not sound hangs after boot-check, before or after apply.
Hang ==
  /\ boot \in {"apply", "launch"} /\ upd = "idle"
  /\ slot[root] \notin Sound
  /\ boot' = "stuck"
  /\ UNCHANGED <<gpt, slot, card, files, where, apply, ghost>>

\* An orderly reboot or power-off from a session kills an updater too.
Shutdown ==
  /\ boot = "session"
  /\ upd = "idle" \/ upd \in StopPhases
  /\ CleanStop
  /\ UNCHANGED card

\* The power is cut.  Each file has its cached value on the card, or still
\* the last synced one; a file created since may be there without its data.
PowerCut ==
  /\ boot # "off" /\ Phase \in StopPhases
  /\ \E h \in {IF data THEN hist ELSE histD}
                \union (IF "lost" \in Faults THEN {histD} ELSE {}),
        t \in {IF data THEN trial ELSE trialD}
                \union (IF "lost" \in Faults THEN {trialD} ELSE {})
                \union (IF "lost" \in Faults /\ data /\ trial.open /\ ~trialD.open
                          THEN {TornTrial} ELSE {}) :
       GoesOff(h, t)
  /\ UNCHANGED card

\* The kernel's periodic write-back.
WriteBack ==
  /\ boot # "off" /\ data
  /\ <<histD, trialD>> # <<hist, trial>>
  /\ Sync
  /\ UNCHANGED <<gpt, slot, card, hist, trial, boot, where, apply, ghost>>

\* The user changes the payloads on the card: in a card reader, or from a
\* session (a download, adb push).
SetPayloads ==
  /\ boot \in {"off", "session"}
  /\ card' \in SUBSET Images
  /\ PatientUser => /\ upd = "idle"
                    /\ \A i, j \in card' \ hist : i = j
                    /\ trial.open => card' \subseteq hist
  /\ UNCHANGED <<gpt, slot, files, boot, where, apply, ghost>>

-----------------------------------------------------------------------------
BootCheck ==
  NoTrialCheck \/ CountBoot \/ RestoreFlip \/ RestoreFails \/ RestoreForget
    \/ RestoreReboot

Apply ==
  StartApply \/ WriteChunk \/ WriteSlot \/ WriteFails \/ VerifySlot
    \/ VerifyFails \/ CommitFlip \/ CommitFails \/ RecordHistory \/ OpenTrial \/ SyncCommit
    \/ RemovePayload \/ ApplyReboot

Session == StartSession \/ RespawnSession

Environment == Shutdown \/ PowerCut \/ WriteBack \/ SetPayloads

Next ==
  PowerOn \/ BootCheck \/ NothingToApply \/ Apply \/ Session \/ Hang
    \/ Environment

Spec == Init /\ [][Next]_vars

\* A stuck device is switched off and on again, the boot goes on when it is
\* not interrupted, and a running updater goes on too.  The owner does not
\* always cut the power before the kernel has written back what is dirty.
Fairness ==
  /\ WF_vars(PowerOn)
  /\ WF_vars(BootCheck)
  /\ WF_vars(NothingToApply)
  /\ WF_vars(Apply)
  /\ WF_vars(Hang)
  /\ WF_vars(PowerCut /\ boot = "stuck")
  /\ SF_vars(WriteBack)

FairSpec == Spec /\ Fairness

-----------------------------------------------------------------------------
(* Properties. *)

\* Types of the variables.
TypeOK ==
  /\ gpt \in Slots /\ root \in Slots /\ dest \in Slots
  /\ slot \in [Slots -> Images \union {Blank}]
  /\ card \in SUBSET Images
  /\ hist \in SUBSET Images /\ histD \in SUBSET Images
  /\ trial \in Trials /\ trialD \in Trials
  /\ boot \in BootPhases
  /\ usb \in BOOLEAN /\ data \in BOOLEAN
  /\ upd \in UpdatePhases \union {"idle"}
  /\ job \in Images \union {Blank}
  /\ upd # "idle" => job \in Images
  /\ proven \in [Slots -> BOOLEAN]
  /\ committed \in SUBSET Images
  /\ boots \in 0 .. MaxTrialBoots

\* The updater flips the GPT only to a slot that holds, complete, the image of
\* the manifest it chose: whatever fails, and wherever the power is cut
\* (tests/test-update-apply.sh: "it never flips the GPT unless the inactive
\* slot verified").
CommitFlipsToVerified ==
  [][upd = "flip" /\ gpt' # gpt => slot[gpt'] = job /\ job \in Images]_vars

\* The updater never writes the slot the running system is mounted from
\* (baseos-update: "writes the new filesystem image into the inactive half").
RootUntouched ==
  [][upd = "write" => slot'[root] = slot[root]]_vars

\* An image that was committed once is never committed again, so a payload
\* that was rolled back and is still on the card, or is copied back to it,
\* does not make the device oscillate (the comment on HISTORY).
NoRecommit ==
  [][upd = "flip" /\ gpt' # gpt => job \notin committed]_vars

\* boot-check never takes the device off an image that has once started a
\* session: confirmation is final, and the image a rollback returns to is not
\* itself rolled back (boot_check against confirm).
ProvenNotDemoted ==
  [][upd = "idle" /\ gpt' # gpt => ~proven[gpt]]_vars

\* Between the flip and the state file, and between the flip back and its
\* removal, the GPT and the state file do not belong together.
InWindow == upd \in {"record", "trial"} \/ boot = "forget"

\* An image the GPT selects has started a session, or is on a trial of its
\* own: no selected image is without a way back (rcS: "A freshly updated slot
\* is on trial until a frontend session starts").
Protected ==
  ~InWindow => proven[gpt] \/ (trial.open /\ trial.image = slot[gpt])

\* As long as a trial is open the other slot holds an image that has started a
\* session: what a rollback would select works (MAX_TRIAL_BOOTS: "before the
\* previous slot is restored").
RestoreTargetProven ==
  trial.open /\ ~InWindow => proven[Other(gpt)]

\* Between two flips at most MaxTrialBoots - 1 boots of an open trial get past
\* boot-check: the next one restores (docs/07: "flips back on the third boot").
TrialBounded == boots < MaxTrialBoots

\* A trial is confirmed only by a session of the image it is about
\* (frontend-session: "the OS came up far enough to hand off").
ConfirmedByItself ==
  [][(boot' = "session" /\ trial.open /\ ~trial'.open)
        => trial.image = slot[root]]_vars

\* A selected image that reaches boot-check and no session does not stay
\* selected: in the end a proven image is selected, although a power cut may
\* lose the count of a boot, which boot_check does not sync.
FlawedIsReplaced ==
  (slot[gpt] \in Bootable \ Sound) ~> (slot[gpt] \in Images /\ proven[gpt])

-----------------------------------------------------------------------------
(* The abstract update this protocol implements: a commit takes effect at  *)
(* the flip, and so does a rollback.                                       *)

Committing == upd \in {"record", "trial"}

OnTrial == Committing \/ (trial.open /\ boot # "forget")

Promise == INSTANCE ABUpdate WITH
  os <- slot[gpt],
  fallback <- slot[Other(gpt)],
  onTrial <- OnTrial,
  tries <- IF OnTrial /\ ~Committing THEN trial.attempts ELSE 0,
  tried <- hist \union (IF upd = "record" THEN {job} ELSE {})

\* With a patient user and no power cut between a flip and its files, the
\* whole procedure is the abstract update: at every step it does one step of
\* ABUpdate or none (baseos-update, rcS and frontend-session together).
ImplementsABUpdate == Promise!Spec

=============================================================================
