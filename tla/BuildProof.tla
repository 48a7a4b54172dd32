------------------------------- MODULE BuildProof -------------------------------
(***************************************************************************)
(* For any targets, firmwares and states of the checkout: what the images, *)
(* the cached audio modules and the payloads are made of.  Each theorem    *)
(* names what it takes for it: that no script ends where the installed     *)
(* harvest and the artifacts of the old one are both there, that the       *)
(* driver is not edited between its copy and its stamp, that an edit is not *)
(* taken back after something was built from it.                           *)
(***************************************************************************)
EXTENDS Build, TLAPS

Window == {"source", "unlink", "clean"}

NoCutInWindow == CutPoints \cap Window = {}

HarvestsComplete == Outdated = {}

NoEditBeforeStamp == "stamp" \notin EditPoints

-----------------------------------------------------------------------------
(* Types *)

Origins == Firmwares \union {0}

Drivers == {DriverOf[c] : c \in Contents}

Stamps == [kernel : Origins, driver : Drivers]

AudioModules == Stamps \union {None}

Records == [stamp : AudioModules, sum : AudioModules] \union {None}

Labels == [rev : Contents, tree : {"clean", "dirty"}]

AnyLabel == Labels \union {None}

Roots ==
  [harvest : Origins, pair : Origins, audio : AudioModules, label : AnyLabel, content : Contents]

DiskImages == [prefix : Origins, rootfs : Roots, stage : {"composed", "verified"}]

Jobs ==
  [step : Steps, todo : SUBSET Targets, fw : Origins, copy : AudioModules,
   stamp : AudioModules, label : AnyLabel]

FilesTyped ==
  /\ sources \in [Targets -> Origins] /\ prefixes \in [Targets -> Origins]
  /\ harvests \in [Targets -> Origins] /\ pair \in [Targets -> Origins]

AudioTyped ==
  ko \in [Targets -> AudioModules] /\ record \in [Targets -> Records]

CheckoutTyped == head \in Contents /\ content \in Contents

ArtifactsTyped ==
  /\ rootfs \in [Targets -> Roots \union {None}]
  /\ images \in [Targets -> DiskImages \union {None}]
  /\ DOMAIN payloads = Targets

JobTyped == job \in Jobs

Composed == job.step = "verify_image" => \A t \in job.todo : images[t] # None

BuildTyped ==
  FilesTyped /\ AudioTyped /\ CheckoutTyped /\ ArtifactsTyped /\ JobTyped /\ Composed

-----------------------------------------------------------------------------
(* How the fields of a job and of an image change. *)

\* A new step leaves the other fields of a job alone; the next three say the
\* same of its targets, the copy of the sources and their stamp.
LEMMA JobStep ==
  ASSUME NEW j \in Jobs, NEW s \in Steps
  PROVE  LET k == [j EXCEPT !.step = s]
         IN  /\ k \in Jobs /\ k.step = s /\ k.todo = j.todo /\ k.fw = j.fw
             /\ k.copy = j.copy /\ k.stamp = j.stamp /\ k.label = j.label
BY SMT DEF Jobs

\* The same for the targets that are left.
LEMMA JobTodo ==
  ASSUME NEW j \in Jobs, NEW ts \in SUBSET Targets
  PROVE  LET k == [j EXCEPT !.todo = ts]
         IN  /\ k \in Jobs /\ k.step = j.step /\ k.todo = ts /\ k.fw = j.fw
             /\ k.copy = j.copy /\ k.stamp = j.stamp /\ k.label = j.label
BY SMT DEF Jobs

\* The same for the copied sources.
LEMMA JobCopy ==
  ASSUME NEW j \in Jobs, NEW a \in AudioModules
  PROVE  LET k == [j EXCEPT !.copy = a]
         IN  /\ k \in Jobs /\ k.step = j.step /\ k.todo = j.todo /\ k.fw = j.fw
             /\ k.copy = a /\ k.stamp = j.stamp /\ k.label = j.label
BY SMT DEF Jobs

\* The same for their stamp.
LEMMA JobStamp ==
  ASSUME NEW j \in Jobs, NEW a \in AudioModules
  PROVE  LET k == [j EXCEPT !.stamp = a]
         IN  /\ k \in Jobs /\ k.step = j.step /\ k.todo = j.todo /\ k.fw = j.fw
             /\ k.copy = j.copy /\ k.stamp = a /\ k.label = j.label
BY SMT DEF Jobs

\* A verified image is made of what the composed one was made of.
LEMMA ImageVerified ==
  ASSUME NEW i \in DiskImages
  PROVE  LET k == [i EXCEPT !.stage = "verified"]
         IN  k \in DiskImages /\ k.prefix = i.prefix /\ k.rootfs = i.rootfs
BY SMT DEF DiskImages

\* A job that has just started is a job.
LEMMA RunJob ==
  ASSUME NEW s \in Steps, NEW ts \in SUBSET Targets, NEW f \in Origins, NEW l \in AnyLabel
  PROVE  /\ Run(s, ts, f, l) \in Jobs /\ Run(s, ts, f, l).step = s
         /\ Run(s, ts, f, l).todo = ts /\ Run(s, ts, f, l).label = l
         /\ Run(s, ts, f, l).fw = f
BY SMT DEF Run, Jobs, AudioModules

\* No script runs in the idle job.
LEMMA IdleJob == Idle \in Jobs /\ Idle.step = "idle" /\ Idle.todo = {}
BY RunJob, SMT DEF Idle, Steps, Origins, AnyLabel

\* The work directories of a fresh checkout have their types.
LEMMA TypedInit == BuildInit => BuildTyped
BY BuildAssumption, IdleJob, SMT
   DEF BuildInit, BuildTyped, FilesTyped, AudioTyped, CheckoutTyped, ArtifactsTyped, JobTyped,
       Composed, Origins, AudioModules, Records

\* What a rootfs or an audio module is made of is of these types.
LEMMA MadeTyped ==
  ASSUME BuildTyped
  PROVE  /\ \A t \in Targets : Inputs(t) \in AudioModules /\ Inputs(t).kernel = prefixes[t]
         /\ Describe \in AnyLabel
<1> USE BuildAssumption DEF BuildTyped, FilesTyped, CheckoutTyped
<1>1. ASSUME NEW t \in Targets PROVE Inputs(t) \in Stamps /\ Inputs(t).kernel = prefixes[t]
  <2>1. prefixes[t] \in Origins /\ DriverOf[content] \in Drivers
    BY DEF Drivers
  <2> QED
    BY <2>1, SMT DEF Inputs, Stamps
<1>2. Describe \in Labels
  BY SMT DEF Describe, Labels
<1> QED
  BY <1>1, <1>2 DEF AudioModules, AnyLabel

\* Who writes the prepared inputs.
LEMMA FrameFiles ==
  [BuildNext]_buildVars =>
    \/ UNCHANGED <<files, pair>>
    \/ InstallPrefix \/ InstallHarvest \/ InstallSource \/ InstallManifests \/
       UnpackPrefixes \/ UnpackHarvests \/ StartRootfs
BY DEF BuildNext, StartPrepare, UnlinkDerived, StartFetch, CleanTarget, PrepareAudio,
       StampAudio, CompileAudio, VerifyAudio, SealAudioModule, PackRootfs, ComposeTarget,
       VerifyTarget, MakeUpdate, Cut, Edit, Commit, Revert, files, buildVars

\* Who writes the audio module or its record.
LEMMA FrameAudio ==
  [BuildNext]_buildVars =>
    \/ UNCHANGED audio
    \/ VerifyAudio \/ SealAudioModule
BY DEF BuildNext, StartPrepare, InstallPrefix, InstallHarvest, InstallSource, UnlinkDerived,
       StartFetch, InstallManifests, UnpackPrefixes, UnpackHarvests, CleanTarget,
       StartRootfs, PrepareAudio, StampAudio, CompileAudio, PackRootfs, ComposeTarget,
       VerifyTarget, MakeUpdate, Cut, Edit, Commit, Revert, audio, buildVars

\* Who writes a rootfs.
LEMMA FrameRootfs ==
  [BuildNext]_buildVars =>
    \/ UNCHANGED rootfs
    \/ UnlinkDerived \/ CleanTarget \/ PackRootfs
BY DEF BuildNext, StartPrepare, InstallPrefix, InstallHarvest, InstallSource, StartFetch,
       InstallManifests, UnpackPrefixes, UnpackHarvests, StartRootfs, PrepareAudio,
       StampAudio, CompileAudio, VerifyAudio, SealAudioModule, ComposeTarget, VerifyTarget,
       MakeUpdate, Cut, Edit, Commit, Revert, artifacts, buildVars

\* Who writes an image.
LEMMA FrameImages ==
  [BuildNext]_buildVars =>
    \/ UNCHANGED images
    \/ UnlinkDerived \/ CleanTarget \/ ComposeTarget \/ VerifyTarget
BY DEF BuildNext, StartPrepare, InstallPrefix, InstallHarvest, InstallSource, StartFetch,
       InstallManifests, UnpackPrefixes, UnpackHarvests, StartRootfs, PrepareAudio,
       StampAudio, CompileAudio, VerifyAudio, SealAudioModule, PackRootfs, MakeUpdate, Cut,
       Edit, Commit, Revert, artifacts, buildVars

\* Who writes a payload.
LEMMA FramePayloads ==
  [BuildNext]_buildVars =>
    \/ UNCHANGED payloads
    \/ MakeUpdate
BY DEF BuildNext, StartPrepare, InstallPrefix, InstallHarvest, InstallSource, UnlinkDerived,
       StartFetch, InstallManifests, UnpackPrefixes, UnpackHarvests, CleanTarget,
       StartRootfs, PrepareAudio, StampAudio, CompileAudio, VerifyAudio, SealAudioModule,
       PackRootfs, ComposeTarget, VerifyTarget, Cut, Edit, Commit, Revert, artifacts,
       buildVars

\* Who changes the checkout.
LEMMA FrameCheckout ==
  [BuildNext]_buildVars =>
    \/ UNCHANGED checkout
    \/ Edit \/ Commit \/ Revert
BY DEF BuildNext, StartPrepare, InstallPrefix, InstallHarvest, InstallSource, UnlinkDerived,
       StartFetch, InstallManifests, UnpackPrefixes, UnpackHarvests, CleanTarget,
       StartRootfs, PrepareAudio, StampAudio, CompileAudio, VerifyAudio, SealAudioModule,
       PackRootfs, ComposeTarget, VerifyTarget, MakeUpdate, Cut, checkout, buildVars

\* The prepared inputs keep their types.
LEMMA FilesTypedStep == BuildTyped /\ [BuildNext]_buildVars => FilesTyped'
<1> SUFFICES ASSUME BuildTyped, [BuildNext]_buildVars PROVE FilesTyped'
  OBVIOUS
<1> USE DEF BuildTyped, FilesTyped
<1>1. CASE UNCHANGED <<files, pair>>
  BY <1>1 DEF files
<1>2. job.fw \in Origins
  BY SMT DEF JobTyped, Jobs
<1>3. CASE InstallPrefix
  BY <1>2, <1>3, SMT DEF InstallPrefix, files
<1>4. CASE InstallHarvest
  BY <1>2, <1>4, SMT DEF InstallHarvest, files
<1>5. CASE InstallSource
  BY <1>2, <1>5, SMT DEF InstallSource, files
<1>6. CASE InstallManifests
  BY <1>2, <1>6, SMT DEF InstallManifests, files
<1>7. CASE UnpackPrefixes
  BY <1>2, <1>7, SMT DEF UnpackPrefixes, files
<1>8. CASE UnpackHarvests
  BY <1>2, <1>8, SMT DEF UnpackHarvests, files
<1>9. CASE StartRootfs
  BY <1>2, <1>9, SMT DEF StartRootfs, files
<1> QED
  BY FrameFiles, <1>1, <1>3, <1>4, <1>5, <1>6, <1>7, <1>8, <1>9

\* One value of a typed function may be replaced by another one of the type.
LEMMA PutTyped ==
  ASSUME NEW D, NEW S, NEW f \in [D -> S], NEW x, NEW v \in S
  PROVE  [f EXCEPT ![x] = v] \in [D -> S]
OBVIOUS

\* The cached audio modules and their records keep their types.
LEMMA AudioTypedStep == BuildTyped /\ [BuildNext]_buildVars => AudioTyped'
<1> SUFFICES ASSUME BuildTyped, [BuildNext]_buildVars PROVE AudioTyped'
  OBVIOUS
<1> USE DEF BuildTyped, AudioTyped
<1>1. job.copy \in AudioModules /\ job.stamp \in AudioModules
  BY SMT DEF JobTyped, Jobs
<1>2. CASE VerifyAudio
  BY <1>1, <1>2, SMT DEF VerifyAudio
<1>3. CASE SealAudioModule
  <2>1. [stamp |-> job.stamp, sum |-> job.copy] \in Records
    BY <1>1, SMT DEF Records
  <2>2. ko' = ko
    BY <1>3 DEF SealAudioModule
  <2>3. \E t \in job.todo :
          record' = [record EXCEPT ![t] = [stamp |-> job.stamp, sum |-> job.copy]]
    BY <1>3 DEF SealAudioModule
  <2> QED
    BY <2>1, <2>2, <2>3, PutTyped
<1> QED
  BY FrameAudio, <1>2, <1>3 DEF audio

\* The checkout keeps its type.
LEMMA CheckoutTypedStep == BuildTyped /\ [BuildNext]_buildVars => CheckoutTyped'
<1> SUFFICES ASSUME BuildTyped, [BuildNext]_buildVars PROVE CheckoutTyped'
  OBVIOUS
<1> QED
  BY FrameCheckout, SMT DEF BuildTyped, CheckoutTyped, checkout, Edit, Commit, Revert

\* Root file systems and images keep their types.
LEMMA ArtifactsTypedStep == BuildTyped /\ [BuildNext]_buildVars => ArtifactsTyped'
<1> SUFFICES ASSUME BuildTyped, [BuildNext]_buildVars PROVE ArtifactsTyped'
  OBVIOUS
<1> USE DEF BuildTyped, ArtifactsTyped
<1>1. rootfs' \in [Targets -> Roots \union {None}]
  <2>1. CASE UnlinkDerived
    BY <2>1, SMT DEF UnlinkDerived
  <2>3. CASE CleanTarget
    <3>1. PICK t \in job.todo : rootfs' = [rootfs EXCEPT ![t] = None]
      BY <2>3 DEF CleanTarget
    <3>2. rootfs \in [Targets -> Roots \union {None}] /\ None \in Roots \union {None}
      OBVIOUS
    <3> QED
      BY <3>1, <3>2, PutTyped
  <2>2. CASE PackRootfs
    <3>1. ASSUME NEW t \in Targets
          PROVE  [harvest |-> harvests[t], pair |-> pair[t], audio |-> ko[t],
                  label |-> job.label, content |-> content] \in Roots
      <4>1. job.label \in AnyLabel
        BY SMT DEF JobTyped, Jobs
      <4> QED
        BY <4>1, SMT DEF FilesTyped, AudioTyped, CheckoutTyped, Roots
    <3>2. PICK t \in job.todo :
            rootfs' = [rootfs EXCEPT ![t] =
              [harvest |-> harvests[t], pair |-> pair[t], audio |-> ko[t],
               label |-> job.label, content |-> content]]
      BY <2>2 DEF PackRootfs
    <3>3. t \in Targets
      BY SMT DEF JobTyped, Jobs
    <3> QED
      BY <3>1, <3>2, <3>3, SMT
  <2> QED
    BY FrameRootfs, <2>1, <2>2, <2>3
<1>2. images' \in [Targets -> DiskImages \union {None}]
  <2>1. CASE UnlinkDerived \/ CleanTarget
    BY <2>1, SMT DEF UnlinkDerived, CleanTarget
  <2>2. CASE ComposeTarget
    <3>1. ASSUME NEW t \in Targets, rootfs[t] # None
          PROVE  [prefix |-> prefixes[t], rootfs |-> rootfs[t], stage |-> "composed"]
                   \in DiskImages
      BY <3>1, SMT DEF FilesTyped, DiskImages
    <3> QED
      BY <2>2, <3>1, SMT DEF ComposeTarget
  <2>3. CASE VerifyTarget
    <3>1. ASSUME NEW t \in job.todo
          PROVE  t \in Targets /\ [images[t] EXCEPT !.stage = "verified"] \in DiskImages
      <4>1. t \in Targets
        BY SMT DEF JobTyped, Jobs
      <4>2. images[t] \in DiskImages
        BY <2>3, <4>1, SMT DEF VerifyTarget, Composed
      <4> QED
        BY <4>1, <4>2, ImageVerified
    <3> QED
      BY <2>3, <3>1, SMT DEF VerifyTarget
  <2> QED
    BY FrameImages, <2>1, <2>2, <2>3
<1>3. DOMAIN payloads' = Targets
  BY FramePayloads, SMT DEF MakeUpdate
<1> QED
  BY <1>1, <1>2, <1>3

\* What the actions do to the job: the new one is a job, and these are its fields.
JobKept == /\ job' \in Jobs /\ job'.todo = job.todo /\ job'.fw = job.fw
           /\ job'.label = job.label

AudioKept == job'.copy = job.copy /\ job'.stamp = job.stamp

\* From which step to which each action of a script leads, and what it leaves
\* alone.
LEMMA JobMoves ==
  ASSUME BuildTyped
  PROVE  /\ StartPrepare => job' \in Jobs /\ job'.step = "prefix"
         /\ InstallPrefix => JobKept /\ AudioKept /\ job.step = "prefix" /\ job'.step = "harvest"
         /\ InstallHarvest => JobKept /\ AudioKept /\ job.step = "harvest" /\ job'.step = "source"
         /\ InstallSource => JobKept /\ AudioKept /\ job.step = "source" /\ job'.step = "unlink"
         /\ UnpackPrefixes => JobKept /\ AudioKept /\ job.step = "unpack" /\ job'.step = "unpack_harvest"
         /\ UnpackHarvests => JobKept /\ AudioKept /\ job.step = "unpack_harvest" /\ job'.step = "clean"
         /\ CompileAudio => JobKept /\ AudioKept /\ job.step = "compile" /\ job'.step = "verify_audio"
         /\ SealAudioModule => JobKept /\ AudioKept /\ job.step = "seal" /\ job'.step = "pack"
         /\ UnlinkDerived => job' = Idle
         /\ StartFetch => job' \in Jobs /\ job'.step = "manifests" /\ job'.fw = Committed
         /\ InstallManifests =>
              \/ job' = Idle
              \/ /\ job' \in Jobs /\ job'.step = "unpack" /\ job'.fw = job.fw
                 /\ job'.todo \subseteq job.todo
         /\ CleanTarget =>
              \/ job' = Idle
              \/ /\ job' \in Jobs /\ job'.step = "clean" /\ job'.fw = job.fw
                 /\ job'.todo \subseteq job.todo
         /\ StartRootfs =>
              /\ job' \in Jobs /\ job'.step = "audio" /\ job'.label = Describe
              /\ \E t \in Targets : job'.todo = {t}
         /\ PrepareAudio =>
              /\ JobKept /\ job.step = "audio"
              /\ \/ job'.step = "pack"
                 \/ job'.step = "stamp" /\ \E t \in job.todo : job'.copy = Inputs(t)
         /\ StampAudio =>
              /\ JobKept /\ job.step = "stamp" /\ job'.step = "compile" /\ job'.copy = job.copy
              /\ \E t \in job.todo : job'.stamp = Inputs(t)
         /\ VerifyAudio =>
              \/ job' = Idle
              \/ JobKept /\ AudioKept /\ job'.step = "seal"
         /\ PackRootfs => job' = Idle
         /\ ComposeTarget => job' \in Jobs /\ job'.step = "verify_image"
         /\ VerifyTarget => job' = Idle
         /\ MakeUpdate => job' = job
         /\ Cut => job' = Idle
         /\ Edit \/ Commit \/ Revert => job' = job
<1> USE BuildAssumption DEF BuildTyped, JobTyped
<1>1. /\ job \in Jobs /\ job.todo \subseteq Targets
      /\ Idle \in Jobs /\ {"prefix", "harvest", "source", "unlink", "manifests", "unpack",
           "unpack_harvest", "clean", "audio", "stamp", "compile", "verify_audio", "seal",
           "pack", "verify_image"} \subseteq Steps
  BY IdleJob, SMT DEF Jobs, Steps
<1>2. StartPrepare => job' \in Jobs /\ job'.step = "prefix"
  BY <1>1, RunJob, SMT DEF StartPrepare, Origins, AnyLabel
<1>3. InstallPrefix => JobKept /\ AudioKept /\ job.step = "prefix" /\ job'.step = "harvest"
  BY <1>1, JobStep, SMT DEF InstallPrefix, JobKept, AudioKept
<1>4. InstallHarvest => JobKept /\ AudioKept /\ job.step = "harvest" /\ job'.step = "source"
  BY <1>1, JobStep, SMT DEF InstallHarvest, JobKept, AudioKept
<1>5. InstallSource => JobKept /\ AudioKept /\ job.step = "source" /\ job'.step = "unlink"
  BY <1>1, JobStep, SMT DEF InstallSource, JobKept, AudioKept
<1>6. UnpackPrefixes => JobKept /\ AudioKept /\ job.step = "unpack" /\ job'.step = "unpack_harvest"
  BY <1>1, JobStep, SMT DEF UnpackPrefixes, JobKept, AudioKept
<1>7. UnpackHarvests => JobKept /\ AudioKept /\ job.step = "unpack_harvest" /\ job'.step = "clean"
  BY <1>1, JobStep, SMT DEF UnpackHarvests, JobKept, AudioKept
<1>8. CompileAudio => JobKept /\ AudioKept /\ job.step = "compile" /\ job'.step = "verify_audio"
  BY <1>1, JobStep, SMT DEF CompileAudio, JobKept, AudioKept
<1>9. SealAudioModule => JobKept /\ AudioKept /\ job.step = "seal" /\ job'.step = "pack"
  BY <1>1, JobStep, SMT DEF SealAudioModule, JobKept, AudioKept
<1>10. UnlinkDerived \/ PackRootfs \/ VerifyTarget \/ Cut => job' = Idle
  BY DEF UnlinkDerived, PackRootfs, VerifyTarget, Cut
<1>11. StartFetch => job' \in Jobs /\ job'.step = "manifests" /\ job'.fw = Committed
  BY <1>1, RunJob, SMT DEF StartFetch, Origins, AnyLabel
<1>12. InstallManifests =>
        \/ job' = Idle
        \/ /\ job' \in Jobs /\ job'.step = "unpack" /\ job'.fw = job.fw
           /\ job'.todo \subseteq job.todo
  <2>1. SUFFICES ASSUME InstallManifests, job' # Idle
                 PROVE  /\ job' \in Jobs /\ job'.step = "unpack" /\ job'.fw = job.fw
                        /\ job'.todo \subseteq job.todo
    OBVIOUS
  <2>2. PICK ts \in SUBSET job.todo : job' = [job EXCEPT !.step = "unpack", !.todo = ts]
    BY <2>1 DEF InstallManifests
  <2> DEFINE i == [job EXCEPT !.step = "unpack"]
  <2>3. /\ i \in Jobs /\ i.step = "unpack" /\ i.todo = job.todo /\ i.fw = job.fw
        /\ i.copy = job.copy /\ i.stamp = job.stamp /\ i.label = job.label
    BY <1>1, JobStep
  <2>4. job' = [i EXCEPT !.todo = ts]
    BY <2>2
  <2> HIDE DEF i
  <2>5. ts \in SUBSET Targets /\ ts \subseteq job.todo
    BY <1>1
  <2> QED
    BY <2>3, <2>4, <2>5, JobTodo
<1>13. CleanTarget =>
        \/ job' = Idle
        \/ /\ job' \in Jobs /\ job'.step = "clean" /\ job'.fw = job.fw
           /\ job'.todo \subseteq job.todo
  <2>1. SUFFICES ASSUME CleanTarget, job' # Idle
                 PROVE  /\ job' \in Jobs /\ job'.step = "clean" /\ job'.fw = job.fw
                        /\ job'.todo \subseteq job.todo
    OBVIOUS
  <2>2. job.step = "clean" /\ \E t \in job.todo : job' = [job EXCEPT !.todo = @ \ {t}]
    BY <2>1 DEF CleanTarget
  <2> QED
    BY <1>1, <2>2, JobTodo, SMT
<1>14. StartRootfs =>
        /\ job' \in Jobs /\ job'.step = "audio" /\ job'.label = Describe
        /\ \E t \in Targets : job'.todo = {t}
  BY <1>1, MadeTyped, RunJob, SMT DEF StartRootfs, Origins
<1>15. PrepareAudio =>
        /\ JobKept /\ job.step = "audio"
        /\ \/ job'.step = "pack"
           \/ job'.step = "stamp" /\ \E t \in job.todo : job'.copy = Inputs(t)
  <2>1. SUFFICES ASSUME PrepareAudio, NEW t \in job.todo,
                        job' = IF AudioCurrent(t) THEN [job EXCEPT !.step = "pack"]
                               ELSE [job EXCEPT !.step = "stamp", !.copy = Inputs(t)]
                 PROVE  /\ JobKept /\ job.step = "audio"
                        /\ \/ job'.step = "pack"
                           \/ job'.step = "stamp" /\ job'.copy = Inputs(t)
    BY DEF PrepareAudio
  <2>2. Inputs(t) \in AudioModules /\ job.step = "audio"
    BY <1>1, <2>1, MadeTyped DEF PrepareAudio
  <2>3. CASE AudioCurrent(t)
    BY <1>1, <2>1, <2>2, <2>3, JobStep, SMT DEF JobKept
  <2>4. CASE ~AudioCurrent(t)
    <3> DEFINE i == [job EXCEPT !.step = "stamp"]
    <3>1. /\ i \in Jobs /\ i.step = "stamp" /\ i.todo = job.todo /\ i.fw = job.fw
          /\ i.copy = job.copy /\ i.stamp = job.stamp /\ i.label = job.label
      BY <1>1, JobStep
    <3>2. job' = [i EXCEPT !.copy = Inputs(t)]
      BY <2>1, <2>4
    <3> HIDE DEF i
    <3> QED
      BY <2>2, <3>1, <3>2, JobCopy DEF JobKept
  <2> QED
    BY <2>3, <2>4
<1>16. StampAudio =>
        /\ JobKept /\ job.step = "stamp" /\ job'.step = "compile" /\ job'.copy = job.copy
        /\ \E t \in job.todo : job'.stamp = Inputs(t)
  <2>1. SUFFICES ASSUME StampAudio, NEW t \in job.todo,
                        job' = [job EXCEPT !.step = "compile", !.stamp = Inputs(t)]
                 PROVE  /\ JobKept /\ job.step = "stamp" /\ job'.step = "compile"
                        /\ job'.copy = job.copy /\ job'.stamp = Inputs(t)
    BY DEF StampAudio
  <2>2. Inputs(t) \in AudioModules /\ job.step = "stamp"
    BY <1>1, <2>1, MadeTyped DEF StampAudio
  <2> DEFINE i == [job EXCEPT !.step = "compile"]
  <2>3. /\ i \in Jobs /\ i.step = "compile" /\ i.todo = job.todo /\ i.fw = job.fw
        /\ i.copy = job.copy /\ i.stamp = job.stamp /\ i.label = job.label
    BY <1>1, JobStep
  <2>4. job' = [i EXCEPT !.stamp = Inputs(t)]
    BY <2>1
  <2> HIDE DEF i
  <2> QED
    BY <2>2, <2>3, <2>4, JobStamp DEF JobKept
<1>17. VerifyAudio =>
        \/ job' = Idle
        \/ JobKept /\ AudioKept /\ job'.step = "seal"
  <2>1. SUFFICES ASSUME VerifyAudio, job' # Idle
                 PROVE  JobKept /\ AudioKept /\ job'.step = "seal"
    OBVIOUS
  <2>2. job' = [job EXCEPT !.step = "seal"]
    BY <2>1 DEF VerifyAudio
  <2> QED
    BY <1>1, <2>2, JobStep, SMT DEF JobKept, AudioKept
<1>18. ComposeTarget => job' \in Jobs /\ job'.step = "verify_image"
  BY <1>1, RunJob, SMT DEF ComposeTarget, Origins, AnyLabel
<1>19. MakeUpdate \/ Edit \/ Commit \/ Revert => job' = job
  BY DEF MakeUpdate, Edit, Commit, Revert
<1> QED
  BY <1>2, <1>3, <1>4, <1>5, <1>6, <1>7, <1>8, <1>9, <1>10, <1>11, <1>12, <1>13, <1>14,
     <1>15, <1>16, <1>17, <1>18, <1>19

\* The mark of a missing file is not a file.
LEMMA NoneIsNothing == None \notin DiskImages /\ None \notin Roots /\ None \notin Labels
<1>1. DOMAIN None = {"none"}
  BY DEF None
<1>2. \A i \in DiskImages : "prefix" \in DOMAIN i
  BY SMT DEF DiskImages
<1>3. \A r \in Roots : "harvest" \in DOMAIN r
  BY SMT DEF Roots
<1>4. \A l \in Labels : "rev" \in DOMAIN l
  BY SMT DEF Labels
<1>5. "prefix" \notin {"none"} /\ "harvest" \notin {"none"} /\ "rev" \notin {"none"}
  BY SMT
<1> QED
  BY <1>1, <1>2, <1>3, <1>4, <1>5

\* The actions that leave the job and the files alone.
LEMMA JobRests ==
  ASSUME BuildTyped, MakeUpdate \/ Edit \/ Commit \/ Revert \/ UNCHANGED buildVars
  PROVE  UNCHANGED <<files, pair, audio, rootfs, images, job>>
BY DEF MakeUpdate, Edit, Commit, Revert, buildVars, files, audio, artifacts

\* Everything keeps its type.
LEMMA TypedStep == BuildTyped /\ [BuildNext]_buildVars => BuildTyped'
<1> SUFFICES ASSUME BuildTyped, [BuildNext]_buildVars PROVE BuildTyped'
  OBVIOUS
<1>1. JobTyped'
  <2>1. job' \in Jobs \/ job' = Idle \/ job' = job
    BY JobMoves DEF BuildNext, JobKept, buildVars
  <2> QED
    BY <2>1, IdleJob DEF BuildTyped, JobTyped
<1>2. Composed'
  <2>1. CASE ComposeTarget
    <3>1. PICK t \in Targets :
            /\ rootfs[t] # None
            /\ images' = [images EXCEPT ![t] =
                 [prefix |-> prefixes[t], rootfs |-> rootfs[t], stage |-> "composed"]]
            /\ job' = Run("verify_image", {t}, 0, None)
      BY <2>1 DEF ComposeTarget
    <3>2. images'[t] \in DiskImages
      BY <3>1, SMT DEF BuildTyped, ArtifactsTyped, FilesTyped, DiskImages
    <3>3. job'.todo = {t}
      BY <3>1, SMT DEF Run
    <3> QED
      BY <3>2, <3>3, NoneIsNothing DEF Composed
  <2>2. CASE MakeUpdate \/ Edit \/ Commit \/ Revert \/ UNCHANGED buildVars
    BY <2>2, JobRests DEF BuildTyped, Composed
  <2>3. CASE ~(ComposeTarget \/ MakeUpdate \/ Edit \/ Commit \/ Revert \/ UNCHANGED buildVars)
    <3>1. job'.step # "verify_image"
      BY <2>3, JobMoves, IdleJob, SMT DEF BuildNext
    <3> QED
      BY <3>1 DEF Composed
  <2> QED
    BY <2>1, <2>2, <2>3
<1> QED
  BY <1>1, <1>2, FilesTypedStep, AudioTypedStep, CheckoutTypedStep, ArtifactsTypedStep
     DEF BuildTyped

-----------------------------------------------------------------------------
(* What the steps of a script know about the files.  The kernel of an audio *)
(* module is the one whose prefix it was built with; a rootfs was made of   *)
(* the harvest that is installed, unless a script is about to remove it.    *)

FetchSteps == {"unpack", "unpack_harvest", "clean"}

RootfsSteps == {"audio", "stamp", "compile", "verify_audio", "seal", "pack"}

Fetched ==
  /\ job.step \in FetchSteps \union {"manifests"} => job.fw = Committed
  /\ job.step \in FetchSteps => \A t \in job.todo : sources[t] = Committed
  /\ job.step \in {"unpack_harvest", "clean"} => \A t \in job.todo : prefixes[t] = Committed
  /\ job.step = "clean" => \A t \in job.todo : harvests[t] = Committed

OfOneTarget ==
  job.step \in RootfsSteps =>
    /\ \A t, u \in job.todo : t = u
    /\ \A t \in job.todo : prefixes[t] = harvests[t] /\ pair[t] = harvests[t]

KernelCopied ==
  /\ job.step \in {"stamp", "compile", "verify_audio", "seal"} =>
       \A t \in job.todo : job.copy.kernel = harvests[t]
  /\ job.step \in {"compile", "verify_audio", "seal"} =>
       \A t \in job.todo : job.stamp.kernel = harvests[t]
  /\ job.step = "seal" => \A t \in job.todo : ko[t] = job.copy
  /\ job.step = "pack" => \A t \in job.todo : ko[t].kernel = harvests[t]

KernelRecorded ==
  \A t \in Targets : record[t] # None => record[t].sum.kernel = record[t].stamp.kernel

RootfsOfHarvest ==
  \A t \in Targets :
    rootfs[t] # None /\ ~(job.step \in Window /\ t \in job.todo) =>
      /\ rootfs[t].harvest = harvests[t] /\ rootfs[t].pair = harvests[t]
      /\ rootfs[t].audio.kernel = harvests[t]

JobInv == BuildTyped /\ Fetched /\ OfOneTarget /\ KernelCopied /\ KernelRecorded

BuildInv == JobInv /\ RootfsOfHarvest /\ ImagesOfOneFirmware

\* The invariant about firmware holds before the first script.
LEMMA BuildInvInit == BuildInit => BuildInv
<1> SUFFICES ASSUME BuildInit PROVE BuildInv
  OBVIOUS
<1>1. BuildTyped
  BY TypedInit
<1>2. job.step = "idle"
  BY IdleJob DEF BuildInit
<1>3. Fetched /\ OfOneTarget /\ KernelCopied
  BY <1>2, SMT DEF Fetched, FetchSteps, OfOneTarget, RootfsSteps, KernelCopied
<1>4. KernelRecorded /\ RootfsOfHarvest /\ ImagesOfOneFirmware
  BY SMT DEF BuildInit, KernelRecorded, RootfsOfHarvest, ImagesOfOneFirmware
<1> QED
  BY <1>1, <1>3, <1>4 DEF BuildInv, JobInv

\* While a bundle is unpacked, the manifests stay what fetch-prepared.sh installed.
LEMMA FetchedStep == JobInv /\ [BuildNext]_buildVars => Fetched'
<1> SUFFICES ASSUME JobInv, [BuildNext]_buildVars PROVE Fetched'
  OBVIOUS
<1>1. BuildTyped /\ Fetched /\ job.todo \subseteq Targets
  BY SMT DEF JobInv, BuildTyped, JobTyped, Jobs
<1> USE DEF Fetched, FetchSteps
<1>2. CASE StartFetch
  BY <1>1, <1>2, JobMoves, SMT
<1>3. CASE InstallManifests
  <2>1. sources' = [t \in Targets |-> IF t \in job.todo THEN job.fw ELSE sources[t]]
    BY <1>3 DEF InstallManifests
  <2>2. job.step = "manifests"
    BY <1>3 DEF InstallManifests
  <2> QED
    BY <1>1, <1>3, <2>1, <2>2, JobMoves, IdleJob, SMT
<1>4. CASE UnpackPrefixes
  BY <1>1, <1>4, JobMoves, SMT DEF UnpackPrefixes, JobKept
<1>5. CASE UnpackHarvests
  BY <1>1, <1>5, JobMoves, SMT DEF UnpackHarvests, JobKept
<1>6. CASE CleanTarget
  <2>1. UNCHANGED files /\ job.step = "clean"
    BY <1>6 DEF CleanTarget
  <2> QED
    BY <1>1, <1>6, <2>1, JobMoves, IdleJob, SMT DEF files
<1>7. CASE MakeUpdate \/ Edit \/ Commit \/ Revert \/ UNCHANGED buildVars
  BY <1>1, <1>7, JobRests DEF files
<1>8. CASE ~(\/ StartFetch \/ InstallManifests \/ UnpackPrefixes \/ UnpackHarvests \/ CleanTarget
             \/ MakeUpdate \/ Edit \/ Commit \/ Revert \/ UNCHANGED buildVars)
  <2>1. job'.step \notin FetchSteps \union {"manifests"}
    BY <1>1, <1>8, JobMoves, IdleJob, SMT DEF BuildNext
  <2> QED
    BY <2>1, SMT
<1> QED
  BY <1>2, <1>3, <1>4, <1>5, <1>6, <1>7, <1>8

\* build-rootfs.sh and its steps are about one target.
LEMMA OfOneTargetStep == JobInv /\ [BuildNext]_buildVars => OfOneTarget'
<1> SUFFICES ASSUME JobInv, [BuildNext]_buildVars PROVE OfOneTarget'
  OBVIOUS
<1>1. BuildTyped /\ OfOneTarget /\ job.todo \subseteq Targets
  BY SMT DEF JobInv, BuildTyped, JobTyped, Jobs
<1> USE DEF OfOneTarget, RootfsSteps
<1>2. CASE StartRootfs
  <2>1. PICK t \in Targets :
          /\ PreparedVerifies(t) /\ pair' = [pair EXCEPT ![t] = prefixes[t]]
          /\ job' = Run("audio", {t}, 0, Describe)
    BY <1>2 DEF StartRootfs
  <2>2. job'.todo = {t} /\ pair'[t] = prefixes[t] /\ prefixes[t] = harvests[t]
    BY <1>1, <2>1, SMT DEF Run, PreparedVerifies, BuildTyped, FilesTyped
  <2>3. UNCHANGED files
    BY <1>2 DEF StartRootfs
  <2> QED
    BY <2>2, <2>3 DEF files
<1>3. CASE PrepareAudio \/ StampAudio \/ CompileAudio \/ VerifyAudio \/ SealAudioModule
  <2>1. UNCHANGED <<files, pair>>
    BY <1>3 DEF PrepareAudio, StampAudio, CompileAudio, VerifyAudio, SealAudioModule
  <2>2. job.step \in RootfsSteps
    <3>1. \/ job.step = "audio" \/ job.step = "stamp" \/ job.step = "compile"
          \/ job.step = "verify_audio" \/ job.step = "seal"
      BY <1>3 DEF PrepareAudio, StampAudio, CompileAudio, VerifyAudio, SealAudioModule
    <3> QED
      BY <3>1
  <2>3. job' = Idle \/ job'.todo = job.todo
    BY <1>1, <1>3, JobMoves DEF JobKept
  <2> QED
    BY <1>1, <2>1, <2>2, <2>3, IdleJob, SMT DEF files
<1>4. CASE MakeUpdate \/ Edit \/ Commit \/ Revert \/ UNCHANGED buildVars
  BY <1>1, <1>4, JobRests DEF files
<1>5. CASE ~(\/ StartRootfs \/ PrepareAudio \/ StampAudio \/ CompileAudio \/ VerifyAudio
             \/ SealAudioModule \/ MakeUpdate \/ Edit \/ Commit \/ Revert
             \/ UNCHANGED buildVars)
  <2>1. job'.step \notin RootfsSteps
    BY <1>1, <1>5, JobMoves, IdleJob, SMT DEF BuildNext
  <2> QED
    BY <2>1
<1> QED
  BY <1>2, <1>3, <1>4, <1>5

\* The sources that are compiled were copied with the kernel headers of the
\* prefix that is installed.
LEMMA KernelCopiedStep == JobInv /\ [BuildNext]_buildVars => KernelCopied'
<1> SUFFICES ASSUME JobInv, [BuildNext]_buildVars PROVE KernelCopied'
  OBVIOUS
<1>1. BuildTyped /\ OfOneTarget /\ KernelCopied /\ KernelRecorded /\ job.todo \subseteq Targets
  BY SMT DEF JobInv, BuildTyped, JobTyped, Jobs
<1>2. \A t \in job.todo : Inputs(t).kernel = prefixes[t]
  BY <1>1, MadeTyped
<1>3. CASE PrepareAudio
  <2>1. UNCHANGED <<harvests, ko>> /\ job.step = "audio"
    BY <1>3 DEF PrepareAudio, files, audio
  <2>2. job'.todo = job.todo /\ \A t, u \in job.todo : t = u
    BY <1>1, <1>3, <2>1, JobMoves, SMT DEF JobKept, OfOneTarget, RootfsSteps
  <2>3. \A t \in job.todo : prefixes[t] = harvests[t]
    BY <1>1, <2>1, SMT DEF OfOneTarget, RootfsSteps
  <2>4. PICK t \in job.todo :
          job' = IF AudioCurrent(t) THEN [job EXCEPT !.step = "pack"]
                 ELSE [job EXCEPT !.step = "stamp", !.copy = Inputs(t)]
    BY <1>3 DEF PrepareAudio
  <2>5. CASE job'.step = "stamp"
    <3>1. \E u \in job.todo : job'.copy = Inputs(u)
      BY <1>1, <1>3, <2>5, JobMoves, SMT
    <3> QED
      BY <1>2, <2>1, <2>2, <2>3, <2>5, <3>1, SMT DEF KernelCopied
  <2>6. CASE job'.step = "pack"
    <3>1. AudioCurrent(t)
      <4>1. SUFFICES ASSUME ~AudioCurrent(t) PROVE FALSE
        OBVIOUS
      <4>2. job' = [job EXCEPT !.step = "stamp", !.copy = Inputs(t)]
        BY <2>4, <4>1
      <4>3. job'.step = "stamp"
        BY <1>1, <4>2, SMT DEF BuildTyped, JobTyped, Jobs
      <4> QED
        BY <2>6, <4>3
    <3>2. ko[t].kernel = Inputs(t).kernel
      BY <1>1, <2>4, <3>1 DEF AudioCurrent, KernelRecorded
    <3> QED
      BY <1>2, <2>1, <2>2, <2>3, <2>4, <2>6, <3>2, SMT DEF KernelCopied
  <2> QED
    BY <1>1, <1>3, <2>5, <2>6, JobMoves
<1>4. CASE StampAudio
  <2>1. UNCHANGED <<harvests, ko>> /\ job.step = "stamp"
    BY <1>4 DEF StampAudio, files, audio
  <2>2. /\ job'.todo = job.todo /\ job'.copy = job.copy /\ job'.step = "compile"
        /\ \E t \in job.todo : job'.stamp = Inputs(t)
    BY <1>1, <1>4, JobMoves DEF JobKept
  <2>3. /\ \A t, u \in job.todo : t = u
        /\ \A t \in job.todo : prefixes[t] = harvests[t]
    BY <1>1, <2>1, SMT DEF OfOneTarget, RootfsSteps
  <2> QED
    BY <1>1, <1>2, <2>1, <2>2, <2>3, SMT DEF KernelCopied
<1>5. CASE CompileAudio
  <2>1. UNCHANGED <<harvests, ko>>
    BY <1>5 DEF CompileAudio, files, audio
  <2> QED
    BY <1>1, <1>5, <2>1, JobMoves, SMT DEF JobKept, AudioKept, KernelCopied
<1>6. CASE VerifyAudio
  <2>1. UNCHANGED harvests /\ job.step = "verify_audio"
    BY <1>6 DEF VerifyAudio, files
  <2>2. CASE job' = Idle
    BY <2>2, IdleJob, SMT DEF KernelCopied
  <2>3. CASE job' # Idle
    <3>1. job'.todo = job.todo /\ AudioKept /\ job'.step = "seal"
      BY <1>1, <1>6, <2>3, JobMoves DEF JobKept
    <3>2. PICK t \in job.todo : ko' = [ko EXCEPT ![t] = job.copy]
      BY <1>6, <2>3 DEF VerifyAudio
    <3>3. t \in Targets /\ ko'[t] = job.copy /\ \A u \in job.todo : u = t
      BY <1>1, <2>1, <3>2, SMT DEF BuildTyped, AudioTyped, OfOneTarget, RootfsSteps
    <3> QED
      BY <1>1, <2>1, <3>1, <3>3, SMT DEF KernelCopied, AudioKept
  <2> QED
    BY <2>2, <2>3
<1>7. CASE SealAudioModule
  <2>1. UNCHANGED <<harvests, ko>>
    BY <1>7 DEF SealAudioModule, files
  <2> QED
    BY <1>1, <1>7, <2>1, JobMoves, SMT DEF JobKept, AudioKept, KernelCopied
<1>8. CASE MakeUpdate \/ Edit \/ Commit \/ Revert \/ UNCHANGED buildVars
  BY <1>1, <1>8, JobRests DEF files, audio, KernelCopied
<1>9. CASE ~(\/ PrepareAudio \/ StampAudio \/ CompileAudio \/ VerifyAudio \/ SealAudioModule
             \/ MakeUpdate \/ Edit \/ Commit \/ Revert \/ UNCHANGED buildVars)
  <2>1. job'.step \notin {"stamp", "compile", "verify_audio", "seal", "pack"}
    BY <1>1, <1>9, JobMoves, IdleJob, SMT DEF BuildNext
  <2> QED
    BY <2>1, SMT DEF KernelCopied
<1> QED
  BY <1>3, <1>4, <1>5, <1>6, <1>7, <1>8, <1>9

\* A record that passes for current names the kernel of the installed prefix.
LEMMA KernelRecordedStep == JobInv /\ [BuildNext]_buildVars => KernelRecorded'
<1> SUFFICES ASSUME JobInv, [BuildNext]_buildVars PROVE KernelRecorded'
  OBVIOUS
<1>1. BuildTyped /\ KernelCopied /\ KernelRecorded /\ job.todo \subseteq Targets
  BY SMT DEF JobInv, BuildTyped, JobTyped, Jobs
<1>2. CASE SealAudioModule
  <2>1. PICK t \in job.todo :
          record' = [record EXCEPT ![t] = [stamp |-> job.stamp, sum |-> job.copy]]
    BY <1>2 DEF SealAudioModule
  <2>2. job.stamp.kernel = job.copy.kernel
    <3>1. job.step = "seal"
      BY <1>2 DEF SealAudioModule
    <3> QED
      BY <1>1, <2>1, <3>1, SMT DEF KernelCopied
  <2> QED
    BY <1>1, <2>1, <2>2, SMT DEF KernelRecorded, BuildTyped, AudioTyped
<1>3. CASE VerifyAudio
  BY <1>1, <1>3 DEF VerifyAudio, KernelRecorded
<1> QED
  BY <1>1, <1>2, <1>3, FrameAudio DEF audio, KernelRecorded

\* The parts of JobInv together.
LEMMA JobInvStep == JobInv /\ [BuildNext]_buildVars => JobInv'
BY TypedStep, FetchedStep, OfOneTargetStep, KernelCopiedStep, KernelRecordedStep DEF JobInv

\* A root file system that is there was made of the harvest that is there,
\* unless a script ends in the window or the bundle is incomplete.
LEMMA RootfsOfHarvestStep ==
  NoCutInWindow /\ HarvestsComplete /\ BuildInv /\ [BuildNext]_buildVars => RootfsOfHarvest'
<1> SUFFICES ASSUME NoCutInWindow, HarvestsComplete, BuildInv, [BuildNext]_buildVars
             PROVE  RootfsOfHarvest'
  OBVIOUS
<1>1. BuildTyped /\ RootfsOfHarvest /\ job.todo \subseteq Targets
  BY SMT DEF BuildInv, JobInv, BuildTyped, JobTyped, Jobs
<1>2. harvests \in [Targets -> Origins] /\ rootfs \in [Targets -> Roots \union {None}]
  BY <1>1 DEF BuildTyped, FilesTyped, ArtifactsTyped
<1> USE DEF RootfsOfHarvest
<1>3. CASE UnlinkDerived
  <2>1. harvests' = harvests /\ job.step \in Window
    BY <1>3, SMT DEF UnlinkDerived, files, Window
  <2>2. rootfs' = [t \in Targets |-> IF t \in job.todo THEN None ELSE rootfs[t]]
    BY <1>3 DEF UnlinkDerived
  <2> QED
    BY <1>1, <2>1, <2>2, SMT
<1>4. CASE CleanTarget
  <2>1. harvests' = harvests /\ job.step = "clean" /\ job.step \in Window
    BY <1>4, SMT DEF CleanTarget, files, Window
  <2>2. \A t \in job.todo : PreparedVerifies(t) /\ VerifyHarvest(t)
    <3>1. Committed # 0
      BY BuildAssumption
    <3> QED
      BY <1>1, <2>1, <3>1, SMT
      DEF BuildInv, JobInv, Fetched, FetchSteps, PreparedVerifies, VerifyHarvest, HarvestsComplete
  <2>3. PICK t \in job.todo :
          /\ rootfs' = [rootfs EXCEPT ![t] = None]
          /\ job' = IF job.todo # {t} THEN [job EXCEPT !.todo = @ \ {t}] ELSE Idle
    BY <1>4, <2>2 DEF CleanTarget
  <2>4. job'.todo = job.todo \ {t} \/ job.todo = {t}
    BY <1>1, <2>3, JobTodo, SMT DEF BuildTyped, JobTyped
  <2>5. job'.step \in Window \/ job.todo = {t}
    <3>1. job' = Idle => job.todo = {t}
      BY <2>4, IdleJob, <1>1, <2>1, <2>3, SMT DEF BuildTyped, JobTyped, Jobs
    <3> QED
      BY <1>1, <1>4, <2>1, <3>1, JobMoves, SMT
  <2> QED
    BY <1>1, <1>2, <2>1, <2>3, <2>4, <2>5, SMT
<1>5. CASE InstallHarvest \/ UnpackHarvests
  <2>1. job.step \notin Window /\ job'.step \in Window /\ job'.todo = job.todo
    BY <1>1, <1>5, JobMoves, SMT DEF JobKept, Window
  <2>2. /\ harvests' = [t \in Targets |-> IF t \in job.todo THEN job.fw ELSE harvests[t]]
        /\ rootfs' = rootfs
    BY <1>5 DEF InstallHarvest, UnpackHarvests, artifacts
  <2> QED
    BY <1>1, <2>1, <2>2, SMT
<1>6. CASE InstallSource
  <2>1. UNCHANGED <<harvests, rootfs>>
    BY <1>6 DEF InstallSource, artifacts
  <2>2. job.step \in Window /\ job'.step \in Window /\ job'.todo = job.todo
    BY <1>1, <1>6, JobMoves, SMT DEF JobKept, Window
  <2> QED
    BY <1>1, <2>1, <2>2
<1>7. CASE PackRootfs
  <2>1. UNCHANGED harvests /\ job.step = "pack"
    BY <1>7 DEF PackRootfs, files
  <2>2. PICK t \in job.todo :
          rootfs' = [rootfs EXCEPT ![t] =
            [harvest |-> harvests[t], pair |-> pair[t], audio |-> ko[t],
             label |-> job.label, content |-> content]]
    BY <1>7 DEF PackRootfs
  <2>3. pair[t] = harvests[t] /\ ko[t].kernel = harvests[t]
    BY <2>1, SMT DEF BuildInv, JobInv, OfOneTarget, RootfsSteps, KernelCopied
  <2>4. /\ rootfs'[t].harvest = harvests[t] /\ rootfs'[t].pair = harvests[t]
        /\ rootfs'[t].audio.kernel = harvests[t]
    BY <1>1, <1>2, <2>2, <2>3, SMT
  <2>5. \A u \in Targets : u # t => rootfs'[u] = rootfs[u]
    BY <1>2, <2>2, SMT
  <2>6. job.step \notin Window
    BY <2>1, SMT DEF Window
  <2> QED
    BY <1>1, <2>1, <2>4, <2>5, <2>6
<1>8. CASE Cut
  <2>1. UNCHANGED <<harvests, rootfs>> /\ job.step \notin Window
    BY <1>8 DEF Cut, files, artifacts, NoCutInWindow
  <2> QED
    BY <1>1, <2>1
<1>9. CASE MakeUpdate \/ Edit \/ Commit \/ Revert \/ UNCHANGED buildVars
  BY <1>1, <1>9, JobRests DEF files
<1>10. CASE ~(\/ UnlinkDerived \/ CleanTarget \/ InstallHarvest \/ UnpackHarvests \/ InstallSource
              \/ PackRootfs \/ Cut \/ MakeUpdate \/ Edit \/ Commit \/ Revert
              \/ UNCHANGED buildVars)
  <2>1. rootfs' = rootfs
    BY <1>10, FrameRootfs
  <2>2. harvests' = harvests
    BY <1>10, FrameFiles DEF files, InstallPrefix, InstallManifests, UnpackPrefixes, StartRootfs
  <2>3. job.step \notin Window
    <3>1. \/ job = Idle \/ job.step = "prefix" \/ job.step = "manifests" \/ job.step = "unpack"
          \/ job.step = "audio" \/ job.step = "stamp" \/ job.step = "compile"
          \/ job.step = "verify_audio" \/ job.step = "seal" \/ job.step = "verify_image"
      BY <1>10
      DEF BuildNext, StartPrepare, InstallPrefix, StartFetch, InstallManifests, UnpackPrefixes,
          StartRootfs, PrepareAudio, StampAudio, CompileAudio, VerifyAudio, SealAudioModule,
          ComposeTarget, VerifyTarget
    <3> QED
      BY <3>1, IdleJob, SMT DEF Window
  <2> QED
    BY <1>1, <2>1, <2>2, <2>3
<1> QED
  BY <1>3, <1>4, <1>5, <1>6, <1>7, <1>8, <1>9, <1>10

\* An image is made of one firmware when it is put together.
LEMMA ImagesStep == BuildInv /\ [BuildNext]_buildVars => ImagesOfOneFirmware'
<1> SUFFICES ASSUME BuildInv, [BuildNext]_buildVars PROVE ImagesOfOneFirmware'
  OBVIOUS
<1>1. /\ BuildTyped /\ ImagesOfOneFirmware /\ job.todo \subseteq Targets
      /\ images \in [Targets -> DiskImages \union {None}]
  BY SMT DEF BuildInv, JobInv, BuildTyped, ArtifactsTyped, JobTyped, Jobs
<1> USE DEF ImagesOfOneFirmware
<1>2. CASE UnlinkDerived
  BY <1>1, <1>2, SMT DEF UnlinkDerived
<1>3. CASE CleanTarget
  <2>1. \E t \in job.todo : images' = [images EXCEPT ![t] = None]
    BY <1>3 DEF CleanTarget
  <2> QED
    BY <1>1, <2>1, SMT
<1>4. CASE ComposeTarget
  <2>1. PICK t \in Targets :
          /\ rootfs[t] # None /\ PreparedVerifies(t)
          /\ images' = [images EXCEPT ![t] =
               [prefix |-> prefixes[t], rootfs |-> rootfs[t], stage |-> "composed"]]
    BY <1>4 DEF ComposeTarget
  <2>2. job.step \notin Window /\ prefixes[t] = harvests[t]
    BY <1>4, <2>1, IdleJob, SMT DEF ComposeTarget, PreparedVerifies, Window
  <2>3. /\ rootfs[t].harvest = prefixes[t] /\ rootfs[t].pair = prefixes[t]
        /\ rootfs[t].audio.kernel = prefixes[t]
    BY <2>1, <2>2 DEF BuildInv, JobInv, RootfsOfHarvest
  <2>4. images'[t].prefix = prefixes[t] /\ images'[t].rootfs = rootfs[t]
    BY <1>1, <2>1, SMT
  <2>5. \A u \in Targets : u # t => images'[u] = images[u]
    BY <1>1, <2>1, SMT
  <2> QED
    BY <1>1, <2>3, <2>4, <2>5
<1>5. CASE VerifyTarget
  <2>1. PICK t \in job.todo :
          images' = images \/ images' = [images EXCEPT ![t].stage = "verified"]
    BY <1>5 DEF VerifyTarget
  <2>2. t \in Targets /\ images[t] \in DiskImages
    BY <1>1, <1>5, <2>1 DEF VerifyTarget, BuildTyped, Composed
  <2>3. CASE images' = [images EXCEPT ![t].stage = "verified"]
    <3>1. /\ images'[t] = [images[t] EXCEPT !.stage = "verified"]
          /\ \A u \in Targets : u # t => images'[u] = images[u]
      BY <1>1, <2>2, <2>3, SMT
    <3>2. images'[t].prefix = images[t].prefix /\ images'[t].rootfs = images[t].rootfs
      BY <2>2, <3>1, ImageVerified
    <3>3. images[t] # None
      BY <2>2, NoneIsNothing
    <3>4. ASSUME NEW u \in Targets, images'[u] # None
          PROVE  images[u] # None /\ images'[u].prefix = images[u].prefix
                 /\ images'[u].rootfs = images[u].rootfs
      BY <3>1, <3>2, <3>3, <3>4
    <3> QED
      BY <1>1, <3>4
  <2> QED
    BY <1>1, <2>1, <2>3
<1> QED
  BY <1>1, <1>2, <1>3, <1>4, <1>5, FrameImages

\* No image mixes firmware, as long as no script is ended between the
\* installation of a harvest and the removal of what the old one is in.
THEOREM ImagesAreOfOneFirmware ==
  NoCutInWindow /\ HarvestsComplete => (BuildSpec => []ImagesOfOneFirmware)
<1> SUFFICES ASSUME NoCutInWindow, HarvestsComplete PROVE BuildSpec => []ImagesOfOneFirmware
  OBVIOUS
<1>1. BuildInv /\ [BuildNext]_buildVars => BuildInv'
  BY JobInvStep, RootfsOfHarvestStep, ImagesStep DEF BuildInv
<1>2. BuildInv => ImagesOfOneFirmware
  BY DEF BuildInv, JobInv
<1> QED
  BY <1>1, <1>2, BuildInvInit, PTL DEF BuildSpec

-----------------------------------------------------------------------------
(* The audio module: its stamp is that of the copied sources, because the   *)
(* checkout is not edited between the two; an edit after the stamp is found *)
(* by verify.                                                               *)

StampOfCopy ==
  /\ job.step = "stamp" => \A t \in job.todo : job.copy = Inputs(t)
  /\ job.step \in {"compile", "verify_audio", "seal"} => job.stamp = job.copy

RecordOfStamp == \A t \in Targets : record[t] # None => record[t].sum = record[t].stamp

FreshInv == JobInv /\ StampOfCopy /\ RecordOfStamp

\* The invariant about the audio cache holds before the first script.
LEMMA FreshInvInit == BuildInit => FreshInv
<1> SUFFICES ASSUME BuildInit PROVE FreshInv
  OBVIOUS
<1>1. JobInv /\ job.step = "idle"
  BY BuildInvInit, IdleJob DEF BuildInv, BuildInit
<1> QED
  BY <1>1, SMT DEF FreshInv, StampOfCopy, RecordOfStamp, BuildInit

\* Without an edit between the two, the stamp is that of the copied sources.
LEMMA StampOfCopyStep ==
  NoEditBeforeStamp /\ FreshInv /\ [BuildNext]_buildVars => StampOfCopy'
<1> SUFFICES ASSUME NoEditBeforeStamp, FreshInv, [BuildNext]_buildVars PROVE StampOfCopy'
  OBVIOUS
<1>1. BuildTyped /\ OfOneTarget /\ StampOfCopy
  BY DEF FreshInv, JobInv
<1> USE DEF StampOfCopy
<1>2. CASE PrepareAudio
  <2>1. job.step = "audio" /\ UNCHANGED <<prefixes, content>>
    BY <1>2 DEF PrepareAudio, files, checkout
  <2>2. job'.todo = job.todo /\ \A t, u \in job.todo : t = u
    BY <1>1, <1>2, <2>1, JobMoves, SMT DEF JobKept, OfOneTarget, RootfsSteps
  <2>3. CASE job'.step = "stamp"
    <3>1. \E t \in job.todo : job'.copy = Inputs(t)
      BY <1>1, <1>2, <2>3, JobMoves, SMT
    <3>2. \A t \in job.todo : job'.copy = Inputs(t)'
      BY <2>1, <2>2, <3>1 DEF Inputs
    <3> QED
      BY <2>2, <2>3, <3>2, SMT
  <2>4. CASE job'.step = "pack"
    BY <2>4, SMT
  <2> QED
    BY <1>1, <1>2, <2>3, <2>4, JobMoves
<1>3. CASE StampAudio
  <2>1. /\ job.step = "stamp" /\ job'.step = "compile" /\ job'.copy = job.copy
        /\ \E t \in job.todo : job'.stamp = Inputs(t)
    BY <1>1, <1>3, JobMoves
  <2> QED
    BY <1>1, <2>1, SMT
<1>4. CASE CompileAudio \/ VerifyAudio
  <2>1. job' = Idle \/ job'.step = "verify_audio" \/ job'.step = "seal"
    BY <1>1, <1>4, JobMoves
  <2>2. job' = Idle \/ AudioKept
    BY <1>1, <1>4, JobMoves
  <2>3. job.step = "compile" \/ job.step = "verify_audio"
    BY <1>4 DEF CompileAudio, VerifyAudio
  <2> QED
    BY <1>1, <2>1, <2>2, <2>3, IdleJob, SMT DEF AudioKept
<1>5. CASE MakeUpdate \/ Edit \/ Commit \/ Revert \/ UNCHANGED buildVars
  <2>1. UNCHANGED <<files, job>>
    BY <1>1, <1>5, JobRests
  <2>2. job.step = "stamp" => content' = content
    BY <1>5, IdleJob
    DEF MakeUpdate, Edit, Commit, Revert, buildVars, checkout, NoEditBeforeStamp
  <2> QED
    BY <1>1, <2>1, <2>2 DEF files, Inputs
<1>6. CASE ~(\/ PrepareAudio \/ StampAudio \/ CompileAudio \/ VerifyAudio
             \/ MakeUpdate \/ Edit \/ Commit \/ Revert \/ UNCHANGED buildVars)
  <2>1. job'.step \notin {"stamp", "compile", "verify_audio", "seal"}
    BY <1>1, <1>6, JobMoves, IdleJob, SMT DEF BuildNext
  <2> QED
    BY <2>1, SMT
<1> QED
  BY <1>2, <1>3, <1>4, <1>5, <1>6

\* A record is that of a module made of the sources it names.
LEMMA RecordOfStampStep == FreshInv /\ [BuildNext]_buildVars => RecordOfStamp'
<1> SUFFICES ASSUME FreshInv, [BuildNext]_buildVars PROVE RecordOfStamp'
  OBVIOUS
<1>1. BuildTyped /\ StampOfCopy /\ RecordOfStamp
  BY DEF FreshInv, JobInv
<1>2. CASE SealAudioModule
  <2>1. PICK t \in job.todo :
          record' = [record EXCEPT ![t] = [stamp |-> job.stamp, sum |-> job.copy]]
    BY <1>2 DEF SealAudioModule
  <2>2. job.stamp = job.copy
    <3>1. job.step = "seal"
      BY <1>2 DEF SealAudioModule
    <3> QED
      BY <1>1, <3>1, SMT DEF StampOfCopy
  <2> QED
    BY <1>1, <2>1, <2>2, SMT DEF RecordOfStamp, BuildTyped, AudioTyped
<1>3. CASE VerifyAudio
  BY <1>1, <1>3 DEF VerifyAudio, RecordOfStamp
<1> QED
  BY <1>1, <1>2, <1>3, FrameAudio DEF audio, RecordOfStamp

\* The cached audio module that the next build takes is the one its record
\* describes, unless the driver is edited while it is copied.
THEOREM SealedAudioModulesAreFresh ==
  NoEditBeforeStamp => (BuildSpec => []SealedAudioIsFresh)
<1> SUFFICES ASSUME NoEditBeforeStamp PROVE BuildSpec => []SealedAudioIsFresh
  OBVIOUS
<1>1. FreshInv /\ [BuildNext]_buildVars => FreshInv'
  BY JobInvStep, StampOfCopyStep, RecordOfStampStep DEF FreshInv
<1>2. FreshInv => SealedAudioIsFresh
  BY DEF FreshInv, RecordOfStamp, SealedAudioIsFresh
<1> QED
  BY <1>1, <1>2, FreshInvInit, PTL DEF BuildSpec

-----------------------------------------------------------------------------
(* The payload: the text of its manifest is found in the file system also   *)
(* when only the beginning of the label is there, but without reverts no    *)
(* clean checkout of a commit follows a dirty one of it.                    *)

Known(label, rev, tree) ==
  /\ label \in Labels /\ label.rev \leq rev
  /\ label.rev = rev /\ label.tree = "dirty" => tree # rev

LabelsKnown ==
  /\ content >= head
  /\ job.step \in RootfsSteps => Known(job.label, head, content)
  /\ \A t \in Targets : rootfs[t] # None => Known(rootfs[t].label, head, content)
  /\ \A t \in Targets : images[t] # None => Known(images[t].rootfs.label, head, content)

LabelInv == BuildTyped /\ LabelsKnown /\ PayloadClaimsItsBuild

\* The invariant about labels holds before the first script.
LEMMA LabelInvInit == BuildInit => LabelInv
<1> SUFFICES ASSUME BuildInit PROVE LabelInv
  OBVIOUS
<1>1. BuildTyped /\ job.step = "idle"
  BY TypedInit, IdleJob DEF BuildInit
<1> QED
  BY <1>1, SMT DEF LabelInv, LabelsKnown, RootfsSteps, PayloadClaimsItsBuild, BuildInit

\* What a label says of the past stays true while edits are not taken back.
LEMMA KnownStays ==
  ASSUME ~Revert, BuildTyped, content >= head, [BuildNext]_buildVars
  PROVE  /\ content' >= head'
         /\ \A label : Known(label, head, content) => Known(label, head', content')
<1>0. Contents \subseteq Nat
  BY BuildAssumption
<1>1. head \in Nat /\ content \in Nat /\ head' \in Nat /\ content' \in Nat
  BY <1>0, CheckoutTypedStep DEF BuildTyped, CheckoutTyped
<1>2. \A label \in Labels : label.rev \in Nat
  <2>1. \A label \in Labels : label.rev \in Contents
    BY SMT DEF Labels
  <2> QED
    BY <1>0, <2>1
<1>3. \/ head' = head /\ content' = content
      \/ head' = head /\ content' > content /\ content' > head
      \/ content # head /\ head' = content /\ content' = content
  BY FrameCheckout DEF checkout, Edit, Commit
<1>4. content' >= head'
  BY <1>1, <1>3, SMT
<1>5. ASSUME NEW label, Known(label, head, content)
      PROVE  Known(label, head', content')
  <2>1. /\ label \in Labels /\ label.rev \in Nat /\ label.rev \leq head
        /\ label.rev = head /\ label.tree = "dirty" => content # head
    BY <1>2, <1>5 DEF Known
  <2>2. label.rev \leq head'
    BY <1>1, <1>3, <2>1, SMT
  <2>3. label.rev = head' /\ label.tree = "dirty" => content' # head'
    BY <1>1, <1>3, <2>1, SMT
  <2> QED
    BY <2>1, <2>2, <2>3 DEF Known
<1> QED
  BY <1>4, <1>5

\* git describe names a state the checkout has been in.
LEMMA DescribeKnown ==
  ASSUME BuildTyped
  PROVE  Known(Describe, head, content)
<1>1. head \in Nat
  BY BuildAssumption, SMT DEF BuildTyped, CheckoutTyped
<1>2. Describe \in Labels
  BY SMT DEF BuildTyped, CheckoutTyped, Describe, Labels
<1> QED
  BY <1>1, <1>2, SMT DEF Known, Describe

\* An edit nothing was built from may be taken back.
LEMMA UnlabelledRevert ==
  ASSUME ~Reverts, BuildTyped, LabelsKnown, Revert
  PROVE  LabelsKnown'
<1>1. /\ Unlabelled /\ content # head /\ content' = head /\ head' = head
      /\ UNCHANGED <<rootfs, images, job>>
  BY DEF Revert, artifacts
<1>2. head \in Nat
  BY BuildAssumption, SMT DEF BuildTyped, CheckoutTyped
<1>3. Describe = [rev |-> head, tree |-> "dirty"]
  BY <1>1 DEF Describe
<1>4. ASSUME NEW label, Known(label, head, content), label # Describe
      PROVE  Known(label, head', content')
  <2>1. label \in Labels /\ label.rev \leq head
    BY <1>4 DEF Known
  <2>2. ~(label.rev = head /\ label.tree = "dirty")
    BY <1>3, <1>4, <2>1, SMT DEF Labels
  <2> QED
    BY <1>1, <2>1, <2>2 DEF Known
<1>5. content' >= head'
  BY <1>1, <1>2, SMT
<1>6. job'.step \in RootfsSteps => Known(job'.label, head', content')
  BY <1>1, <1>4 DEF LabelsKnown, Unlabelled
<1>7. \A t \in Targets : rootfs'[t] # None => Known(rootfs'[t].label, head', content')
  BY <1>1, <1>4 DEF LabelsKnown, Unlabelled
<1>8. \A t \in Targets : images'[t] # None => Known(images'[t].rootfs.label, head', content')
  BY <1>1, <1>4 DEF LabelsKnown, Unlabelled
<1> QED
  BY <1>5, <1>6, <1>7, <1>8 DEF LabelsKnown

\* Labels of root file systems stay known, whatever happens but a revert.
LEMMA LabelsKnownStep ==
  ~Revert /\ LabelInv /\ [BuildNext]_buildVars => LabelsKnown'
<1> SUFFICES ASSUME ~Revert, LabelInv, [BuildNext]_buildVars PROVE LabelsKnown'
  OBVIOUS
<1>1. BuildTyped /\ LabelsKnown /\ job.todo \subseteq Targets
  BY SMT DEF LabelInv, BuildTyped, JobTyped, Jobs
<1>2. content' >= head' /\ \A label : Known(label, head, content) => Known(label, head', content')
  BY <1>1, KnownStays DEF LabelsKnown
<1>3. ASSUME job'.step \in RootfsSteps PROVE Known(job'.label, head', content')
  <2>1. CASE StartRootfs
    <3>1. job'.label = Describe /\ UNCHANGED checkout
      BY <1>1, <2>1, JobMoves DEF StartRootfs
    <3> QED
      BY <1>1, <3>1, DescribeKnown DEF checkout, Known
  <2>2. CASE PrepareAudio \/ StampAudio \/ CompileAudio \/ VerifyAudio \/ SealAudioModule
    <3>1. job.step \in RootfsSteps
      <4>1. \/ job.step = "audio" \/ job.step = "stamp" \/ job.step = "compile"
            \/ job.step = "verify_audio" \/ job.step = "seal"
        BY <2>2 DEF PrepareAudio, StampAudio, CompileAudio, VerifyAudio, SealAudioModule
      <4> QED
        BY <4>1 DEF RootfsSteps
    <3>2. job' # Idle
      BY <1>3, IdleJob, SMT DEF RootfsSteps
    <3>3. job'.label = job.label
      BY <1>1, <2>2, <3>2, JobMoves DEF JobKept
    <3>4. UNCHANGED checkout
      BY <2>2 DEF PrepareAudio, StampAudio, CompileAudio, VerifyAudio, SealAudioModule
    <3> QED
      BY <1>1, <3>1, <3>3, <3>4 DEF LabelsKnown, Known, checkout
  <2>3. CASE MakeUpdate \/ Edit \/ Commit \/ UNCHANGED buildVars
    <3>1. job' = job
      BY <1>1, <2>3, JobRests
    <3>2. Known(job.label, head, content) => Known(job'.label, head', content')
      BY <1>2, <3>1 DEF Known
    <3> QED
      BY <1>1, <1>3, <3>1, <3>2 DEF LabelsKnown, Known
  <2>4. CASE ~(\/ StartRootfs \/ PrepareAudio \/ StampAudio \/ CompileAudio \/ VerifyAudio
               \/ SealAudioModule \/ MakeUpdate \/ Edit \/ Commit
               \/ UNCHANGED buildVars)
    <3>1. job'.step \notin RootfsSteps
      BY <1>1, <2>4, JobMoves, IdleJob, SMT DEF BuildNext, RootfsSteps
    <3> QED
      BY <1>3, <3>1
  <2> QED
    BY <2>1, <2>2, <2>3, <2>4
<1>4. \A t \in Targets : rootfs'[t] # None => Known(rootfs'[t].label, head', content')
  <2>1. rootfs \in [Targets -> Roots \union {None}]
    BY <1>1 DEF BuildTyped, ArtifactsTyped
  <2>2. CASE UnlinkDerived
    BY <1>1, <1>2, <2>2, SMT DEF UnlinkDerived, LabelsKnown
  <2>3. CASE CleanTarget
    <3>1. PICK u \in job.todo : rootfs' = [rootfs EXCEPT ![u] = None]
      BY <2>3 DEF CleanTarget
    <3>2. \A t \in Targets : rootfs'[t] = None \/ rootfs'[t] = rootfs[t]
      BY <2>1, <3>1, SMT
    <3> QED
      BY <1>1, <1>2, <3>2 DEF LabelsKnown
  <2>4. CASE PackRootfs
    <3>1. PICK u \in job.todo :
            rootfs' = [rootfs EXCEPT ![u] =
              [harvest |-> harvests[u], pair |-> pair[u], audio |-> ko[u],
               label |-> job.label, content |-> content]]
      BY <2>4 DEF PackRootfs
    <3>2. rootfs'[u].label = job.label /\ \A t \in Targets : t # u => rootfs'[t] = rootfs[t]
      BY <1>1, <2>1, <3>1, SMT
    <3>3. Known(job.label, head, content)
      BY <1>1, <2>4, SMT DEF PackRootfs, LabelsKnown, RootfsSteps
    <3> QED
      BY <1>1, <1>2, <3>2, <3>3 DEF LabelsKnown
  <2> QED
    BY <1>1, <1>2, <2>2, <2>3, <2>4, FrameRootfs DEF LabelsKnown
<1>5. \A t \in Targets : images'[t] # None => Known(images'[t].rootfs.label, head', content')
  <2>1. images \in [Targets -> DiskImages \union {None}]
    BY <1>1 DEF BuildTyped, ArtifactsTyped
  <2>2. CASE UnlinkDerived
    BY <1>1, <1>2, <2>2, SMT DEF UnlinkDerived, LabelsKnown
  <2>3. CASE CleanTarget
    <3>1. PICK u \in job.todo : images' = [images EXCEPT ![u] = None]
      BY <2>3 DEF CleanTarget
    <3>2. \A t \in Targets : images'[t] = None \/ images'[t] = images[t]
      BY <2>1, <3>1, SMT
    <3> QED
      BY <1>1, <1>2, <3>2 DEF LabelsKnown
  <2>4. CASE ComposeTarget
    <3>1. PICK u \in Targets :
            /\ rootfs[u] # None
            /\ images' = [images EXCEPT ![u] =
                 [prefix |-> prefixes[u], rootfs |-> rootfs[u], stage |-> "composed"]]
      BY <2>4 DEF ComposeTarget
    <3>2. images'[u].rootfs = rootfs[u] /\ \A t \in Targets : t # u => images'[t] = images[t]
      BY <2>1, <3>1, SMT
    <3>3. Known(rootfs[u].label, head, content)
      BY <1>1, <3>1 DEF LabelsKnown
    <3> QED
      BY <1>1, <1>2, <3>2, <3>3 DEF LabelsKnown
  <2>5. CASE VerifyTarget
    <3>1. PICK u \in job.todo :
            images' = images \/ images' = [images EXCEPT ![u].stage = "verified"]
      BY <2>5 DEF VerifyTarget
    <3>2. u \in Targets /\ images[u] \in DiskImages
      BY <1>1, <2>1, <2>5, <3>1 DEF VerifyTarget, BuildTyped, Composed
    <3>3. CASE images' = [images EXCEPT ![u].stage = "verified"]
      <4>1. /\ images'[u] = [images[u] EXCEPT !.stage = "verified"]
            /\ \A t \in Targets : t # u => images'[t] = images[t]
        BY <2>1, <3>2, <3>3, SMT
      <4>2. images'[u].rootfs = images[u].rootfs /\ images[u] # None
        BY <3>2, <4>1, ImageVerified, NoneIsNothing
      <4>3. \A t \in Targets : images'[t] # None =>
              images[t] # None /\ images'[t].rootfs = images[t].rootfs
        BY <4>1, <4>2
      <4> QED
        BY <1>1, <1>2, <4>3 DEF LabelsKnown
    <3> QED
      BY <1>1, <1>2, <3>1, <3>3 DEF LabelsKnown
  <2> QED
    BY <1>1, <1>2, <2>2, <2>3, <2>4, <2>5, FrameImages DEF LabelsKnown
<1> QED
  BY <1>2, <1>3, <1>4, <1>5 DEF LabelsKnown

\* mkupdate.py makes a payload only of a root file system with the same label.
LEMMA ClaimsStep == LabelInv /\ [BuildNext]_buildVars => PayloadClaimsItsBuild'
<1> SUFFICES ASSUME LabelInv, [BuildNext]_buildVars PROVE PayloadClaimsItsBuild'
  OBVIOUS
<1>1. BuildTyped /\ LabelsKnown /\ PayloadClaimsItsBuild
  BY DEF LabelInv
<1>2. CASE MakeUpdate
  <2>1. PICK t \in Targets :
          /\ images[t] # None /\ Carries(images[t].rootfs.label, Describe)
          /\ payloads' = [payloads EXCEPT ![t] = [claim |-> Describe, from |-> images[t]]]
    BY <1>2 DEF MakeUpdate
  <2> DEFINE label == images[t].rootfs.label
  <2>2. Known(label, head, content) /\ Known(Describe, head, content)
    BY <1>1, <2>1, DescribeKnown DEF LabelsKnown
  <2>3. Describe.rev = head /\ (Describe.tree = "dirty" <=> content # head)
    BY SMT DEF Describe
  <2>4. Describe.rev = label.rev /\ Describe.tree = label.tree
    BY <2>1, <2>2, <2>3, SMT DEF Carries, Known, Labels
  <2>5. Describe = label
    BY <2>2, <2>4, SMT DEF Known, Labels
  <2>6. payloads'[t].claim = payloads'[t].from.rootfs.label
    BY <1>1, <2>1, <2>5, SMT DEF BuildTyped, ArtifactsTyped
  <2>7. \A u \in Targets : u # t => payloads'[u] = payloads[u]
    BY <1>1, <2>1, SMT DEF BuildTyped, ArtifactsTyped
  <2> QED
    BY <1>1, <2>6, <2>7 DEF PayloadClaimsItsBuild
<1> QED
  BY <1>1, <1>2, FramePayloads DEF PayloadClaimsItsBuild

\* The version a payload claims is the one its file system carries, as long
\* as no edit that something was built from is taken back: mkupdate.py looks for the text only.
THEOREM PayloadsClaimTheirBuild ==
  ~Reverts => (BuildSpec => []PayloadClaimsItsBuild)
<1> SUFFICES ASSUME ~Reverts PROVE BuildSpec => []PayloadClaimsItsBuild
  OBVIOUS
<1>1. LabelInv /\ [BuildNext]_buildVars => LabelInv'
  BY TypedStep, LabelsKnownStep, UnlabelledRevert, ClaimsStep DEF LabelInv
<1>2. LabelInv => PayloadClaimsItsBuild
  BY DEF LabelInv
<1> QED
  BY <1>1, <1>2, LabelInvInit, PTL DEF BuildSpec

=============================================================================
