--------------------------------- MODULE Build ---------------------------------
(***************************************************************************)
(* The work directories of the targets and the scripts that fill them:     *)
(* prepare-stock.sh and fetch-prepared.sh install the prepared inputs,     *)
(* build-rootfs.sh (with build-audio-module.sh), build-image.sh and        *)
(* build-update.sh make the artifacts.  One script runs at a time and may  *)
(* end at any of CutPoints, killed or by an error of its own; somebody     *)
(* edits the checkout, also while a script runs.  A file is named by the   *)
(* firmware it comes from, 0 when it is not there.                         *)
(***************************************************************************)
EXTENDS Integers

CONSTANTS
  Targets, Firmwares,
  Committed,     \* the firmware manifest/prepared was made from
  Outdated,      \* targets whose published harvest lacks a path of harvest.list
  Contents,      \* states of the checkout ...
  DriverOf,      \* ... and the audio driver sources in each of them
  Reverts,       \* an edit may be taken back after something was built from it
  CutPoints, EditPoints   \* steps at which a script ends, or an edit happens

Steps ==
  {"idle", "prefix", "harvest", "source", "unlink", "manifests", "unpack", "unpack_harvest",
   "clean", "audio", "stamp", "compile", "verify_audio", "seal", "pack", "verify_image"}

ASSUME BuildAssumption ==
  /\ Firmwares \subseteq Nat \ {0} /\ Committed \in Firmwares
  /\ Contents \subseteq Nat /\ 1 \in Contents
  /\ CutPoints \subseteq Steps \ {"idle"} /\ EditPoints \subseteq Steps
  /\ Reverts \in BOOLEAN

VARIABLES
  sources, prefixes, harvests,   \* source.json, boot-prefix.img, stock-harvest.tar
  pair,                      \* boot-gzip/
  ko, record,                \* h700_speaker_amp.ko and .artifact.json
  rootfs, images, payloads,
  head, content,             \* the commit and what is in the checkout
  job                        \* the script that runs

files == <<sources, prefixes, harvests>>
artifacts == <<rootfs, images, payloads>>
audio == <<ko, record>>
checkout == <<head, content>>

buildVars == <<sources, prefixes, harvests, pair, ko, record, rootfs, images, payloads,
               head, content, job>>

None == [none |-> 0]

\* todo is the targets a script still has to do; copy, stamp and label are
\* what it has read: sources and kernel, their stamp, and git describe.
Run(step, ts, firmware, label) ==
  [step |-> step, todo |-> ts, fw |-> firmware, copy |-> None, stamp |-> None, label |-> label]

Idle == Run("idle", {}, 0, None)

BuildInit ==
  /\ sources = [t \in Targets |-> 0] /\ prefixes = sources /\ harvests = sources /\ pair = sources
  /\ ko = [t \in Targets |-> None] /\ record = ko
  /\ rootfs = ko /\ images = ko /\ payloads = ko
  /\ head = 1 /\ content = 1 /\ job = Idle

\* git describe --always --dirty
Describe == [rev |-> head, tree |-> IF content = head THEN "clean" ELSE "dirty"]

PreparedVerifies(t) ==
  sources[t] # 0 /\ prefixes[t] = sources[t] /\ harvests[t] = sources[t]

VerifyHarvest(t) == ~(t \in Outdated /\ harvests[t] = Committed)

-----------------------------------------------------------------------------
(* prepare-stock.sh: what main() installs, in its order *)

StartPrepare ==
  /\ job = Idle
  /\ \E t \in Targets, f \in Firmwares :
       job' = Run("prefix", {t}, f, None)
  /\ UNCHANGED <<files, pair, audio, artifacts, checkout>>

InstallPrefix ==
  /\ job.step = "prefix"
  /\ job' = [job EXCEPT !.step = "harvest"]
  /\ prefixes' = [t \in Targets |-> IF t \in job.todo THEN job.fw ELSE prefixes[t]]
  /\ UNCHANGED <<sources, harvests, pair, audio, artifacts, checkout>>

InstallHarvest ==
  /\ job.step = "harvest"
  /\ job' = [job EXCEPT !.step = "source"]
  /\ harvests' = [t \in Targets |-> IF t \in job.todo THEN job.fw ELSE harvests[t]]
  /\ UNCHANGED <<sources, prefixes, pair, audio, artifacts, checkout>>

InstallSource ==
  /\ job.step = "source"
  /\ job' = [job EXCEPT !.step = "unlink"]
  /\ sources' = [t \in Targets |-> IF t \in job.todo THEN job.fw ELSE sources[t]]
  /\ UNCHANGED <<prefixes, harvests, pair, audio, artifacts, checkout>>

\* A slip of UnlinkDerived: the rootfs stays.
SlipUnlinkDerived ==
  /\ job.step = "unlink"
  /\ job' = Idle
  /\ images' = [t \in Targets |-> IF t \in job.todo THEN None ELSE images[t]]
  /\ UNCHANGED <<files, pair, audio, rootfs, payloads, checkout>>

UnlinkDerived ==
  /\ job.step = "unlink"
  /\ job' = Idle
  /\ rootfs' = [t \in Targets |-> IF t \in job.todo THEN None ELSE rootfs[t]]
  /\ images' = [t \in Targets |-> IF t \in job.todo THEN None ELSE images[t]]
  /\ UNCHANGED <<files, pair, audio, payloads, checkout>>

-----------------------------------------------------------------------------
(* fetch-prepared.sh: a local preparation of other firmware is replaced    *)
(* with --force only; what verifies already is left alone.                 *)

StartFetch ==
  /\ job = Idle
  /\ \E ts \in (SUBSET Targets) \ {{}}, force \in BOOLEAN :
       /\ force \/ \A t \in ts : sources[t] \in {0, Committed}
       /\ job' = Run("manifests", ts, Committed, None)
  /\ UNCHANGED <<files, pair, audio, artifacts, checkout>>

InstallManifests ==
  /\ job.step = "manifests"
  /\ sources' = [t \in Targets |-> IF t \in job.todo THEN job.fw ELSE sources[t]]
  /\ LET restore == {t \in job.todo : ~(prefixes[t] = job.fw /\ harvests[t] = job.fw
                                          /\ VerifyHarvest(t))}
     IN  job' = IF restore = {} THEN Idle ELSE [job EXCEPT !.step = "unpack", !.todo = restore]
  /\ UNCHANGED <<prefixes, harvests, pair, audio, artifacts, checkout>>

\* The bundle is the one in git; its members are all prefixes, all harvests.
UnpackPrefixes ==
  /\ job.step = "unpack"
  /\ job' = [job EXCEPT !.step = "unpack_harvest"]
  /\ prefixes' = [t \in Targets |-> IF t \in job.todo THEN job.fw ELSE prefixes[t]]
  /\ UNCHANGED <<sources, harvests, pair, audio, artifacts, checkout>>

UnpackHarvests ==
  /\ job.step = "unpack_harvest"
  /\ job' = [job EXCEPT !.step = "clean"]
  /\ harvests' = [t \in Targets |-> IF t \in job.todo THEN job.fw ELSE harvests[t]]
  /\ UNCHANGED <<sources, prefixes, pair, audio, artifacts, checkout>>

\* Stale artifacts go, then the target is verified, target by target.
CleanTarget ==
  /\ job.step = "clean"
  /\ \E t \in job.todo :
       /\ rootfs' = [rootfs EXCEPT ![t] = None]
       /\ images' = [images EXCEPT ![t] = None]
       /\ job' = IF PreparedVerifies(t) /\ VerifyHarvest(t) /\ job.todo # {t}
                 THEN [job EXCEPT !.todo = @ \ {t}] ELSE Idle
  /\ UNCHANGED <<files, pair, audio, payloads, checkout>>

-----------------------------------------------------------------------------
(* build-rootfs.sh, with build-audio-module.sh in it *)

StartRootfs ==
  /\ job = Idle
  /\ \E t \in Targets :
       /\ PreparedVerifies(t) /\ VerifyHarvest(t)
       /\ pair' = [pair EXCEPT ![t] = prefixes[t]]
       /\ job' = Run("audio", {t}, 0, Describe)
  /\ UNCHANGED <<files, audio, artifacts, checkout>>

\* audio_module.stamp: the kernel, its configuration and the sources.
Inputs(t) == [kernel |-> prefixes[t], driver |-> DriverOf[content]]

AudioCurrent(t) ==
  /\ record[t] # None /\ record[t].stamp = Inputs(t) /\ record[t].sum = ko[t]

\* current, or the first half of prepare: the sources are copied.
PrepareAudio ==
  /\ job.step = "audio"
  /\ \E t \in job.todo :
       job' = IF AudioCurrent(t) THEN [job EXCEPT !.step = "pack"]
              ELSE [job EXCEPT !.step = "stamp", !.copy = Inputs(t)]
  /\ UNCHANGED <<files, pair, audio, artifacts, checkout>>

\* The second half: expected.json gets the stamp.
StampAudio ==
  /\ job.step = "stamp"
  /\ \E t \in job.todo : job' = [job EXCEPT !.step = "compile", !.stamp = Inputs(t)]
  /\ UNCHANGED <<files, pair, audio, artifacts, checkout>>

CompileAudio ==
  /\ job.step = "compile"
  /\ job' = [job EXCEPT !.step = "verify_audio"]
  /\ UNCHANGED <<files, pair, audio, artifacts, checkout>>

\* A slip of VerifyAudio: the stamp of now is taken, not compared.
SlipVerifyAudio ==
  /\ job.step = "verify_audio"
  /\ \E t \in job.todo :
       /\ ko' = [ko EXCEPT ![t] = job.copy]
       /\ job' = [job EXCEPT !.step = "seal", !.stamp = Inputs(t)]
  /\ UNCHANGED <<files, pair, record, artifacts, checkout>>

\* verify: inputs that changed meanwhile end the build; the bytes are published.
VerifyAudio ==
  /\ job.step = "verify_audio"
  /\ \E t \in job.todo :
       IF job.stamp = Inputs(t)
       THEN ko' = [ko EXCEPT ![t] = job.copy] /\ job' = [job EXCEPT !.step = "seal"]
       ELSE job' = Idle /\ UNCHANGED ko
  /\ UNCHANGED <<files, pair, record, artifacts, checkout>>

SealAudioModule ==
  /\ job.step = "seal"
  /\ \E t \in job.todo :
       record' = [record EXCEPT ![t] = [stamp |-> job.stamp, sum |-> job.copy]]
  /\ job' = [job EXCEPT !.step = "pack"]
  /\ UNCHANGED <<files, pair, ko, artifacts, checkout>>

PackRootfs ==
  /\ job.step = "pack"
  /\ \E t \in job.todo :
       rootfs' = [rootfs EXCEPT ![t] =
         [harvest |-> harvests[t], pair |-> pair[t], audio |-> ko[t],
          label |-> job.label, content |-> content]]
  /\ job' = Idle
  /\ UNCHANGED <<files, pair, audio, images, payloads, checkout>>

-----------------------------------------------------------------------------
(* build-image.sh and build-update.sh *)

ComposeTarget ==
  /\ job = Idle
  /\ \E t \in Targets :
       /\ rootfs[t] # None /\ PreparedVerifies(t)
       /\ images' = [images EXCEPT ![t] =
                      [prefix |-> prefixes[t], rootfs |-> rootfs[t], stage |-> "composed"]]
       /\ job' = Run("verify_image", {t}, 0, None)
  /\ UNCHANGED <<files, pair, audio, rootfs, payloads, checkout>>

VerifyTarget ==
  /\ job.step = "verify_image"
  /\ \E t \in job.todo :
       images' = IF PreparedVerifies(t) THEN [images EXCEPT ![t].stage = "verified"] ELSE images
  /\ job' = Idle
  /\ UNCHANGED <<files, pair, audio, rootfs, payloads, checkout>>

\* A slip of Carries: the stamps are not looked at.
SlipCarries(label, claim) == TRUE

\* The rootfs holds the text BASEOS_BUILD=claim, which is also the beginning
\* of that text with -dirty behind it.
Carries(label, claim) == claim.rev = label.rev /\ (claim.tree = "dirty" => label.tree = "dirty")

\* Only the stamp of the build is looked for: the one of the version, read from
\* the same checkout, would refuse more payloads.
MakeUpdate ==
  /\ job = Idle
  /\ \E t \in Targets :
       /\ images[t] # None /\ Carries(images[t].rootfs.label, Describe)
       /\ payloads' = [payloads EXCEPT ![t] = [claim |-> Describe, from |-> images[t]]]
  /\ UNCHANGED <<files, pair, audio, rootfs, images, checkout, job>>

-----------------------------------------------------------------------------
(* The script ends early; the checkout changes. *)

Cut ==
  /\ job.step \in CutPoints
  /\ job' = Idle
  /\ UNCHANGED <<files, pair, audio, artifacts, checkout>>

Edit ==
  /\ job.step \in EditPoints
  /\ \E c \in Contents : c > content /\ c > head /\ content' = c
  /\ UNCHANGED <<files, pair, audio, artifacts, head, job>>

Commit ==
  /\ job.step \in EditPoints
  /\ content # head /\ head' = content
  /\ UNCHANGED <<files, pair, audio, artifacts, content, job>>

\* Nothing that is there, or is being built, is labelled as the checkout is.
Unlabelled ==
  /\ job.label # Describe
  /\ \A t \in Targets :
       /\ rootfs[t] # None => rootfs[t].label # Describe
       /\ images[t] # None => images[t].rootfs.label # Describe

Revert ==
  /\ job.step \in EditPoints /\ (Reverts \/ Unlabelled)
  /\ content # head /\ content' = head
  /\ UNCHANGED <<files, pair, audio, artifacts, head, job>>

BuildNext ==
  \/ StartPrepare \/ InstallPrefix \/ InstallHarvest \/ InstallSource \/ UnlinkDerived
  \/ StartFetch \/ InstallManifests \/ UnpackPrefixes \/ UnpackHarvests \/ CleanTarget
  \/ StartRootfs \/ PrepareAudio \/ StampAudio \/ CompileAudio \/ VerifyAudio
  \/ SealAudioModule \/ PackRootfs
  \/ ComposeTarget \/ VerifyTarget \/ MakeUpdate
  \/ Cut \/ Edit \/ Commit \/ Revert

BuildSpec == BuildInit /\ [][BuildNext]_buildVars

-----------------------------------------------------------------------------
(* Properties. *)

\* No image that build-image.sh finished mixes firmware: its boot chain, the
\* vendor files of its rootfs, the boot pair it would migrate to and the
\* kernel its audio module was built for are all of one (fetch-prepared.sh:
\* "Leaving them would let a build mix a fresh boot prefix with an old rootfs").
ImagesOfOneFirmware ==
  \A t \in Targets : images[t] # None =>
    LET r == images[t].rootfs IN
    /\ r.harvest = images[t].prefix /\ r.pair = images[t].prefix
    /\ r.audio.kernel = images[t].prefix

\* An audio module that a build would take from the cache was made from the
\* sources and for the kernel its record names (audio_module: "a later build
\* never trusts an unsealed output").
SealedAudioIsFresh ==
  \A t \in Targets :
    record[t] # None /\ record[t].sum = ko[t] => ko[t] = record[t].stamp

\* A payload claims the build its file system carries (mkupdate: "a manifest
\* that claims a version the filesystem does not carry would make the target
\* apply it, boot, still disagree about its own version, and apply it again").
PayloadClaimsItsBuild ==
  \A t \in Targets : payloads[t] # None => payloads[t].claim = payloads[t].from.rootfs.label

=============================================================================
