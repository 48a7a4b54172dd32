# Formal models of BaseOS

BaseOS is a small operating system for Anbernic H700 handhelds: BusyBox init,
shell scripts and a few static C tools on top of a vendor kernel.  This
directory holds TLA+ models of its own logic, the TLC runs that check them on
small instances, and proofs that TLAPS checks for every instance.  Paths below
are relative to the repository; script names without a path are under
`src/overlay/usr/sbin/`.

## 1. The system

| Component | State it keeps | Operations | Interacts with |
| --- | --- | --- | --- |
| `baseos-update` | two rootfs slots, GPT entry 5, `/data/update/{state,history}`, payloads on the card | `apply`, `boot-check`, `confirm`, `status` | called by `rcS` and `frontend-session`, calls `gptslot` |
| `tools/gptslot.c`, `gptgrow.c`, `mkgpt.py` | primary and backup GPT (header and entry table each) | `geometry`, `flip`, grow the last partition, lay out an image | read by boot0, U-Boot and the kernel |
| `rcS`, `rcK`, `inittab` | order of the boot, `/data` or a tmpfs in its place | mounts, starts of all services, shutdown | everything |
| `frontend-session` | nothing of its own | migration gate, confirmation, storage wait, installer, hand-off | respawned by init |
| `baseos-boot-migrate` | U-Boot/kernel pair on raw sectors, backups and `complete` on `/data` | check, back up, install, restore | gates `frontend-session` |
| `expand-storage` | partition 7 and its file system | grow, format, copy the README | `gptgrow`, first boot only |
| `usb-storage-mode`, `usb-gadget-adb`, `boot-menu-held` | `/run/usb-storage-{device,ready,failed}`, the gadget | choose the exported card, build and bind the gadget | `rcS`, `frontend-session` |
| `baseos-charger`, `charger-wait.c`, `axp-off.c`, `baseos-poweroff`, `baseos-reboot` | charge stamp, key timer, `/run/poweroff-requested` | wait in the charger, cut the power | `rcS`, `rcK` |
| `baseos-ntp`, `baseos-ntp-notify`, `timedatectl` | supervisor lock and pid, `/data` settings | supervise ntpd, set zone and NTP | network scripts, frontends |
| `baseos-mdns`, `udhcpc/default.script` | avahi process, address file | reconcile mDNS with the lease | network scripts |
| `h700_speaker_amp.c` | amplifier GPIO, ramp, jack and DAPM state | guarded GPIO, notifier callbacks | vendor audio driver, kernel PM |
| `boot-log.sh` | early log on `/data`, log on the card | select, append, flush | every script |
| Wi-Fi bring-up in `rcS` | `/data/wifi-slow-radio` | load, hold, retry | vendor driver |
| `systemctl`, `setBluetooth.sh` | none | translate frontend commands | BusyBox services |
| `baseos-config`, `baseos-startup-sound`, `baseos-splash`, `fbsplash.c`, `boot-clock.c` | none that outlives a boot | parse `baseos.conf`, play, paint, set the clock | `rcS` |
| prepared inputs: `prepare-stock.sh`, `prepare_stock.py`, `fetch-prepared.sh`, `cache-pack.sh`, `source_manifest.py`, `verify_harvest.py` | `source.json`, `boot-prefix.img`, `stock-harvest.tar` of each target | cut and recast a vendor card, unpack a published bundle, verify | the build scripts |
| build: `build-rootfs.sh`, `build-audio-module.sh`, `build-image.sh`, `build-update.sh`, `mkupdate.py` | `rootfs.tar`, the audio module and its record, images, payloads | stamp, compile, compose, verify, pack | the checkout, the device |
| `kernel_gzip.py`, `kernel_abi.py`, `audio_module.py`, `strip_gpu_module.py` | none | derive the gzip pair, recover exports, validate modules | the build scripts |
| `experiments/rgsp-kernel-gzip`: `prepare.py`, `restore-card.py` | the boot pair of a card in a reader | derive, write, sync, read back | the owner of a card |

What is hard in it, and what makes each part correct:

- **Power is cut at any moment.**  The update keeps four places that no single
  write changes together (a GPT on raw sectors, a slot, a state file, a
  history), the migration keeps four more (two raw parts, backups, a marker).
  Correct means: whatever boots next has a way back or has proven itself, the
  way back works, and what a file on `/data` says is true of the raw sectors.
- **Writes are cached.**  A `rm` or a `sed -i` is on the card only after a
  sync; `gptslot` and `dd conv=fsync` order raw sectors, the shell files are
  ordered by `sync`.  Correct means: no order of write-backs matters except
  where the code has ordered it.
- **Steps fail one by one**, and the scripts go on: `set -e`, `|| :` and
  ignored exit codes decide what a half-done job leaves behind.
- **Nothing is remembered but what is on the card.**  The boot sequence is
  replayed from the start; a retry must not redo what was done (an image tried
  twice, a card formatted twice, firmware written twice).
- **Processes interleave**: init respawns a session while an operator works
  over adb; supervisors lock, write their pid, and are stopped in between;
  kernel callbacks race a vendor worker for one GPIO.
- **Files outlive what they were made from.**  A build directory holds inputs,
  caches and artefacts of several firmwares and commits; a script that ends
  half way, or an edit while one runs, must not leave a set of files that
  verifies and does not belong together.
- **Nothing on the device can tell a wrong boot chain from a right one.**  The
  host tools have to agree with each other, and with the loader, on layouts,
  checksums and module versions.

The section on later work says which of these are still open.

## 2. The modules

| Module | What it is |
| --- | --- |
| `SlotUpdate` | the A/B update: `baseos-update` and everything that calls it |
| `ABUpdate` | what that update promises: a selected image, a fallback, a bounded trial |
| `SlotUpdateProof` | theorems about `SlotUpdate` |
| `GptLayout` | the partition layout as operators: `derive`, the flip, the growth, the image |
| `GptDisk` | the sectors of both GPT copies under `gptslot`, `gptgrow` and `expand-storage` |
| `SlotPointer` | what `gptslot flip` and `gptgrow` promise about the copy the loaders read |
| `GptProof` | theorems about `GptLayout` and `GptDisk` |
| `BootMigrate` | `baseos-boot-migrate` and the gate `frontend-session` puts before the confirmation |
| `BootMigrateProof` | theorems about `BootMigrate` |
| `StockLayout` | the tables `prepare_stock.py` accepts and recasts, the image `mkgpt.py` lays out, and what `source_manifest.py` demands of it, as operators |
| `Firmware`, `FirmwareProof` | one vendor image on its way to a BaseOS image, with sectors that change behind the tools' back, and theorems about it |
| `KernelModules`, `ModulesProof` | `kernel_abi.py`, the validation in `audio_module.py`, `strip_gpu_module.py`, and theorems about them |
| `KernelGzip` | the gzip boot pair of `kernel_gzip.py` and of the experiment's `prepare.py` |
| `RestoreCard` | `restore-card.py` |
| `GzipProof` | theorems about `KernelGzip` and `RestoreCard`, and about sums and offsets that are folds |
| `Build`, `BuildProof` | the work directories under all scripts that fill them, and theorems about them |
| `NtpSupervisor` | `timedatectl set-ntp` and `baseos-ntp` |
| `Mdns` | `udhcpc/default.script` and `baseos-mdns` |
| `ServicesProof` | theorems about `NtpSupervisor` and `Mdns` |
| `MC*` | the instances TLC runs |

They fit together as a chain of promises: `GptDisk` implements `SlotPointer`,
and `SlotUpdate` implements `ABUpdate`.  `SlotUpdate` takes a flip for one step
(`CommitFlip`, `RestoreFlip`).  `SlotPointer` shows what that covers: a cut that
leaves the primary copy valid finds the slot before the flip or the slot after
it, and no other.  It does not cover a cut between the primary entries and the
primary header, after which that copy has a wrong CRC (`valid`, and the run
`gpt_torn`); what the loaders then do is not in this repository.  `StockLayout`
extends `GptLayout`, so the image `Firmware` ends with is judged by the checks
with which `gptslot` meets it on the device (`SlotsComposed`); `Firmware`
follows the sectors of one image, `Build` the files of all targets.

Definitions named `Slip...` stand next to the ones they spoil.  Each is a
plausible error in the code (a dropped guard, a missing sync, a test one off)
and is used by no specification; putting one in the place of its original makes
the property it belongs to fail, which shows that the property can fail.

### 2.1 SlotUpdate

State: `gpt` is the start sector of GPT entry 5, read as a slot letter; `slot`
what the two slots hold; `card` the `*.bosupd` files; `hist` and `trial` are
`/data/update/history` and `state` as programs read them, `histD` and `trialD`
as they are on the card; `boot`, `root`, `usb`, `data` say where the boot is,
what is mounted as `/`, whether it is a USB-storage boot and whether `/data` is
the real partition; `upd`, `job`, `dest` are the running `apply`.  `proven`,
`committed` and `boots` are history variables: no action reads them.

| Code | Actions |
| --- | --- |
| `rcS` mounts and `boot-check` | `PowerOn`, `NoTrialCheck`, `CountBoot`, `RestoreFlip`, `RestoreFails`, `RestoreForget`, `RestoreReboot` |
| `apply`, in `rcS` or by hand | `NothingToApply`, `StartApply`, `WriteSlot`, `WriteFails`, `VerifySlot`, `VerifyFails`, `CommitFlip`, `CommitFails`, `RecordHistory`, `OpenTrial`, `SyncCommit`, `RemovePayload`, `ApplyReboot` |
| `confirm` in `frontend-session`, init's respawn | `StartSession`, `RespawnSession` |
| `rcK` | `Shutdown` |
| outside | `Hang`, `PowerCut`, `WriteBack`, `SetPayloads` |

Abstractions.  An image stands for its (sha, version, build): two images of one
version are two builds, and equal shas are equal bytes.  `version_newer` is the
order of the numbers in `Version`.  Which of several eligible payloads is taken
depends on a directory order, so it is a choice.  A slot that is being written
is `Blank`.  The state file is a record of its three lines; `TornTrial` is a
state file that is there and empty, after a power cut without a sync or when
`/data` is full.  With the fault `nowrite` a write or a removal on `/data` may
fail, because it is full or read-only; the file is then as it was, or empty if
it was created, and the script goes on (`Stored`).  When
`/data` does not mount, `rcS` puts a tmpfs there and the files are empty for one
boot.  The sha in a `committed-sha` file of versions before 1.0.3 is part of the
initial history (`Legacy`).  `restored-from` is written and never read, and
`status` only reads: both are left out.  A charger-only boot ends before
`boot-check` and reaches none of this state.

### 2.2 GptLayout and GptDisk

A table is a record of the sectors `gptslot` and `gptgrow` read or write.
`GptLayout` holds the arithmetic: `IsSlotLayout` is the chain of checks in
`derive`, `FlipTable` the two assignments that move entry 5, `GrowTable` and
`Full` those of `gptgrow`, `ImageTable` what `mkgpt.py` writes.

`GptDisk` keeps both copies twice, in the page cache (`hdr`, `tab`) and on the
card (`hdrD`, `tabD`), and has one action per `pwrite` and per `fsync`, in the
order of the code; `WriteBack` brings any dirty sector to the card at any time.
A header stands for the entry table its CRC belongs to, so "a CRC that does not
match" is `tab # hdr.sum`.  The backup copy may be at the end of the image or of
the card, because `gptgrow` moves it.  `fat` is the file system on partition 7
and `user` whether a frontend has been copied to it.  Sectors that share a page
are written back independently, which allows more than the kernel does: the
header and the entries in use are LBA 1 and 2, one page, so the entries reach
the card before the header only by a write-back between the two calls, or by a
page that is torn.  The
protective MBR and the BLKPG call to the running kernel are left out: nothing
modelled reads them.

### 2.3 BootMigrate

`pair` is what the two raw parts hold: `original`, `gzip`, `foreign` (anything
else that belongs together) or `torn`.  `saved`/`savedD` are the verified
backups, `mark`/`markD` the `complete` file.  `pc` follows the script from its
guards (`Gate`) through `backup`, `install_pair`, `restore_pair` and
`complete` to the session, or to `blocked`, the loop in `frontend-session` that
sleeps for ever.  Every `log` is a place where the script may end, because it
runs under `set -e` and the log is on `/data`.  The device powers on only from a
pair that belongs together; otherwise `OfflineRestore` is what
`docs/12-kernel-gzip.md` describes, writing the backups back with another
computer.  The same page allows it for a pair that does boot, with the marker
left in place (lines 75-76).  That is left out: the marker would then be wrong
by the owner's hand, and no script reads the sectors behind it again.

### 2.4 StockLayout and Firmware

A table is eight entries with a name, a GUID pair as one number, and sectors; a
CRC, a signature or a fixed header field is one bit of the header.  A sector of
data is the place of the vendor card it comes from (partition and offset), so
"the right data in the right place" is an equation.  `Accepts` is `parse_gpt`
with its three shapes: a full card, a StockMod base that was trimmed, and a
BaseOS image.  `NormaliseTable` and `NormalisedSector` are the two halves of
`normalise_stock_layout`: the table moves down by what partition 1 loses, and
the data is read at its old place and written at its new one.

| Code | Actions of `Firmware` |
| --- | --- |
| `prepare-stock.sh`, `prepare_stock.py` | `Pick`, `PrepareStock` |
| `build-image.sh` | `ComposeImage` (with `verify_prepared` and `mkgpt.py`), `ApplyPackage`, `ApplyBoot`, `ReplaceLogo`, `VerifyImage` |
| `mkupdate.py` | `CutPayload` |
| outside | `Damage`, `Again` |

### 2.5 KernelModules, KernelGzip, RestoreCard

`KernelModules` keeps a kernel as its relocation records, in the order of the
file, its strings and the places where the CRCs of its exports really lie
(`crcs`, from which `Exports`); the tool sees the first two only.  `SolveBase`
scores image bases from the first `MaxPointers` pointers and `MaxAnchors` places
of the anchor string (4000 and 64 in the code), `SymbolBlocks` finds runs of
pairs that name symbols, and `CrcTable` is the first run of CRCs that agrees
with the versions known from modules, all as in the code. `Recover`, `CheckAbi`,
`SealAudio` and `StripGpu` run the four tools.  What the module loader accepts
is `Loads`, and is external.

`KernelGzip` has machine words modulo `W`, so the two checksums are sums that
wrap; a boot image is a header and bytes in pages.  Behind its image a
partition has a tail, and a partition the catalog names is whole pages
(`boot_partition_sectors` is 131072 there, `PairAssumption` here), which is why
the checks of the components suffice to keep the image inside.  A compressed
kernel is any sequence of one of the `Lengths` that remembers what it was made
from.  `Derive` is
`kernel_gzip.prepare`; `Experiment` is `prepare.py`, which was validated on a
device and which `KernelStarts` compares with it.

`RestoreCard` has one action per write, sync and read-back of `restore-card.py`.
`seen` is the card through the page cache, `medium` the card; `FlushCell` brings
a cell to it at any time, and a write to a fragile cell may store something
else.  `Pull` is the end of the power, of the program or of the card's stay in
the reader.

### 2.6 Build

A file is named by the firmware it comes from, 0 when it is not there; a root
file system is a record of what went into it.  `job` is the script that runs:
its step, the targets it has left, and what it remembers (the copy of the audio
sources, their stamp, the label).  One script runs at a time.

| Code | Actions |
| --- | --- |
| `prepare_stock.py` | `StartPrepare`, `InstallPrefix`, `InstallHarvest`, `InstallSource`, `UnlinkDerived` |
| `fetch-prepared.sh` | `StartFetch`, `InstallManifests`, `UnpackPrefixes`, `UnpackHarvests`, `CleanTarget` |
| `build-rootfs.sh`, `build-audio-module.sh`, `audio_module.py` | `StartRootfs`, `PrepareAudio`, `StampAudio`, `CompileAudio`, `VerifyAudio`, `SealAudioModule`, `PackRootfs` |
| `build-image.sh`, `build-update.sh`, `mkupdate.py` | `ComposeTarget`, `VerifyTarget`, `MakeUpdate` |
| outside | `Cut`, `Edit`, `Commit`, `Revert` |

`CutPoints` and `EditPoints` are the steps at which a script may end or the
checkout may change.  The label of a build is the commit and whether the
checkout is dirty; `Carries` is the search for it in the file system.
`mkupdate.py` also looks for the version stamp; that check is left out, it could
only refuse more payloads.

### 2.7 NtpSupervisor and Mdns

`NtpSupervisor` has one action per command of the two shells that touches the
lock directory, the pid file, a signal or the `ntpd` child; `at` is where each
supervisor is, `command` where `timedatectl` is.  A TERM kills a shell that has
no trap, is handled at once by one that is in its loop, and after the sleep by
one that sleeps.  The handler kills `$child_pid`, which is empty everywhere but
in the `wait`: between the fork of `ntpd` (place `forked`) and
`child_pid="$!"` a TERM leaves an `ntpd` behind that nobody knows (`stray`).
`DisabledStops` is about the `ntpd` whose pid was noted; that the other one ends
as well (`EveryNtpdEnds`) does not hold, as `ntp_fork.cfg` shows.  With
`Patient` the user lets one command take effect before giving the next one
(`Settled`), but may still switch off a supervisor that is only starting.  Not
modelled: a pid that is reused for another `baseos-ntp`, and a supervisor killed
by anything but `timedatectl` or a reboot.

`Mdns` has the two kinds of DHCP events, the script that changes the address and
then starts a worker, and the workers with their lock.  `holders` is a set,
because a `flock` that did not wait is one of the errors it has to tell.  A
start of Avahi may fail; nothing tries again before the next DHCP event, so the
daemon is promised only if the last worker's start did not fail (`failed`).

## 3. What TLC checks

Instances: one factory image and one or two payloads, three trial boots as in
the script; a card of 24 sectors whose image has 18; the migration is finite as
it is.  Two payloads are what it takes for one image to be on trial while
another is newer, and for an image to be committed, rolled back and offered
again; a third adds no new relation, since at most two slots hold images.
`MaxTrialBoots` is the value of the code.  The sectors only matter by their
order.  No counter is unbounded, so no run is cut off by a constraint.  No run
turns the deadlock check off.

The tools share one run, the migration and the services another; a behaviour is
about one of them.

Cards have about 24 sectors and every shape `parse_gpt` tells apart, with gaps,
a trimmed tail, a stock table and tables that must be refused; one sector of a
file may change, at any place and between any two tools.  Kernels export seven
symbols in two sections and have one stray relocation record at places and with
values chosen to look like a CRC, a pointer, or the start of a table; the
thresholds of `kernel_abi.py` (32, 100 and 4) are scaled to 3, 5 and 2, because
what matters is that a table off by one agrees in fewer places than a threshold,
and its limits (4000 and 64) to 12 and 2.  Packages have nine words modulo 16
and boot images pages of three bytes, so sums wrap and components end before, on
and behind a page.  A restore has two cells per region, one of them fragile.
The build has one target, two firmwares and two states of the checkout with
different audio sources: files of two targets never meet, except in the loop of
`fetch-prepared.sh`, which `build_fetch` shows with two.  Three supervisors are
one that stops, one that runs and one that starts; three mDNS workers are one in
the lock, one that was overtaken and one that overtakes.

| Run | Faults and cuts | What it shows |
| --- | --- | --- |
| `slot_patient` | corrupt payloads, a cut anywhere outside the windows between a flip and its files, one unapplied payload at a time | every selected image is proven or on its own trial (`Protected`), a rollback leads to a proven image (`RestoreTargetProven`), a trial has at most two boots (`TrialBounded`), boot-check never leaves a proven image (`ProvenNotDemoted`), and all of it is `ABUpdate` |
| `slot_eager` | unsynced writes lost, corrupt payloads, failing flips, cuts outside the commit, applies by hand, any payloads | the mounted slot is never written (`RootUntouched`), no image is committed twice (`NoRecommit`) |
| `slot_faults` | everything, everywhere, writes on `/data` that fail included | a commit flips only to a slot that holds the verified image |
| `slot_live` | corrupt payloads, a cut from the apply to the hang that may lose the count; fairness, see below | an image that never reaches a session is left in the end |
| `gpt_flip` | a cut anywhere, sectors written back in any order | a flip that found the primary copy whole leaves a whole copy (`OneCopyWhole`); the copy the loaders read changes in the second half of a flip only, once, and is valid when the flip succeeds (`ImplementsSlotPointer`); a card with a frontend is never formatted (`UserDataKept`) |
| `gpt_faults` | also failing writes | a flip that succeeds leaves two whole, equal copies (`FlipRepairs`) |
| `tools` | one damaged sector, stray records, foreign modules, a restore cut anywhere, builds cut and edited outside the windows named below | the preparation holds what the card held (`PreparedFromCard`), a verified image carries the vendor's boot chain and the gzip pair (`VerifiedHoldsBootChain`), only damage makes a verification fail (`RejectedWasDamaged`), the image suits `gptslot` (`SlotsComposed`); recovered exports are the kernel's (`RecoveredAreTrue`), modules that pass will load (`FittingModulesMatch`, `SealedModuleLoads`, `StrippedLoadsAlike`); the derived pair starts (`PackageStarts`, `KernelStarts`); a restore that reports success is one (`RestoredIsOriginal`) and leaves other cards alone (`ForeignUntouched`); `ImagesOfOneFirmware`, `SealedAudioIsFresh` and `PayloadClaimsItsBuild` for the build |
| `services` | the migration: failing and torn writes, failing read-backs, a full `/data`, unfit devices, a cut anywhere; the services: delayed workers, stops at any step of a start, `ntpd` that dies, a reboot | a device that does not boot has both backups (`Recoverable`), no session and so no confirmation on it (`SessionBoots`), a true marker (`MarkTellsPair`), and no second write (`WrittenOnce`); never two supervisors (`OneSupervisor`) or daemons (`OneDaemon`); switching off stops every `ntpd` whose pid its supervisor has noted (`DisabledStops`), switching on ends with a supervisor (`EnabledRuns`), and the daemon follows the address (`DaemonFollowsAddress`) |

Fairness of `slot_live`: a device that is off is switched on, `boot-check` and
`apply` finish when they are not interrupted (they are sequential scripts with
no wait), an image whose userspace is flawed hangs, and a hung device is
power-cycled.  The last two say what "flawed" means and what an owner does with
a device that does not start.  A cut may lose the count of a boot, which
`boot-check` renames without a sync; but the kernel writes it back within
seconds, so an owner who keeps trying does not always cut before that
(`SF_vars(WriteBack)`).  Without this a trial that hangs would never end, and
`slot_lost_count` shows how one goes beyond its bound.  Cuts in a session are
not in this run, because a lost confirmation opens the trial again
(`slot_lost_confirm`).  Nothing is assumed of sessions or of the user's
payloads.  Fairness of `services`: a shell that is not blocked takes its next
step, a `sleep` ends, the lock of `flock` goes to a waiter; DHCP events,
commands, reboots and the end of an `ntpd` need not happen. `tools` checks
safety only.

### Disagreements

Four runs show the code doing something other than its text says.  They are
kept with the bounds that make the counterexample short.

| Run | What happens |
| --- | --- |
| `slot_two_payloads` | `rcS` applies before the session confirms: with a second newer payload on the card, the first boot of a trial image writes over the slot a rollback would return to |
| `gpt_unformatted` | `expand-storage` takes a card whose entry 7 is long for one that was set up: a cut during `mkfs.vfat` leaves it without a file system for good |
| `gpt_torn` | `gptslot` writes the primary entries and the primary header with one sync behind both: a cut between them leaves the copy the loaders read with a wrong CRC, where the comment says the device boots exactly as before |
| `build_stamp` | `mkupdate.py` looks for the text of the label anywhere in the file system, and the text of a commit is the beginning of its dirty one: after an edit is taken back, a payload of the edited file system claims the commit |

The other configurations in this directory are further counterexamples, each
to the one property it names, and can be run the same way:

| Configuration | What happens |
| --- | --- |
| `slot_cut_commit` | the flip is on the card before the state file is: a cut in between leaves a new image selected, without a trial, and it is never rolled back |
| `slot_lost_count` | `boot-check` renames the new count over the state file without a sync: a device that hangs and is power-cycled before the write-back boots again with the old count, so the third counted boot is not the last one |
| `slot_lost_confirm` | `confirm` removes the state file without a sync: after a cut the trial is open again, and an image that did start sessions can be rolled back |
| `slot_cut_history` | a cut between the flip and the history append: the same payload can be committed a second time |
| `slot_manual_confirm` | a session respawned between a manual commit and its reboot confirms an image that never ran |
| `slot_late_flip` | `gptslot` fails at its last fsync, after the primary copy was written: the caller goes on as if nothing had changed, and the next apply of that boot writes the mounted slot |
| `gpt_io` | a growth that failed on the first boot is retried after the user has copied a frontend, and formats it |
| `migrate_full` | with `/data` full or read-only a deferral or a skip cannot be logged, `set -e` ends the script with an error and the session sleeps for ever on a healthy device |
| `migrate_kill` | the shell that sleeps on a broken pair is killed: init respawns it, the pair is now unknown firmware, which is skipped, and the session starts |
| `build_cut` | `prepare_stock.py` ends between the new `source.json` and the removal of the old `rootfs.tar`: everything verifies, and the next image mixes two firmwares |
| `build_fetch` | `fetch-prepared.sh` unpacks for all targets and then verifies one after the other: a target that does not verify ends the loop, and the old artefacts of the ones behind it stay |
| `build_audio` | the audio sources are edited between their copy and their stamp: the module of the old sources is sealed under the stamp of the new ones |
| `modules_merge` | two modules of a harvest disagree about a symbol: `kernel_abi.py` keeps one of the two versions, and the set passes although one of them cannot load |
| `ntp_duplicate` | two starts in a row: the second finds the lock without a pid yet, takes it for stale, and two supervisors run |
| `ntp_fork` | a TERM between the fork of `ntpd` and `child_pid="$!"`: the cleanup finds no pid, the supervisor ends and `ntpd` stays, with synchronisation off and a single, patient command |
| `ntp_lost` | off and on again while a supervisor that was told to end is still alive: the new one finds it and leaves, then the old one goes, and none is left |

A cut inside `gptgrow` leaves copies that do not match and that no later run
repairs (`gpt_torn.cfg` with `FullMeansWhole`); a header may lead to a backup
that is not there, so that `gptslot` refuses every flip from then on.  A label
is taken when `build-rootfs.sh` starts, the files are read later: an edit or a
commit in between is not in it.

Two stops in a row lose an `ntpd` as well (`ntp_lost.cfg` with `DisabledStops`):
the second TERM finds the supervisor in its cleanup, where it has no trap any
more, and kills it before it has stopped its `ntpd`.

## 4. What is proved

The proofs are for all values of the constants: any images and versions, any
limit of trial boots, any layout `gptslot` accepts, any set of faults and of
phases in which the power is cut, any vendor cards, pinned places and slot
sizes, any kernels, harvests and modules, any packages and boot images, any
targets, firmwares and edits of a checkout, any cells of a card and any number
of supervisors and workers, except where an assumption is named.

| Theorem | Assumes | Says |
| --- | --- | --- |
| `TypeCorrect`, `GptTypeCorrect`, `MigrateTypeCorrect` | nothing | types; for `GptDisk` also that every table, in the cache or on the card, is a layout `gptslot` accepts |
| `CommitVerified` | nothing | `CommitFlipsToVerified` |
| `CommittedOnce` | `CommitUndisturbed` | `NoRecommit` |
| `RunningSlotKept` | `"lateflip" \notin Faults` | `RootUntouched` |
| `AlwaysProtected`, `RollbackWorks`, `TrialIsBounded`, `ConfirmationIsFinal`, `Refinement` | `OrderlyUse` | `Protected`; `RestoreTargetProven`; `TrialBounded`; `ProvenNotDemoted`; `ImplementsABUpdate` |
| `SlotsApart`, `FlipKeepsLayout`, `FlipTwice`, `OldLayoutRefused`, `GrowKeepsSlots`, `ImageIsLayout` | `IsSlotLayout` or `ImageFits` of the table | facts of the layout arithmetic |
| `FrontendKept`, `CutLeavesOneCopy`, `PointerRefinement` | `NoFaults` | `UserDataKept`; `OneCopyWhole`; `ImplementsSlotPointer` |
| `FlipsRepair` | nothing | `FlipRepairs` |
| `PreparationIsTrue`, `ImageHasSlots`, `VerifiedIsTheVendors` | nothing | `PreparedFromCard`; `SlotsComposed`; `VerifiedHoldsBootChain` |
| `OnlyDamageIsRejected` | `PinsWholePartition` | `RejectedWasDamaged` |
| `RecoveryIsTrue` | `SectionsInLine`, `FewStrays` | `RecoveredAreTrue` |
| `FittingIsMatching` | `SectionsInLine`, `FewStrays`, `OneBuild` | `FittingModulesMatch` |
| `SealedIsLoadable` | `SectionsInLine`, `FewStrays`, `HarvestOfKernel` | `SealedModuleLoads` |
| `StrippedIsAlike` | nothing | `StrippedLoadsAlike` |
| `NeverTwoSupervisors` | `Patient` | `OneSupervisor` |
| `NeverTwoDaemons` | nothing | `OneDaemon` |
| `PackageAccepted`, `KernelFound` | nothing | `PackageStarts`; `KernelStarts` |
| `RestoredIsTrue`, `ForeignStaysUntouched` | nothing | `RestoredIsOriginal`; `ForeignUntouched` |
| `ImagesAreOfOneFirmware` | `NoCutInWindow`, `HarvestsComplete` | `ImagesOfOneFirmware` |
| `SealedAudioModulesAreFresh` | `NoEditBeforeStamp` | `SealedAudioIsFresh` |
| `PayloadsClaimTheirBuild` | `~Reverts` | `PayloadClaimsItsBuild` |
| `MigrationRecoverable`, `SessionNeverStranded`, `MarkerTrue`, `FirmwareWrittenOnce` | `NoKill` | `Recoverable`; `SessionBoots`; `MarkTellsPair`; `WrittenOnce` |

`CommitUndisturbed`: the updater is not stopped from its flip to its sync,
`/data` mounts at every boot and takes every write, and `gptslot` does not fail
after it has written. `OrderlyUse`: one unapplied payload at a time and no apply
by hand, no cut in the windows between a flip and its files, cached writes are
not lost and none fails, `gptslot` succeeds; payloads may be corrupt.
`"lateflip" \notin Faults`: `gptslot` does not fail after the flip is written;
it may fail before, and everything else may go wrong.  `Patient`: one
`timedatectl` command takes effect before the next is given, except that a
supervisor may be switched off while it starts. `NoFaults`: no write fails.
`NoKill`: nobody kills a session that waits for ever.  `NoCutInWindow`: no
script ends between the installation of inputs and the removal of what was
derived from the old ones.  `HarvestsComplete`: the published bundle has every
path its list names.  `NoEditBeforeStamp`: no edit between the copy of the audio
sources and their stamp.  `~Reverts`: an edit is taken back only while nothing
that was built from it is there.

Five assumptions are about the inputs, which the tools cannot check for
themselves; TLC evaluates them on the instances of `MCTools`.

- `PinsWholePartition`: a boot image whose hash `kernel-gzip.json` knows ends
  where its partition ends.
- `SectionsInLine`: where `kernel_abi.py` finds a run of symbols, the kernel
  exports these names, and their CRCs lie one behind the other in the same
  order. It says nothing of where that is; finding the place is what is proved.
- `FewStrays`: for each section, the records that carry the known CRC of a name
  and are not that name's own are fewer than `MIN_AGREE`, or fewer than 95% of
  the known names.  They may lie anywhere, in the middle of the kernel's own
  table or at the start of a wrong one.  In `MCTools` each kernel has one.
- `OneBuild`: the modules of a harvest have a version for each import and agree
  on them.
- `HarvestOfKernel`: at least one of them was made for the kernel beside them.

Besides, `Cards` are what `parse_gpt` can read
(eight entries of numbers), the sections of a module are a table, a package is
words with a header, and a boot partition has five sizes and, if the catalog
names it, whole pages (`PairAssumption`).

The counterexamples above show why the main ones are there: `slot_cut_history`
for `CommitUndisturbed`, `slot_two_payloads`, `slot_cut_commit`,
`slot_lost_count` and `slot_lost_confirm` for `OrderlyUse`, `slot_late_flip` for
the absence of `lateflip`, `ntp_duplicate` for `Patient`, `modules_merge` for
`OneBuild`, `gpt_io` for `NoFaults`, `migrate_kill` for `NoKill`, `build_cut`
for `NoCutInWindow`, `build_fetch` for `HarvestsComplete`, `build_audio` for
`NoEditBeforeStamp`, `build_stamp` for `~Reverts`.

The arguments.  None of the properties is inductive alone.

- `CommitVerified` rests on `ApplyInv`: while an update runs the GPT is still,
  so the slot chosen at the start is the one the flip selects, and past the
  verification it holds the image.
- `CommittedOnce` adds `HistoryInv`: what was committed is in the history, from
  the sync on also in the file on the card, which is what a power cut goes back
  to; the image being applied is not in it.
- `RunningSlotKept` rests on `RootInv`: up to its flip an update runs with the
  mounted slot selected, so the other one is written; after a flip that is
  reported the machine only goes down.
- The second half of `SlotUpdateProof` uses `PatientInv`, in five parts: where
  the system runs from (`PlaceInv`), a proven slot holds a sound image
  (`ProvenInv`), no unapplied payload during a trial (`CardInv`), either a
  proven image without a trial or a trial of the selected image with a proven
  one beside it (`TrialInv`), and the image being written is new (`JobInv`).
  `CardInv` is the part the second payload breaks.
- `UserInv`: once the user may copy a frontend, entry 7 is long in the cache and
  on the card, because `gptgrow` syncs before the format; so no later boot grows
  it again.  `CopyInv` says for every phase of a flip which sectors are still
  the old ones in cache and card; `LetterInv` does the same for the one entry
  that selects a slot, and needs no whole copies, so it also covers flips on a
  card an interrupted growth has left behind.
- `PointerRefinement` puts these together (`DiskInv`) with `RepairInv`, which
  makes the copy valid when a flip succeeds, and `GrowInv`, which does the same
  for a growth.  That nothing but the second half of a flip and a growth touches
  the primary copy is `PrimaryStays`; what those may do to it is
  `PointerWrites`.
- `RepairInv` follows a flip through its writes: what has been written is in the
  cache until the flip ends, and on the card after the last fsync.  It asks
  nothing of what the flip found, so it holds after any interruption before it.
- `MigrateInv`: backups are complete and synced before the first write, the
  marker is absent until the last one, and outside the exchange the device
  boots.
- `FirmwareProof` has five layers.  `FileInv`: the manifest is the prefix cut
  from the picked card, which was accepted, and is never touched again.
  `ShapeInv`: the image has the table `mkgpt.py` lays out from it, whatever its
  sectors hold. `CutInv`: a payload is the extent of entry 5 of that image.
  `VerifiedInv`: in a verified image every sector of the boot chain was compared
  with the manifest, so it does not matter where one was damaged.  `CleanInv`
  says what the image holds at each step while nothing was damaged, and that
  every check then accepts it; this is where the arithmetic of
  `normalise_stock_layout` and of `mkgpt.py` must meet, and where a partition
  longer than the pinned one would be refused.
- `ModulesInv`: what has passed a gate still has the inputs it was judged with.
  The rest is about operators.  An accepted table agrees in more places than
  there are strays, so one of its records is a name's own (`OneIsOwn`), and this
  one fixes the place of all the others (`SectionIsTrue`), also of those no
  module has a version for.  For the stripped module, names are counted
  (`WellFormed`), so a name is one section (`OneSection`), and the places
  patched in it can be read off the counts that `verify_stripped` compares
  (`PatchesAreCounted`).
- `NtpInv` (`ServicesProof`): there are never more than an established
  supervisor and a newcomer (`FewInv`); a newcomer meets one only with its lock
  and pid in place (`MeetInv`), which sends it away; and while synchronisation
  is on nobody stops (`EnabledInv`).
- `LockInv`: one worker is inside the lock, and the daemon is as it has seen
  it, because nobody else starts or kills one.
- `GzipInv`: both halves of a made pair are derived from one audited pair that
  passed every check, in one step.  What is left is arithmetic.  `FoldLeft` is a
  chosen solution of a recursion over sets of indices; `FoldDefined` shows that
  there is one, `FoldPrefixes` that the chosen one goes step by step, so a sum
  is a chain of additions modulo `W` (`SumPrefixes`).  Replacing one word then
  changes a sum by the difference (`SumExcept`), hence a sealed sequence is what
  the check with the stamp in place of the sum accepts (`SealAccepted`), and
  since the outer sum lies outside the U-Boot, sealing the package leaves the
  inner sum alone (`PatchedPackage`).  Offsets are a fold as well (`Offsets`):
  each component starts on a page, and the loader's search for the next page has
  one result, which is `Align` (`NextPage`, `LoadedAtOffset`).  Padded parts one
  behind the other lie where those offsets say (`ImageLaid`), and a vendor
  partition of whole pages holds its whole image (`ImageInside`), so the shorter
  one leaves the tail alone (`DerivedBoot`).  The induction over the length of a
  sequence is made with sets: the lengths without the property would have a
  least one (`LeastNat`, from the well-founded inclusion of finite sets).
- `RestoreInv`: what the computer reads and what the card holds
  agree on the identity cells always, on all cells of a foreign card, and
  everywhere from a sync to the next write; so a read-back that succeeds is of
  the card, and the boot region is restored before the package is begun.
- `BuildInv`: what `fetch-prepared.sh` has unpacked is of the committed firmware
  (`Fetched`), the steps of `build-rootfs.sh` see inputs of one firmware
  (`OfOneTarget`, `KernelCopied`), a record names the kernel of the module it
  vouches for (`KernelRecorded`), and a root file system that is there was made
  from the harvest that is there (`RootfsOfHarvest`), except inside the window.
  The last part is the one a cut in the window breaks.
- `FreshInv`: what is compiled is what is stamped, and records are written of
  nothing else.  `LabelInv`: every label names a state the checkout was in and
  will not be in again, so a payload's clean label cannot be the beginning of a
  dirty one.

Only model-checked: `FlawedIsReplaced`, `DisabledStops`, `EnabledRuns` and
`DaemonFollowsAddress`, because liveness under fairness is outside the prover.
Every other property a passing run checks is a theorem, under the assumptions
above.  What the proofs about the boot pair take as given is that gzip
compresses (a compressed kernel is opaque) and that a digest names its bytes.

## 5. What is not modelled

- `build-image.sh` composes in place and verifies last, so an image it rejected,
  or was interrupted on, is still there for `build-update.sh`.  `Build` has the
  payloads cut from such images; no property forbids them.
- A flip that starts on a primary copy an earlier cut has already broken has no
  whole copy to fall back to while it runs; `OneCopyWhole` says so by
  `FoundWhole`.
- `gptgrow` ignores the result of its fsync; with failing writes the model lets
  it report success.  `baseos-boot-migrate` killed together with its session
  shell, so that two copies run, is left out.
- The parsing of manifests, `version_newer` (which compares digits only, field
  by field), splash screens and log texts.
- The vendor loader, kernel and drivers, adbd and its patches, most experiments,
  tests, assets and manifests: not BaseOS's own logic, or data.
- USB maintenance, charging and power-off, the speaker amplifier, Wi-Fi
  bring-up: see below; most of their state is the kernel's or a vendor driver's.
- `systemctl`, `setBluetooth.sh`, `boot-log.sh`, `baseos-config`, the splash and
  the startup sound: translations and parsers without state of their own.
- Of the build: which files a harvest takes (`harvest.list` and its symbolic
  links), the packing of bundles, device profiles, cross compilers, the contents
  of the root file system, two scripts that run at once.
- Of the services: `baseos-ntp-notify` and the file that says whether the clock
  is synchronised, time zones, routes and `resolv.conf`, `baseos-mdns stop`,
  which nothing calls.

## 6. Later work, in order

1. `UsbStorage`: `boot-menu-held`, `usb-storage-mode`, `usb-gadget-adb`, the
   wait and the hand-off in `frontend-session`.  One owner of a card: never
   exported while it or a child partition is mounted, never mounted after it was
   exported; the session's last word agrees with the gadget.  Theorem: the
   ownership invariant.
2. `PowerOff`: `baseos-poweroff`, `baseos-reboot`, `rcK`, `axp-off`,
   `baseos-charger`, `charger-wait`.  The power is cut only with every
   persistent mount read-only and only when a poweroff was asked for; no
   charger boot loops.  Theorem: the cut implies read-only.
3. `SpeakerAmp`: guarded GPIO, DAPM events, PM notifiers and the vendor jack
   worker.  The amplifier is never on while the line output is down.
4. `VersionOrder` (`version_newer` against dotted versions as a pure function),
   `WifiBringUp` (bounded waits), `Config` (the parser of `baseos.conf`).
