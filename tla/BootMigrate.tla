------------------------------ MODULE BootMigrate ------------------------------
(***************************************************************************)
(* baseos-boot-migrate and the gate frontend-session puts before the       *)
(* confirmation of an update: the one-time exchange of the original U-Boot *)
(* package and kernel partition for a gzip pair.  The two are raw sectors  *)
(* shared by both rootfs slots and are written one after the other; copies *)
(* of the originals and a marker on /data make the exchange recoverable    *)
(* and once only.                                                          *)
(***************************************************************************)
EXTENDS Naturals

CONSTANTS
  Faults,      \* what may go wrong, a subset of FaultKinds
  CutPhases    \* phases in which the power may be cut

\* "write": a dd to the card fails, or tears what it writes.
\* "readback": the direct read-back fails.
\* "state": a write to /data fails (full, or remounted read-only).
\* "unfit": other target, geometry, assets, or too little space on /data.
\* "kill": a session that waits for ever is killed, and init respawns it.
FaultKinds == {"write", "readback", "state", "unfit", "kill"}

Parts == {"boot", "package"}

Contents == {"original", "gzip", "foreign", "torn"}

Outcomes == {"installed", "already", "rolled-back", "skipped"}

WritePhases ==
  {"write boot", "write package", "restore boot", "restore package"}

Phases ==
  {"off", "gate", "save boot", "saved boot", "save package", "saved package",
   "begin", "verify", "failed", "verify original", "mark", "marked",
   "session", "blocked"} \union WritePhases

ASSUME MigrateAssumption ==
  Faults \subseteq FaultKinds /\ CutPhases \subseteq Phases

VARIABLES
  pair,            \* what the two parts of the card hold
  saved, savedD,   \* verified backups on /data: as read, and on the card
  mark, markD,     \* the "complete" file: as read, and on the card
  pc,              \* where frontend-session and the script are
  outcome,         \* what "complete" is about to record
  maintenance,     \* a USB-storage boot, or a tmpfs in place of /data
  powered          \* external power, or a battery of at least 50%

state == <<saved, savedD, mark, markD>>
where == <<maintenance, powered>>
vars == <<pair, saved, savedD, mark, markD, pc, outcome, maintenance, powered>>

All(c) == [p \in Parts |-> c]

\* A gzip loader needs a gzip kernel and the original one the original kernel.
Boots == pair \in {All("original"), All("gzip"), All("foreign")}

Sync == savedD' = saved /\ markD' = mark /\ UNCHANGED <<saved, mark>>

Reach(p) == pc' = p /\ UNCHANGED <<pair, state, outcome, where>>

\* set -e: a log line that cannot be written ends the script with an error,
\* upon which frontend-session sleeps for ever.
LogFails == "state" \in Faults /\ Reach("blocked")

\* A slip of Finish: complete is called without its argument.
SlipFinish(o) ==
  \/ pc' = "mark" /\ outcome' = mark /\ UNCHANGED <<pair, state, where>>
  \/ LogFails

\* The script logs what it found and goes on to complete().
Finish(o) ==
  \/ pc' = "mark" /\ outcome' = o /\ UNCHANGED <<pair, state, where>>
  \/ LogFails

-----------------------------------------------------------------------------
Init ==
  /\ pair \in {All("original"), All("gzip"), All("foreign")}
  /\ saved = {} /\ savedD = {}
  /\ mark = "none" /\ markD = "none"
  /\ pc = "off" /\ outcome = "skipped"
  /\ maintenance = FALSE /\ powered = FALSE

\* The vendor loader and kernel only start from a pair that belongs together.
PowerOn ==
  /\ pc = "off" /\ Boots
  /\ pc' = "gate"
  /\ maintenance' \in BOOLEAN /\ powered' \in BOOLEAN
  /\ UNCHANGED <<pair, state, outcome>>

\* A slip of Wanted: the marker is not looked at.
SlipWanted == ~maintenance

\* The guards before the script does anything.
Wanted == mark = "none" /\ ~maintenance

\* frontend-session goes on to the confirmation of the update.
Bypass ==
  /\ pc = "gate" /\ ~Wanted
  /\ Reach("session")

\* Too little battery: a later run tries again.
Defer ==
  /\ pc = "gate" /\ Wanted /\ ~powered
  /\ Reach("session") \/ LogFails

Unfit ==
  /\ pc = "gate" /\ Wanted /\ "unfit" \in Faults
  /\ Finish("skipped")

\* A direct read fails, or cannot append its messages to the log.
ReadFails == {"readback", "state"} \intersect Faults # {}

\* The two parts are hashed.
Compare ==
  /\ pc = "gate" /\ Wanted /\ powered
  /\ \/ pair = All("gzip") /\ Finish("already")
     \/ pair = All("original") /\ Reach("save boot")
     \/ pair \notin {All("gzip"), All("original")} /\ Finish("skipped")
     \/ ReadFails /\ Finish("skipped")

-----------------------------------------------------------------------------
(* backup: dd, compare, rename, sync. *)

After(p) == IF p = "boot" THEN "save package" ELSE "begin"

Save(p) ==
  /\ pc = (IF p = "boot" THEN "save boot" ELSE "save package")
  /\ \/ p \in saved /\ Reach(After(p))
     \/ /\ p \notin saved
        /\ saved' = saved \union {p}
        /\ pc' = (IF p = "boot" THEN "saved boot" ELSE "saved package")
        /\ UNCHANGED <<pair, savedD, mark, markD, outcome, where>>
     \/ "state" \in Faults /\ Finish("skipped")

\* A slip of SaveSync: no sync after the rename.
SlipSaveSync(p) ==
  /\ pc = (IF p = "boot" THEN "saved boot" ELSE "saved package")
  /\ Reach(After(p))

SaveSync(p) ==
  /\ pc = (IF p = "boot" THEN "saved boot" ELSE "saved package")
  /\ Sync
  /\ pc' = After(p)
  /\ UNCHANGED <<pair, outcome, where>>

Backup == \E p \in Parts : Save(p) \/ SaveSync(p)

-----------------------------------------------------------------------------
(* install_pair and restore_pair. *)

BeginExchange ==
  /\ pc = "begin"
  /\ Reach("write boot") \/ LogFails

\* dd of c to part p: it does its work and succeeds, or it leaves anything and
\* may or may not say so, or its log file cannot be opened and it does not run.
Put(p, c, success, failure) ==
  /\ \/ pair' = [pair EXCEPT ![p] = c] /\ pc' = success
     \/ /\ "write" \in Faults
        /\ pair' \in {[pair EXCEPT ![p] = d] : d \in {pair[p], "torn", c}}
        /\ pc' \in {success, failure}
     \/ "state" \in Faults /\ UNCHANGED pair /\ pc' = failure
  /\ UNCHANGED <<state, outcome, where>>

WriteBoot == pc = "write boot" /\ Put("boot", "gzip", "write package", "failed")

WritePackage == pc = "write package" /\ Put("package", "gzip", "verify", "failed")

\* A slip of Reads: only the package is read back.
SlipReads(c) == pair["package"] = c

\* verify_pair.
Reads(c) == pair = All(c)

VerifyNew ==
  /\ pc = "verify"
  /\ \/ Reads("gzip") /\ Finish("installed")
     \/ (ReadFails \/ ~Reads("gzip")) /\ Reach("failed")

\* The log line before the restore.
InstallFailed ==
  /\ pc = "failed"
  /\ Reach("restore boot") \/ LogFails

\* Both writes are attempted whatever the first one says.
RestoreBoot ==
  /\ pc = "restore boot"
  /\ Put("boot", "original", "restore package", "restore package")

RestorePackage ==
  /\ pc = "restore package"
  /\ Put("package", "original", "verify original", "verify original")

\* A slip of VerifyOriginal: the end of the restore is taken for its success.
SlipVerifyOriginal ==
  /\ pc = "verify original"
  /\ Finish("rolled-back")

VerifyOriginal ==
  /\ pc = "verify original"
  /\ \/ Reads("original") /\ Finish("rolled-back")
     \/ (ReadFails \/ ~Reads("original")) /\ Reach("blocked")

Exchange ==
  BeginExchange \/ WriteBoot \/ WritePackage \/ VerifyNew \/ InstallFailed
    \/ RestoreBoot \/ RestorePackage \/ VerifyOriginal

-----------------------------------------------------------------------------
(* complete: a temporary file, sync, rename, sync. *)

MarkWrite ==
  /\ pc = "mark"
  /\ \/ /\ mark' = outcome /\ pc' = "marked"
        /\ savedD' = saved
        /\ UNCHANGED <<pair, saved, markD, outcome, where>>
     \/ LogFails

MarkSync ==
  /\ pc = "marked"
  /\ Sync
  /\ pc' \in {"session"} \union
               (IF "state" \in Faults /\ mark = "installed" THEN {"blocked"} ELSE {})
  /\ UNCHANGED <<pair, outcome, where>>

-----------------------------------------------------------------------------
(* The session, and what ends a boot. *)

\* init respawns frontend-session whenever the frontend exits.
Respawn ==
  /\ pc = "session" \/ ("kill" \in Faults /\ pc = "blocked")
  /\ pc' = "gate"
  /\ powered' \in BOOLEAN
  /\ UNCHANGED <<pair, state, outcome, maintenance>>

\* rcK syncs.
Shutdown ==
  /\ pc \in {"session", "blocked"}
  /\ Sync
  /\ pc' = "off"
  /\ UNCHANGED <<pair, outcome, where>>

Part(phase) ==
  IF phase \in {"write boot", "restore boot"} THEN {"boot"}
    ELSE IF phase \in WritePhases THEN {"package"} ELSE {}

\* A part that is being written is torn; what was not synced may be lost.
PowerCut ==
  /\ pc \in CutPhases \ {"off"}
  /\ pc' = "off"
  /\ pair' \in {pair} \union {[pair EXCEPT ![p] = "torn"] : p \in Part(pc)}
  /\ \E s \in SUBSET saved :
       savedD \subseteq s /\ saved' = s /\ savedD' = s
  /\ mark' \in {mark, markD} /\ markD' = mark'
  /\ UNCHANGED <<outcome, where>>

\* The user writes the backups back with another computer.
OfflineRestore ==
  /\ pc = "off" /\ ~Boots /\ savedD = Parts
  /\ pair' = All("original")
  /\ UNCHANGED <<state, pc, outcome, where>>

Gate == Bypass \/ Defer \/ Unfit \/ Compare

Complete == MarkWrite \/ MarkSync

Next ==
  PowerOn \/ Gate \/ Backup \/ Exchange \/ Complete \/ Respawn \/ Shutdown
    \/ PowerCut \/ OfflineRestore

Spec == Init /\ [][Next]_vars

-----------------------------------------------------------------------------
(* Properties. *)

\* Types of the variables.
TypeOK ==
  /\ pair \in [Parts -> Contents]
  /\ saved \in SUBSET Parts /\ savedD \in SUBSET Parts
  /\ mark \in Outcomes \union {"none"} /\ markD \in Outcomes \union {"none"}
  /\ pc \in Phases
  /\ outcome \in Outcomes
  /\ maintenance \in BOOLEAN /\ powered \in BOOLEAN

\* As long as the device does not boot, verified copies of both originals are
\* on the card ("Backups are durable on userdata before either shared boot
\* component changes").
Recoverable == ~Boots => savedD = Parts

\* A session starts, and an update is confirmed, only on a device that will
\* boot again (frontend-session: "Failure with an unverified restore must not
\* trigger a reboot or trial confirmation").
SessionBoots == pc = "session" => Boots

\* The marker says what the card holds: a recorded installation or rollback
\* was verified, and nothing has changed it since (docs/12: "complete contains
\* installed, already-installed, rolled-back, ...").
MarkTellsPair ==
  /\ mark \in {"installed", "already"} => pair = All("gzip")
  /\ mark = "rolled-back" => pair = All("original")

\* Once there is a marker the firmware is not written again (docs/12: "markers
\* intentionally prevent repeated firmware writes").
WrittenOnce == [][mark # "none" => pair' = pair]_vars

\* A session is stopped for good only when the restore could not be verified
\* (docs/12: "unusable backups/space leave the original pair untouched and
\* record a skipped result").
BlockedMeansBroken == pc = "blocked" => ~Boots

=============================================================================
