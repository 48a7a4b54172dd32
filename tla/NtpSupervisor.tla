----------------------------- MODULE NtpSupervisor -----------------------------
(***************************************************************************)
(* timedatectl set-ntp and the supervisor it starts and stops, baseos-ntp: *)
(* a lock directory, a pid file, and shells that read and write them step  *)
(* by step.  A TERM kills a shell that has no trap, ends one that waits    *)
(* for its ntpd, and is kept by one that sleeps.                           *)
(***************************************************************************)
EXTENDS Naturals

CONSTANTS
  Supervisors,   \* pids of `baseos-ntp run`, numbers above 0
  Patient,       \* the user lets one command take effect before the next
  MaxReboots

ASSUME NtpAssumption ==
  Supervisors \subseteq Nat \ {0} /\ Patient \in BOOLEAN /\ MaxReboots \in Nat

VARIABLES
  enabled,           \* /data/ntp-enabled
  lock, pidFile,     \* /run/baseos-ntp.lock, and the pid file, 0 without one
  at,                \* where each supervisor is
  term,              \* it has an undelivered TERM
  child,             \* its ntpd runs
  stray,             \* an ntpd runs that no shell knows the pid of
  command, victim,   \* the step of timedatectl, and the pid it has read
  reboots

ntpVars ==
  <<enabled, lock, pidFile, at, term, child, stray, command, victim, reboots>>

NtpInit ==
  /\ enabled \in BOOLEAN /\ lock = FALSE /\ pidFile = 0
  /\ at = [p \in Supervisors |-> "off"]
  /\ term = [p \in Supervisors |-> FALSE] /\ child = [p \in Supervisors |-> FALSE]
  /\ stray = FALSE /\ command = "start" /\ victim = 0 /\ reboots = 0

\* A slip of Managed: any pid in the file is taken for a supervisor's.
SlipManagedAny(pid) == pid # 0

\* A slip of Managed: nothing is.
SlipManagedNone(pid) == pid # 0 /\ at[pid] = "none"

\* managed_pid: alive, and its command line is baseos-ntp's.
Managed(pid) == pid # 0 /\ at[pid] # "off"

Goto(p, place) == at' = [at EXCEPT ![p] = place]

-----------------------------------------------------------------------------
(* run_supervisor *)

Begin(p) ==
  /\ at[p] = "run"
  /\ Goto(p, IF enabled THEN "lock" ELSE "off")
  /\ UNCHANGED <<enabled, lock, pidFile, term, child, stray, command, victim, reboots>>

\* The second mkdir gives up where the first looks at the pid file.
Mkdir(p) ==
  /\ at[p] \in {"lock", "mkdir"}
  /\ lock' = TRUE
  /\ Goto(p, IF ~lock THEN "write" ELSE IF at[p] = "lock" THEN "check" ELSE "off")
  /\ UNCHANGED <<enabled, pidFile, term, child, stray, command, victim, reboots>>

CheckOld(p) ==
  /\ at[p] = "check"
  /\ Goto(p, IF Managed(pidFile) THEN "off" ELSE "rm")
  /\ UNCHANGED <<enabled, lock, pidFile, term, child, stray, command, victim, reboots>>

RmOld(p) ==
  /\ at[p] = "rm"
  /\ pidFile' = 0 /\ Goto(p, "rmdir")
  /\ UNCHANGED <<enabled, lock, term, child, stray, command, victim, reboots>>

RmdirOld(p) ==
  /\ at[p] = "rmdir"
  /\ lock' = FALSE /\ Goto(p, IF lock THEN "mkdir" ELSE "off")
  /\ UNCHANGED <<enabled, pidFile, term, child, stray, command, victim, reboots>>

WritePid(p) ==
  /\ at[p] = "write"
  /\ pidFile' = p /\ Goto(p, "trap")
  /\ UNCHANGED <<enabled, lock, term, child, stray, command, victim, reboots>>

SetTrap(p) ==
  /\ at[p] = "trap" /\ ~term[p]
  /\ Goto(p, "loop")
  /\ UNCHANGED <<enabled, lock, pidFile, term, child, stray, command, victim, reboots>>

Loop(p) ==
  /\ at[p] = "loop" /\ ~term[p]
  /\ Goto(p, IF enabled THEN "network" ELSE "stop pid")
  /\ UNCHANGED <<enabled, lock, pidFile, term, child, stray, command, victim, reboots>>

\* With a route and a name server ntpd is forked; its pid is not noted yet.
ForkNtpd(p) ==
  /\ at[p] = "network" /\ ~term[p]
  /\ \/ Goto(p, "forked") /\ child' = [child EXCEPT ![p] = TRUE]
     \/ Goto(p, "again") /\ UNCHANGED child
  /\ UNCHANGED <<enabled, lock, pidFile, term, stray, command, victim, reboots>>

NotePid(p) ==
  /\ at[p] = "forked" /\ ~term[p]
  /\ Goto(p, "ntpd")
  /\ UNCHANGED <<enabled, lock, pidFile, term, child, stray, command, victim, reboots>>

WaitEnds(p) ==
  /\ at[p] = "ntpd" /\ ~term[p] /\ ~child[p]
  /\ Goto(p, "again")
  /\ UNCHANGED <<enabled, lock, pidFile, term, child, stray, command, victim, reboots>>

Again(p) ==
  /\ at[p] = "again" /\ ~term[p]
  /\ Goto(p, IF enabled THEN "sleep" ELSE "stop pid")
  /\ UNCHANGED <<enabled, lock, pidFile, term, child, stray, command, victim, reboots>>

\* A pending TERM is handled when sleep has ended.
SleepEnds(p) ==
  /\ at[p] = "sleep"
  /\ Goto(p, "loop")
  /\ UNCHANGED <<enabled, lock, pidFile, term, child, stray, command, victim, reboots>>

Trapping == {"loop", "network", "forked", "ntpd", "again"}

\* A slip of Trapped: cleanup leaves ntpd alone.
SlipTrapped(p) ==
  /\ term[p] /\ at[p] \in Trapping
  /\ term' = [term EXCEPT ![p] = FALSE] /\ Goto(p, "stop pid")
  /\ UNCHANGED <<enabled, lock, pidFile, child, stray, command, victim, reboots>>

\* TERM runs cleanup, which can end only an ntpd whose pid has been noted.
Trapped(p) ==
  /\ term[p] /\ at[p] \in Trapping
  /\ term' = [term EXCEPT ![p] = FALSE]
  /\ Goto(p, IF at[p] = "ntpd" THEN "stop child" ELSE "stop pid")
  /\ IF at[p] = "forked"
     THEN child' = [child EXCEPT ![p] = FALSE] /\ stray' = (stray \/ child[p])
     ELSE UNCHANGED <<child, stray>>
  /\ UNCHANGED <<enabled, lock, pidFile, command, victim, reboots>>

\* TERM kills a shell that has no trap, or none any more.
Killed(p) ==
  /\ term[p] /\ at[p] \notin Trapping \union {"sleep"}
  /\ term' = [term EXCEPT ![p] = FALSE] /\ Goto(p, "off")
  /\ UNCHANGED <<enabled, lock, pidFile, child, stray, command, victim, reboots>>

\* cleanup
StopChild(p) ==
  /\ at[p] = "stop child" /\ ~term[p]
  /\ child' = [child EXCEPT ![p] = FALSE] /\ Goto(p, "stop pid")
  /\ UNCHANGED <<enabled, lock, pidFile, term, stray, command, victim, reboots>>

StopPid(p) ==
  /\ at[p] = "stop pid" /\ ~term[p]
  /\ pidFile' = (IF pidFile = p THEN 0 ELSE pidFile) /\ Goto(p, "stop lock")
  /\ UNCHANGED <<enabled, lock, term, child, stray, command, victim, reboots>>

StopLock(p) ==
  /\ at[p] = "stop lock" /\ ~term[p]
  /\ lock' = FALSE /\ Goto(p, "off")
  /\ UNCHANGED <<enabled, pidFile, term, child, stray, command, victim, reboots>>

SupervisorStep(p) ==
  \/ Begin(p) \/ Mkdir(p) \/ CheckOld(p) \/ RmOld(p) \/ RmdirOld(p) \/ WritePid(p)
  \/ SetTrap(p) \/ Loop(p) \/ ForkNtpd(p) \/ NotePid(p) \/ WaitEnds(p) \/ Again(p)
  \/ SleepEnds(p) \/ Trapped(p) \/ Killed(p) \/ StopChild(p) \/ StopPid(p) \/ StopLock(p)

\* An ntpd, known to a shell or not, may end at any time.
NtpdExits ==
  /\ \/ \E p \in Supervisors : child[p] /\ child' = [child EXCEPT ![p] = FALSE]
        /\ UNCHANGED stray
     \/ stray /\ stray' = FALSE /\ UNCHANGED child
  /\ UNCHANGED <<enabled, lock, pidFile, at, term, command, victim, reboots>>

-----------------------------------------------------------------------------
(* timedatectl, and rcS, which runs its apply *)

Stopping == {"stop child", "stop pid", "stop lock"}

InLoop == Trapping \union {"sleep"}

Settled ==
  \A p \in Supervisors : ~term[p] /\ (at[p] = "off" \/ (enabled /\ at[p] \in InLoop))

SetYes ==
  /\ command = "ready" /\ (Patient => Settled)
  /\ enabled' = TRUE /\ command' = "start"
  /\ UNCHANGED <<lock, pidFile, at, term, child, stray, victim, reboots>>

SetNo ==
  /\ command = "ready"
  /\ Patient => \A p \in Supervisors : ~term[p] /\ at[p] \notin Stopping
  /\ enabled' = FALSE /\ command' = "stop"
  /\ UNCHANGED <<lock, pidFile, at, term, child, stray, victim, reboots>>

\* A new shell never gets the pid a stale file names.
StartSupervisor ==
  /\ command = "start" /\ command' = "ready"
  /\ IF enabled
     THEN \E p \in Supervisors : at[p] = "off" /\ ~child[p] /\ p # pidFile /\ Goto(p, "run")
     ELSE UNCHANGED at
  /\ UNCHANGED <<enabled, lock, pidFile, term, child, stray, victim, reboots>>

\* stop_supervisor
StopRead ==
  /\ command = "stop"
  /\ victim' = pidFile /\ command' = IF Managed(pidFile) THEN "kill" ELSE "stop rm"
  /\ UNCHANGED <<enabled, lock, pidFile, at, term, child, stray, reboots>>

StopKill ==
  /\ command = "kill"
  /\ term' = [term EXCEPT ![victim] = at[victim] # "off"]
  /\ command' = "ready" /\ victim' = 0
  /\ UNCHANGED <<enabled, lock, pidFile, at, child, stray, reboots>>

StopRm ==
  /\ command = "stop rm"
  /\ pidFile' = 0 /\ command' = "stop rmdir"
  /\ UNCHANGED <<enabled, lock, at, term, child, stray, victim, reboots>>

StopRmdir ==
  /\ command = "stop rmdir"
  /\ lock' = FALSE /\ command' = "ready" /\ victim' = 0
  /\ UNCHANGED <<enabled, pidFile, at, term, child, stray, reboots>>

CommandStep == StartSupervisor \/ StopRead \/ StopKill \/ StopRm \/ StopRmdir

\* /run is a tmpfs; the processes are gone.
Reboot ==
  /\ reboots < MaxReboots /\ reboots' = reboots + 1
  /\ lock' = FALSE /\ pidFile' = 0
  /\ at' = [p \in Supervisors |-> "off"]
  /\ term' = [p \in Supervisors |-> FALSE] /\ child' = [p \in Supervisors |-> FALSE]
  /\ stray' = FALSE /\ command' = "start" /\ victim' = 0
  /\ UNCHANGED enabled

NtpNext ==
  \/ \E p \in Supervisors : SupervisorStep(p)
  \/ NtpdExits \/ CommandStep \/ SetYes \/ SetNo \/ Reboot

NtpSpec == NtpInit /\ [][NtpNext]_ntpVars

-----------------------------------------------------------------------------
(* Properties. *)

\* No two supervisors are in their loops: a duplicate launch does not get
\* that far (tests/test-baseos-ntp.sh: "A duplicate launch must exit without
\* replacing the active supervisor").
OneSupervisor ==
  \A p, q \in Supervisors : at[p] \in InLoop /\ at[q] \in InLoop => p = q

\* When time synchronisation is switched off, every ntpd whose pid its
\* supervisor has noted ends, wherever that supervisor was when it was told.
DisabledStops == ~enabled ~> (enabled \/ \A p \in Supervisors : ~child[p])

\* The same of every ntpd.  The code does not promise it: cleanup kills
\* $child_pid, and a TERM between the fork and child_pid="$!" finds it empty.
EveryNtpdEnds ==
  ~enabled ~> (enabled \/ (~stray /\ \A p \in Supervisors : ~child[p]))

\* When it is on, some supervisor comes to run, whatever earlier ones have
\* left in /run.
EnabledRuns == enabled ~> (~enabled \/ \E p \in Supervisors : at[p] \in InLoop)

=============================================================================
