----------------------------- MODULE ServicesProof -----------------------------
(***************************************************************************)
(* The background services, for any number of shells that run at the same  *)
(* time.                                                                   *)
(***************************************************************************)
EXTENDS NtpSupervisor, Mdns, TLAPS

-----------------------------------------------------------------------------
(* Mdns: the lock is held by one worker at a time, and what it has found   *)
(* out about the daemon still holds when it acts.                          *)

Inside == {"look", "start", "kill", "exit"}

\* The inductive invariant: whoever is inside holds the lock alone, and the
\* daemon is as the holder has seen it.
LockInv ==
  /\ daemons \in {0, 1}
  /\ worker \in [Workers -> {"none", "lock"} \union Inside]
  /\ \A w \in Workers : worker[w] \in Inside => holders = {w}
  /\ \A w \in Workers : worker[w] = "start" => daemons = 0
  /\ \A w \in Workers : worker[w] = "kill" => daemons = 1

\* What the lock protects is true at first and stays true.
LEMMA LockInvInit == MdnsInit => LockInv
BY SMT DEF MdnsInit, LockInv, Inside

\* Every step of a worker or of the script keeps the lock with one worker.
LEMMA LockInvStep == LockInv /\ [MdnsNext]_mdnsVars => LockInv'
<1> SUFFICES ASSUME LockInv, [MdnsNext]_mdnsVars PROVE LockInv'
  OBVIOUS
<1> USE DEF LockInv, Inside
<1>1. CASE Deconfig \/ Lease \/ AddAddress
  BY <1>1, SMT DEF Deconfig, Lease, AddAddress
<1>2. CASE SpawnWorker
  BY <1>2, SMT DEF SpawnWorker, Free
<1>3. ASSUME NEW w \in Workers, Take(w) PROVE LockInv'
  BY <1>3, SMT DEF Take
<1>4. ASSUME NEW w \in Workers, Look(w) PROVE LockInv'
  BY <1>4, SMT DEF Look
<1>5. ASSUME NEW w \in Workers, StartAvahi(w) PROVE LockInv'
  BY <1>5, SMT DEF StartAvahi
<1>6. ASSUME NEW w \in Workers, KillAvahi(w) PROVE LockInv'
  BY <1>6, SMT DEF KillAvahi
<1>7. ASSUME NEW w \in Workers, Exit(w) PROVE LockInv'
  BY <1>7, SMT DEF Exit
<1>8. CASE UNCHANGED mdnsVars
  BY <1>8, SMT DEF mdnsVars
<1> QED
  BY <1>1, <1>2, <1>3, <1>4, <1>5, <1>6, <1>7, <1>8 DEF MdnsNext, ScriptStep, WorkerStep

\* There is never a second daemon, however many DHCP events overlap.
THEOREM NeverTwoDaemons == MdnsSpec => []OneDaemon
<1>1. LockInv => OneDaemon
  BY SMT DEF LockInv, OneDaemon
<1> QED
  BY <1>1, LockInvInit, LockInvStep, PTL DEF MdnsSpec

-----------------------------------------------------------------------------
(* NtpSupervisor: one supervisor in its loop.                              *)

Places ==
  {"off", "run", "lock", "check", "rm", "rmdir", "mkdir", "write", "trap"}
    \union InLoop \union Stopping

Commands == {"ready", "start", "stop", "kill", "stop rm", "stop rmdir"}

NtpTypeOK ==
  /\ enabled \in BOOLEAN /\ lock \in BOOLEAN
  /\ pidFile \in Supervisors \union {0}
  /\ at \in [Supervisors -> Places]
  /\ term \in [Supervisors -> BOOLEAN] /\ child \in [Supervisors -> BOOLEAN]
  /\ stray \in BOOLEAN
  /\ command \in Commands

\* A shell on its way to the lock, and one that has gone beyond the check.
Young == {"run", "lock", "check"}

New(p) == at[p] \in Young \union {"rm", "rmdir", "mkdir", "write", "trap"}

\* A supervisor whose pid is still in the file, unless a stop has removed it.
Established(p) == at[p] \in InLoop \union {"stop child", "stop pid"}

Owns(p) == lock /\ pidFile = p

\* There are never more than an established supervisor and a newcomer.
FewInv ==
  /\ \A p, q, r \in Supervisors :
       at[p] # "off" /\ at[q] # "off" /\ at[r] # "off" => p = q \/ q = r \/ p = r
  /\ \A p, q \in Supervisors : New(p) /\ New(q) => p = q
  /\ \A p, q \in Supervisors : Established(p) /\ Established(q) => p = q

\* A newcomer that meets an established supervisor finds its lock and its pid.
MeetInv ==
  \A p, q \in Supervisors : New(q) /\ Established(p) =>
    at[q] \in Young /\ Owns(p) /\ command \notin {"stop rm", "stop rmdir"}

\* While synchronisation is on nobody stops, and whoever runs owns the lock.
EnabledInv ==
  enabled =>
    /\ command \in {"start", "ready"}
    /\ \A p \in Supervisors :
         /\ ~term[p] /\ at[p] \notin Stopping
         /\ at[p] = "write" => lock
         /\ at[p] \in InLoop \union {"trap"} => Owns(p)
         /\ command = "start" => at[p] \in InLoop \union {"off"}

NtpInv == NtpTypeOK /\ FewInv /\ MeetInv /\ EnabledInv

\* Nothing runs at first, nor after a reboot.
LEMMA NtpAtRest ==
  ASSUME NtpTypeOK, \A p \in Supervisors : at[p] = "off" /\ ~term[p],
         command = "start"
  PROVE  NtpInv
BY DEF NtpInv, FewInv, MeetInv, EnabledInv, New, Young, Established, InLoop, Trapping, Stopping

\* Types of the variables are kept by every step.
LEMMA NtpTypeStep ==
  ASSUME NtpTypeOK, [NtpNext]_ntpVars
  PROVE  NtpTypeOK'
<1> USE NtpAssumption DEF NtpTypeOK, Places, Commands, InLoop, Trapping, Stopping, Goto
<1>1. ASSUME NEW p \in Supervisors, SupervisorStep(p)
      PROVE  NtpTypeOK'
  <2>1. CASE Begin(p) \/ Mkdir(p) \/ CheckOld(p) \/ RmOld(p) \/ RmdirOld(p)
               \/ WritePid(p) \/ SetTrap(p)
    BY <2>1 DEF Begin, Mkdir, CheckOld, RmOld, RmdirOld, WritePid, SetTrap
  <2>2. CASE Loop(p) \/ ForkNtpd(p) \/ NotePid(p) \/ WaitEnds(p) \/ Again(p)
               \/ SleepEnds(p)
    BY <2>2 DEF Loop, ForkNtpd, NotePid, WaitEnds, Again, SleepEnds
  <2>4. CASE Trapped(p) \/ Killed(p)
    BY <2>4 DEF Trapped, Killed
  <2>3. CASE StopChild(p) \/ StopPid(p) \/ StopLock(p)
    BY <2>3 DEF StopChild, StopPid, StopLock
  <2> QED
    BY <1>1, <2>1, <2>2, <2>3, <2>4 DEF SupervisorStep
<1>2. CASE CommandStep
  <2>1. CASE StartSupervisor
    BY <2>1 DEF StartSupervisor
  <2>2. CASE StopRead \/ StopRm \/ StopRmdir
    BY <2>2 DEF StopRead, StopRm, StopRmdir
  <2>3. CASE StopKill
    BY <2>3 DEF StopKill
  <2> QED
    BY <1>2, <2>1, <2>2, <2>3 DEF CommandStep
<1>3. CASE SetYes \/ SetNo \/ NtpdExits
  BY <1>3 DEF SetYes, SetNo, NtpdExits
<1>4. CASE Reboot
  BY <1>4 DEF Reboot
<1>5. CASE UNCHANGED ntpVars
  BY <1>5 DEF ntpVars
<1> QED
  BY <1>1, <1>2, <1>3, <1>4, <1>5 DEF NtpNext

\* What a supervisor's step does to the others, and where it may lead.
Moves(s, place) ==
  /\ at' = [at EXCEPT ![s] = place] /\ UNCHANGED <<enabled, command>>
  /\ place \in Places
  /\ at[s] = "off" => place = "off" /\ UNCHANGED <<lock, pidFile>>
  /\ place \in Young \union {"rm", "rmdir", "mkdir", "write", "trap"} => New(s)
  /\ place \in InLoop \union {"stop child", "stop pid"} => Established(s) \/ at[s] = "trap"

LEMMA OthersStay ==
  ASSUME NtpTypeOK, NEW s \in Supervisors, NEW place, Moves(s, place)
  PROVE  /\ at'[s] = place
         /\ \A q \in Supervisors : q # s => at'[q] = at[q]
         /\ \A q \in Supervisors : q # s => (New(q)' <=> New(q))
         /\ \A q \in Supervisors : q # s => (Established(q)' <=> Established(q))
         /\ New(s)' => New(s)
         /\ Established(s)' => Established(s) \/ at[s] = "trap"
<1>1. at'[s] = place /\ \A q \in Supervisors : q # s => at'[q] = at[q]
  BY DEF Moves, NtpTypeOK
<1> QED
  BY <1>1 DEF Moves, New, Established, Young

\* One that waits at its trap is new, and past the check.
LEMMA PlaceFacts ==
  ASSUME NEW s \in Supervisors
  PROVE  /\ New(s) => at[s] # "off" /\ ~Established(s)
         /\ Established(s) => at[s] # "off"
         /\ at[s] \in {"rm", "rmdir", "mkdir", "write", "trap"} =>
              New(s) /\ at[s] \notin Young
BY DEF New, Young, Established, InLoop, Trapping

\* No step of a supervisor brings a second newcomer or a second established one.
LEMMA FewMove ==
  ASSUME NtpInv, NEW s \in Supervisors, NEW place, Moves(s, place)
  PROVE  FewInv'
<1> DEFINE On(q) == at[q] # "off"
<1>1. \A q \in Supervisors : at'[q] # "off" => On(q)
  BY OthersStay DEF NtpInv, Moves
<1>2. \A q \in Supervisors : New(q)' => New(q)
  BY OthersStay DEF NtpInv
<1>3. ASSUME NEW p \in Supervisors, NEW q \in Supervisors,
             Established(p)', Established(q)', p # q
      PROVE  FALSE
  <2>1. CASE p # s /\ q # s
    BY <1>3, <2>1, OthersStay DEF NtpInv, FewInv
  <2>2. ASSUME NEW r \in Supervisors, r # s, Established(r)', Established(s)'
        PROVE  FALSE
    <3>1. Established(r) /\ (Established(s) \/ at[s] = "trap")
      BY <2>2, OthersStay DEF NtpInv
    <3>2. at[s] = "trap"
      BY <2>2, <3>1 DEF NtpInv, FewInv
    <3> QED
      BY <3>1, <3>2, PlaceFacts DEF NtpInv, MeetInv
  <2> QED
    BY <1>3, <2>1, <2>2
<1> QED
  BY <1>1, <1>2, <1>3 DEF NtpInv, FewInv

\* A newcomer still meets the lock and the pid of an established supervisor.
LEMMA MeetMove ==
  ASSUME NtpInv, NEW s \in Supervisors, NEW place, Moves(s, place),
         Established(s) /\ Established(s)' => UNCHANGED <<lock, pidFile>>,
         \A p \in Supervisors :
           p # s /\ at[s] \in Young /\ Established(p) /\ Owns(p) /\ New(s)'
             => place \in Young /\ Owns(p)'
  PROVE  MeetInv'
<1> SUFFICES ASSUME NEW p \in Supervisors, NEW q \in Supervisors,
                    New(q)', Established(p)'
             PROVE  at'[q] \in Young /\ Owns(p)' /\ command' \notin {"stop rm", "stop rmdir"}
  BY DEF MeetInv, Young
<1>1. p # q
  BY DEF New, Established, Young, InLoop, Trapping
<1>2. CASE p # s /\ q # s
  <2>1. New(q) /\ Established(p)
    BY <1>2, OthersStay DEF NtpInv
  <2>2. at[s] = "off"
    BY <1>1, <1>2, <2>1, PlaceFacts DEF NtpInv, FewInv
  <2>3. at[q] \in Young /\ Owns(p) /\ command \notin {"stop rm", "stop rmdir"}
    BY <2>1 DEF NtpInv, MeetInv
  <2> QED
    BY <1>2, <2>2, <2>3, OthersStay DEF NtpInv, Moves, Owns
<1>3. CASE q = s
  <2>1. New(s) /\ Established(p)
    BY <1>1, <1>3, OthersStay DEF NtpInv
  <2>2. at[s] \in Young /\ Owns(p) /\ command \notin {"stop rm", "stop rmdir"}
    BY <2>1 DEF NtpInv, MeetInv
  <2> QED
    BY <1>1, <1>3, <2>1, <2>2, OthersStay DEF NtpInv, Moves
<1>4. CASE p = s
  <2>1. New(q) /\ (Established(s) \/ at[s] = "trap")
    BY <1>1, <1>4, OthersStay DEF NtpInv
  <2>2. Established(s)
    BY <1>1, <1>4, <2>1, PlaceFacts DEF NtpInv, FewInv
  <2>3. at[q] \in Young /\ Owns(s) /\ command \notin {"stop rm", "stop rmdir"}
    BY <2>1, <2>2 DEF NtpInv, MeetInv
  <2> QED
    BY <1>1, <1>4, <2>2, <2>3, OthersStay DEF NtpInv, Moves, Owns
<1> QED
  BY <1>2, <1>3, <1>4

\* With synchronisation on, the one that moves keeps what it owns, and takes
\* nothing from the others.
LEMMA EnabledMove ==
  ASSUME NtpInv, NEW s \in Supervisors, NEW place, Moves(s, place),
         \A q \in Supervisors : term[q] = FALSE => term'[q] = FALSE,
         enabled =>
           /\ \/ UNCHANGED <<lock, pidFile>>
              \/ lock' /\ UNCHANGED pidFile
              \/ New(s) /\ at[s] \notin Young
           /\ command # "start" \/ at[s] \in InLoop
           /\ place \notin Stopping
           /\ place = "write" => lock'
           /\ place \in InLoop \union {"trap"} => Owns(s)'
           /\ at[s] \in InLoop => place \in InLoop \union {"off"}
  PROVE  EnabledInv'
<1> SUFFICES ASSUME enabled PROVE EnabledInv'
  BY DEF EnabledInv, Moves
<1>1. command' \in {"start", "ready"} /\ command' = command
  BY DEF NtpInv, EnabledInv, Moves
<1>2. ASSUME NEW q \in Supervisors, q # s
      PROVE  /\ ~term'[q] /\ at'[q] \notin Stopping
             /\ at'[q] = "write" => lock'
             /\ at'[q] \in InLoop \union {"trap"} => Owns(q)'
             /\ command' = "start" => at'[q] \in InLoop \union {"off"}
  <2>1. at'[q] = at[q]
    BY <1>2, OthersStay DEF NtpInv
  <2>2. /\ ~term[q] /\ at[q] \notin Stopping
        /\ at[q] = "write" => lock
        /\ at[q] \in InLoop \union {"trap"} => Owns(q)
        /\ command = "start" => at[q] \in InLoop \union {"off"}
    BY DEF NtpInv, EnabledInv
  <2>3. CASE New(s) /\ at[s] \notin Young
    <3>1. ~New(q) /\ ~Established(q)
      BY <1>2, <2>3 DEF NtpInv, FewInv, MeetInv
    <3>2. at[q] # "write" /\ at[q] \notin InLoop \union {"trap"}
      BY <3>1 DEF New, Established
    <3> QED
      BY <1>1, <2>1, <2>2, <3>2 DEF NtpInv, NtpTypeOK
  <2>4. CASE lock' = lock /\ pidFile' = pidFile
    BY <1>1, <2>1, <2>2, <2>4 DEF Owns, NtpInv, NtpTypeOK
  <2>5. CASE lock' /\ pidFile' = pidFile
    BY <1>1, <2>1, <2>2, <2>5 DEF Owns, NtpInv, NtpTypeOK
  <2> QED
    BY <2>3, <2>4, <2>5
<1>3. /\ ~term'[s] /\ at'[s] \notin Stopping
      /\ at'[s] = "write" => lock'
      /\ at'[s] \in InLoop \union {"trap"} => Owns(s)'
      /\ command' = "start" => at'[s] \in InLoop \union {"off"}
  <2>1. at'[s] = place
    BY OthersStay DEF NtpInv
  <2>2. ~term[s]
    BY DEF NtpInv, EnabledInv
  <2> QED
    BY <1>1, <2>1, <2>2 DEF NtpInv, NtpTypeOK
<1> QED
  BY <1>1, <1>2, <1>3 DEF EnabledInv

\* The steps of one supervisor keep the three parts.
LEMMA NtpSupervisorKeeps ==
  ASSUME NtpInv, NEW s \in Supervisors, SupervisorStep(s)
  PROVE  FewInv' /\ MeetInv' /\ EnabledInv'
<1> DEFINE place == at'[s]
<1> SUFFICES
      /\ Moves(s, place)
      /\ Established(s) /\ Established(s)' => UNCHANGED <<lock, pidFile>>
      /\ \A p \in Supervisors :
           p # s /\ at[s] \in Young /\ Established(p) /\ Owns(p) /\ New(s)'
             => place \in Young /\ Owns(p)'
      /\ \A q \in Supervisors : term[q] = FALSE => term'[q] = FALSE
      /\ enabled =>
           /\ \/ UNCHANGED <<lock, pidFile>>
              \/ lock' /\ UNCHANGED pidFile
              \/ New(s) /\ at[s] \notin Young
           /\ command # "start" \/ at[s] \in InLoop
           /\ place \notin Stopping
           /\ place = "write" => lock'
           /\ place \in InLoop \union {"trap"} => Owns(s)'
           /\ at[s] \in InLoop => place \in InLoop \union {"off"}
  BY FewMove, MeetMove, EnabledMove
<1>0. /\ s # 0 /\ NtpTypeOK
      /\ enabled => /\ ~term[s] /\ at[s] \notin Stopping
                    /\ at[s] = "write" => lock
                    /\ at[s] \in InLoop \union {"trap"} => Owns(s)
                    /\ command = "start" => at[s] \in InLoop \union {"off"}
  BY NtpAssumption DEF NtpInv, EnabledInv
<1> HIDE DEF NtpInv
<1> USE DEF NtpTypeOK, Moves, Places, New, Young, Established, Owns, InLoop, Trapping,
       Stopping, Goto
<1>1. CASE Begin(s)
  BY <1>0, <1>1 DEF Begin
<1>2. CASE Mkdir(s)
  <2>1. CASE lock
    BY <1>0, <1>2, <2>1 DEF Mkdir
  <2>2. CASE ~lock
    BY <1>0, <1>2, <2>2 DEF Mkdir
  <2> QED
    BY <2>1, <2>2
<1>3. CASE CheckOld(s)
  BY <1>0, <1>3, NtpAssumption DEF CheckOld, Managed
<1>4. CASE RmOld(s)
  BY <1>0, <1>4 DEF RmOld
<1>5. CASE RmdirOld(s)
  BY <1>0, <1>5 DEF RmdirOld
<1>6. CASE WritePid(s)
  BY <1>0, <1>6 DEF WritePid
<1>7. CASE SetTrap(s)
  BY <1>0, <1>7 DEF SetTrap
<1>8. CASE Loop(s) \/ ForkNtpd(s)
  BY <1>0, <1>8 DEF Loop, ForkNtpd
<1>9. CASE NotePid(s) \/ WaitEnds(s) \/ Again(s)
  BY <1>0, <1>9 DEF NotePid, WaitEnds, Again
<1>10. CASE SleepEnds(s)
  BY <1>0, <1>10 DEF SleepEnds
<1>11. CASE Trapped(s)
  BY <1>0, <1>11 DEF Trapped
<1>12. CASE Killed(s)
  BY <1>0, <1>12 DEF Killed
<1>13. CASE StopChild(s)
  BY <1>0, <1>13 DEF StopChild
<1>14. CASE StopPid(s)
  BY <1>0, <1>14 DEF StopPid
<1>15. CASE StopLock(s)
  BY <1>0, <1>15 DEF StopLock
<1> QED
  BY <1>1, <1>2, <1>3, <1>4, <1>5, <1>6, <1>7, <1>8, <1>9, <1>10, <1>11, <1>12,
     <1>13, <1>14, <1>15 DEF SupervisorStep

\* So do commands of a patient user, and timedatectl's own steps.
LEMMA NtpCommandKeeps ==
  ASSUME Patient, NtpInv, NtpTypeOK', CommandStep \/ SetYes \/ SetNo \/ NtpdExits
  PROVE  FewInv' /\ MeetInv' /\ EnabledInv'
<1>1. CASE StartSupervisor
  <2>1. CASE enabled
    <3>1. PICK s \in Supervisors : at[s] = "off" /\ Goto(s, "run")
      BY <1>1, <2>1 DEF StartSupervisor
    <3>2. \A p \in Supervisors : p # s => at'[p] = at[p]
      BY <3>1 DEF Goto, NtpInv, NtpTypeOK
    <3>3. at'[s] = "run"
      BY <3>1 DEF Goto, NtpInv, NtpTypeOK
    <3>4. UNCHANGED <<enabled, lock, pidFile, term>> /\ command' = "ready"
      BY <1>1 DEF StartSupervisor
    <3>5. \A p \in Supervisors :
            /\ ~term[p] /\ at[p] \in InLoop \union {"off"}
            /\ at[p] \in InLoop => Owns(p)
      BY <1>1, <2>1 DEF StartSupervisor, NtpInv, EnabledInv
    <3>6. \A p, q \in Supervisors : at[p] \in InLoop /\ at[q] \in InLoop => p = q
      BY DEF NtpInv, FewInv, Established
    <3>7. \A p \in Supervisors : New(p)' => p = s
      BY <3>2, <3>3, <3>5 DEF New, Young, InLoop, Trapping
    <3>8. \A p \in Supervisors : Established(p)' => p # s /\ at[p] \in InLoop
      BY <3>2, <3>3, <3>5 DEF Established, InLoop, Trapping
    <3>9. FewInv'
      BY <3>2, <3>5, <3>6, <3>7, <3>8 DEF FewInv
    <3>10. MeetInv'
      BY <3>3, <3>4, <3>5, <3>7, <3>8 DEF MeetInv, Young, Owns
    <3>11. EnabledInv'
      BY <3>2, <3>3, <3>4, <3>5 DEF EnabledInv, Owns, InLoop, Trapping, Stopping
    <3> QED
      BY <3>9, <3>10, <3>11
  <2>2. CASE ~enabled
    BY <1>1, <2>2 DEF StartSupervisor, NtpInv, FewInv, MeetInv, EnabledInv, New,
       Established, Owns
  <2> QED
    BY <2>1, <2>2
<1>2. ASSUME UNCHANGED at
      PROVE  FewInv'
  BY <1>2 DEF NtpInv, FewInv, New, Established
<1>3. CASE StopRead
  <2>1. UNCHANGED <<enabled, lock, pidFile, at, term>> /\ ~enabled
    BY <1>3 DEF StopRead, NtpInv, EnabledInv
  <2>2. ASSUME NEW p \in Supervisors, NEW q \in Supervisors,
               New(q), Established(p)
        PROVE  at[q] \in Young /\ Owns(p) /\ command' \notin {"stop rm", "stop rmdir"}
    <3>1. at[q] \in Young /\ Owns(p)
      BY <2>2 DEF NtpInv, MeetInv
    <3>2. Managed(pidFile)
      BY <2>2, <3>1, NtpAssumption DEF Managed, Owns, Established, InLoop, Trapping
    <3> QED
      BY <1>3, <3>1, <3>2 DEF StopRead
  <2>3. MeetInv'
    BY <2>1, <2>2 DEF MeetInv, New, Established, Owns
  <2> QED
    BY <1>2, <2>1, <2>3 DEF EnabledInv
<1>4. CASE StopKill \/ SetNo
  <2>1. UNCHANGED <<lock, pidFile, at>> /\ ~enabled'
    BY <1>4 DEF StopKill, SetNo, NtpInv, EnabledInv
  <2>2. command' \notin {"stop rm", "stop rmdir"}
    BY <1>4 DEF StopKill, SetNo
  <2>3. MeetInv'
    BY <2>1, <2>2 DEF NtpInv, MeetInv, New, Established, Owns
  <2> QED
    BY <1>2, <2>1, <2>3 DEF EnabledInv
<1>5. CASE StopRm \/ StopRmdir
  <2>1. UNCHANGED <<enabled, at>> /\ command \in {"stop rm", "stop rmdir"}
    BY <1>5 DEF StopRm, StopRmdir
  <2>2. ~enabled /\ \A p, q \in Supervisors : ~(New(q) /\ Established(p))
    BY <2>1 DEF NtpInv, EnabledInv, MeetInv
  <2>3. MeetInv'
    BY <2>1, <2>2 DEF MeetInv, New, Established
  <2> QED
    BY <1>2, <2>1, <2>2, <2>3 DEF EnabledInv
<1>6. CASE SetYes
  <2>1. UNCHANGED <<lock, pidFile, at, term>> /\ command' = "start" /\ Settled
    BY <1>6, Patient DEF SetYes
  <2>2. \A p \in Supervisors :
          ~term[p] /\ (at[p] = "off" \/ (enabled /\ at[p] \in InLoop))
    BY <2>1 DEF Settled
  <2>3. \A p \in Supervisors : ~New(p)
    BY <2>2 DEF New, Young, InLoop, Trapping
  <2>4. MeetInv'
    BY <2>1, <2>3 DEF MeetInv, New
  <2>5. EnabledInv'
    BY <2>1, <2>2 DEF NtpInv, EnabledInv, Owns, InLoop, Trapping, Stopping
  <2> QED
    BY <1>2, <2>1, <2>4, <2>5
<1>7. CASE NtpdExits
  <2>1. UNCHANGED <<enabled, lock, pidFile, at, term, command>>
    BY <1>7 DEF NtpdExits
  <2> QED
    BY <1>2, <1>7, <2>1 DEF NtpInv, MeetInv, EnabledInv, New, Established, Owns
<1> QED
  BY <1>1, <1>3, <1>4, <1>5, <1>6, <1>7 DEF CommandStep

\* The invariant holds at first and is kept by every step.
LEMMA NtpInvariant ==
  ASSUME Patient
  PROVE  NtpSpec => []NtpInv
<1>1. NtpInit => NtpInv
  <2> SUFFICES ASSUME NtpInit PROVE NtpInv
    OBVIOUS
  <2>1. NtpTypeOK
    BY DEF NtpInit, NtpTypeOK, Places, Commands
  <2> QED
    BY <2>1, NtpAtRest DEF NtpInit
<1>2. NtpInv /\ [NtpNext]_ntpVars => NtpInv'
  <2> SUFFICES ASSUME NtpInv, [NtpNext]_ntpVars PROVE NtpInv'
    OBVIOUS
  <2>1. NtpTypeOK'
    BY NtpTypeStep DEF NtpInv
  <2>2. ASSUME NEW p \in Supervisors, SupervisorStep(p)
        PROVE  NtpInv'
    BY <2>1, <2>2, NtpSupervisorKeeps DEF NtpInv
  <2>3. CASE CommandStep \/ SetYes \/ SetNo \/ NtpdExits
    BY <2>1, <2>3, Patient, NtpCommandKeeps DEF NtpInv
  <2>4. CASE Reboot
    BY <2>1, <2>4 DEF Reboot, NtpInv, FewInv, MeetInv, EnabledInv, New, Young,
       Established, InLoop, Trapping, Stopping
  <2>5. CASE UNCHANGED ntpVars
    BY <2>1, <2>5 DEF ntpVars, NtpInv, NtpTypeOK, FewInv, MeetInv, EnabledInv, New,
       Young, Established, Owns
  <2> QED
    BY <2>2, <2>3, <2>4, <2>5 DEF NtpNext
<1> QED
  BY <1>1, <1>2, PTL DEF NtpSpec

\* However the shells of timedatectl and of the supervisors interleave, and for
\* any number of them, no two supervisors are in their loops, as long as the
\* user lets one command take effect before the next.
THEOREM NeverTwoSupervisors ==
  ASSUME Patient
  PROVE  NtpSpec => []OneSupervisor
<1>1. NtpInv => OneSupervisor
  BY DEF NtpInv, FewInv, OneSupervisor, Established
<1> QED
  BY <1>1, NtpInvariant, PTL

=============================================================================
