---------------------------------- MODULE Mdns ----------------------------------
(***************************************************************************)
(* udhcpc's script and baseos-mdns: every DHCP event changes the address   *)
(* of wlan0 and then starts a worker in the background; workers take a     *)
(* file lock, look at the interface, and start or kill the Avahi daemon.   *)
(***************************************************************************)
EXTENDS Naturals, FiniteSets

CONSTANT Workers   \* at most so many wait at a time

VARIABLES
  allowed,       \* no mdns=false in the runtime configuration
  address,       \* wlan0 is up and has an address
  script,        \* the step of default.script
  worker,        \* what each baseos-mdns is at
  holders,       \* processes that hold the lock
  daemons,       \* Avahi daemons, running
  failed         \* a start of Avahi has failed since the last DHCP event

mdnsVars == <<allowed, address, script, worker, holders, daemons, failed>>

MdnsInit ==
  /\ allowed \in BOOLEAN /\ address = FALSE /\ script = "wait"
  /\ worker = [w \in Workers |-> "none"] /\ holders = {} /\ daemons = 0
  /\ failed = FALSE

Free == {w \in Workers : worker[w] = "none"}

\* deconfig, bound and renew flush the address, the last two add one.
Deconfig ==
  /\ script = "wait" /\ Free # {}
  /\ address' = FALSE /\ failed' = FALSE /\ script' = "spawn"
  /\ UNCHANGED <<allowed, worker, holders, daemons>>

Lease ==
  /\ script = "wait" /\ Free # {}
  /\ address' = FALSE /\ failed' = FALSE /\ script' = "add"
  /\ UNCHANGED <<allowed, worker, holders, daemons>>

AddAddress ==
  /\ script = "add"
  /\ address' = TRUE /\ script' = "spawn"
  /\ UNCHANGED <<allowed, worker, holders, daemons, failed>>

\* A slip of SpawnWorker: deconfig starts none.
SlipSpawnWorker ==
  /\ script = "spawn" /\ script' = "wait"
  /\ IF address THEN \E w \in Free : worker' = [worker EXCEPT ![w] = "lock"]
                ELSE UNCHANGED worker
  /\ UNCHANGED <<allowed, address, holders, daemons, failed>>

SpawnWorker ==
  /\ script = "spawn" /\ script' = "wait"
  /\ \E w \in Free : worker' = [worker EXCEPT ![w] = "lock"]
  /\ UNCHANGED <<allowed, address, holders, daemons, failed>>

\* A slip of Take: the lock is not waited for.
SlipTake(w) ==
  /\ worker[w] = "lock"
  /\ holders' = holders \union {w}
  /\ worker' = [worker EXCEPT ![w] = "look"]
  /\ UNCHANGED <<allowed, address, script, daemons, failed>>

\* flock -x
Take(w) ==
  /\ worker[w] = "lock" /\ holders = {}
  /\ holders' = {w}
  /\ worker' = [worker EXCEPT ![w] = "look"]
  /\ UNCHANGED <<allowed, address, script, daemons, failed>>

\* The current state decides, then --check: nothing to do, start or kill.
Look(w) ==
  /\ worker[w] = "look"
  /\ worker' = [worker EXCEPT ![w] =
       IF allowed /\ address THEN IF daemons > 0 THEN "exit" ELSE "start"
       ELSE IF daemons = 0 THEN "exit" ELSE "kill"]
  /\ UNCHANGED <<allowed, address, script, holders, daemons, failed>>

\* --daemonize returns when the daemon is up, without the lock, or has failed.
StartAvahi(w) ==
  /\ worker[w] = "start"
  /\ \/ daemons' = daemons + 1 /\ failed' = FALSE
     \/ failed' = TRUE /\ UNCHANGED daemons
  /\ worker' = [worker EXCEPT ![w] = "exit"]
  /\ UNCHANGED <<allowed, address, script, holders>>

KillAvahi(w) ==
  /\ worker[w] = "kill" /\ daemons' = IF daemons = 0 THEN 0 ELSE daemons - 1
  /\ worker' = [worker EXCEPT ![w] = "exit"]
  /\ UNCHANGED <<allowed, address, script, holders, failed>>

Exit(w) ==
  /\ worker[w] = "exit"
  /\ holders' = holders \ {w}
  /\ worker' = [worker EXCEPT ![w] = "none"]
  /\ UNCHANGED <<allowed, address, script, daemons, failed>>

WorkerStep(w) == Take(w) \/ Look(w) \/ StartAvahi(w) \/ KillAvahi(w) \/ Exit(w)

ScriptStep == AddAddress \/ SpawnWorker

MdnsNext == Deconfig \/ Lease \/ ScriptStep \/ \E w \in Workers : WorkerStep(w)

MdnsSpec == MdnsInit /\ [][MdnsNext]_mdnsVars

-----------------------------------------------------------------------------
(* Properties. *)

\* Never two daemons, however DHCP events overlap (baseos-mdns: "Serialize
\* overlapping DHCP events through the daemon's startup/exit handshake").
OneDaemon == daemons <= 1

\* The daemon follows the address, also when a worker of an older event is
\* the last one to run (baseos-mdns: "so a delayed deconfig worker cannot stop
\* a newer connection").  A start that fails is tried again at the next event.
DaemonFollowsAddress ==
  /\ (allowed /\ address) ~>
       (~address \/ daemons > 0 \/ (failed /\ Free = Workers))
  /\ ~address ~> (address \/ daemons = 0)

=============================================================================
