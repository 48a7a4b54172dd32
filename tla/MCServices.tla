------------------------------- MODULE MCServices -------------------------------
(***************************************************************************)
(* The scripts beside the update: the migration of the boot pair and the   *)
(* two background services.  They share nothing, so a behaviour is about   *)
(* one of them.  Services go on while they are not blocked; DHCP events,   *)
(* commands, reboots and the death of an ntpd need not happen.             *)
(***************************************************************************)
EXTENDS BootMigrate, NtpSupervisor, Mdns

VARIABLE subject

\* The ones a behaviour is not about are left alone, in one initial state.
ServicesInit ==
  /\ subject \in {"migrate", "ntp", "mdns"} /\ Init /\ NtpInit /\ MdnsInit
  /\ subject # "migrate" => pair = All("original")
  /\ subject # "ntp" => ~enabled
  /\ subject # "mdns" => allowed

Migrate(A) == subject = "migrate" /\ A /\ UNCHANGED <<subject, ntpVars, mdnsVars>>

Ntp(A) == subject = "ntp" /\ A /\ UNCHANGED <<subject, vars, mdnsVars>>

Dns(A) == subject = "mdns" /\ A /\ UNCHANGED <<subject, vars, ntpVars>>

ServicesNext == Migrate(Next) \/ Ntp(NtpNext) \/ Dns(MdnsNext)

servicesVars == <<subject, vars, ntpVars, mdnsVars>>

ServicesSpec ==
  /\ ServicesInit /\ [][ServicesNext]_servicesVars
  /\ \A p \in Supervisors : WF_servicesVars(Ntp(SupervisorStep(p)))
  /\ WF_servicesVars(Ntp(CommandStep))
  /\ \A w \in Workers : WF_servicesVars(Dns(WorkerStep(w)))
  /\ WF_servicesVars(Dns(ScriptStep))

=============================================================================
