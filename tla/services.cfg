SPECIFICATION ServicesSpec
CONSTANTS
  Faults = {"write", "readback", "state", "unfit"}
  CutPhases <- Phases
  Supervisors = {1, 2, 3}
  Patient = TRUE
  MaxReboots = 1
  Workers = {w1, w2, w3}
INVARIANTS
  TypeOK
  Recoverable
  SessionBoots
  MarkTellsPair
  OneSupervisor
  OneDaemon
PROPERTIES
  WrittenOnce
  DisabledStops
  EnabledRuns
  DaemonFollowsAddress
