SPECIFICATION Spec
CONSTANTS
  f = f
  n1 = n1
  n2 = n2
  Blank = Blank
  Images = {f, n1, n2}
  Factory = f
  Bootable = {f, n1, n2}
  Sound = {f, n1}
  Version <- MCVersion
  Legacy = {}
  MaxTrialBoots = 3
  StopPhases <- OutsideWindows
  Faults = {"corrupt"}
  ManualApply = FALSE
  PatientUser = TRUE
INVARIANTS
  TypeOK
  Protected
  RestoreTargetProven
  TrialBounded
PROPERTIES
  ProvenNotDemoted
  ImplementsABUpdate
