SPECIFICATION Spec
CONSTANTS
  f = f
  n1 = n1
  n2 = n2
  Blank = Blank
  Images = {f, n1, n2}
  Factory = f
  Bootable = {f, n1, n2}
  Sound = {f, n2}
  Version <- MCVersion
  Legacy = {}
  MaxTrialBoots = 3
  StopPhases <- OutsideCommit
  Faults = {"lost", "corrupt", "flip"}
  ManualApply = TRUE
  PatientUser = FALSE
PROPERTIES
  RootUntouched
  NoRecommit
