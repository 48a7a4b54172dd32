SPECIFICATION Spec
CONSTANTS
  f = f
  n1 = n1
  n2 = n2
  Blank = Blank
  Images = {f, n1}
  Factory = f
  Bootable = {f, n1}
  Sound = {f}
  Version <- MCVersion
  Legacy = {}
  MaxTrialBoots = 3
  StopPhases <- AllPhases
  Faults = {"lost", "corrupt", "flip", "lateflip", "nodata", "nowrite"}
  ManualApply = TRUE
  PatientUser = FALSE
PROPERTIES
  CommitFlipsToVerified
