SPECIFICATION FairSpec
CONSTANTS
  f = f
  n1 = n1
  n2 = n2
  Blank = Blank
  Images = {f, n1, n2}
  Factory = f
  Bootable = {f, n1, n2}
  Sound = {f, n1}
  Version <- MCVersion
  Legacy = {}
  MaxTrialBoots = 3
  StopPhases <- BeforeSession
  Faults = {"lost", "corrupt"}
  ManualApply = FALSE
  PatientUser = TRUE
PROPERTIES
  FlawedIsReplaced
