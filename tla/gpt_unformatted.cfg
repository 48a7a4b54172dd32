SPECIFICATION Spec
CONSTANTS
  BootEnd = 3
  SlotSectors = 2
  UdiskSectors = 1
  ImageTotal = 18
  CardTotal = 24
  CutPhases <- OnlyFormatting
  Faults = {}
INVARIANTS
  FullMeansFormatted
