CONSTANTS
  Files = {1}
  Threads = {t1, t2}
  Loop = Loop
  MaxFaults = 1
SPECIFICATION Spec
SYMMETRY MCSymmetry
INVARIANTS
  TypeOK
  ActiveHasFile
  ServedIsUploaded
  NoFalseAlarm
  OnlyStoredExported
PROPERTIES
  StoreSpec
