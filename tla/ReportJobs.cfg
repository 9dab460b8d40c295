CONSTANTS
  Jobs = {j1, j2}
  MaxFaults = 3
SPECIFICATION FairSpec
INVARIANTS
  TypeOK
  DownloadServesReport
  CompletedErrorOnlyIfRefused
  NoJobForgotten
PROPERTIES
  BoardSpec
  QueuedJobEnds
CHECK_DEADLOCK FALSE
