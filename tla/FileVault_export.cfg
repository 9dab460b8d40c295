CONSTANTS
  Files = {1, 2}
  Threads = {t1}
  Loop = Loop
  MaxFaults = 1
SPECIFICATION FairSpec
PROPERTIES
  ExportConverges
  ListsConverge
