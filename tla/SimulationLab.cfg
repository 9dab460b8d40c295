CONSTANTS
  Last = 2
  Attempts = 2
  MaxRuns = 2
  Runners = {w1, w2}
  Fetches = {f1}
SPECIFICATION FairSpec
INVARIANTS TypeOK OneRunner
PROPERTIES VerdictOfOwnRun LabSettles
