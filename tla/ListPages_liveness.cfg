CONSTANTS
  Rows = {r1}
  Filters = {all, f}
  Default = all
  Calls = {c1, c2}
  EffectRuns = 2
  None = None
SPECIFICATION FairSpec
PROPERTIES PageResponds
