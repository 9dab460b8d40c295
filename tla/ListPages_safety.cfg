CONSTANTS
  Rows = {r1, r2}
  Filters = {all, f}
  Default = all
  Calls = {c1, c2}
  EffectRuns = 2
  None = None
SPECIFICATION Spec
SYMMETRY RowSymmetry
INVARIANTS TypeOK FormOnce DisabledRowBusy SpinnerHasLoad QuietPageIsCurrent
PROPERTIES ReadYourAction
