CONSTANTS
  t1 = t1
  t2 = t2
  alice = alice
  bob = bob
  Tokens = {t1, t2}
  Calls = {c1, c2}
  Admins = {alice}
  Owner <- MCOwner
  EffectRuns = 2
  None = None
SPECIFICATION FairSpec
INVARIANTS TypeOK SessionWhole OneSubmission
PROPERTIES ForcedOut CheckEnds LogoutEnds
