\* Two filters between which a page moves, leaves and returns; one refusal.
SPECIFICATION FairSpec
CONSTANTS
  fa = fa
  fb = fb
  None = None
  Filters = {fa, fb}
  Interval = 2
  Suspend = 2
  MaxBinds = 4
  MaxFails = 1
INVARIANTS
  TypeOK
  ShownFits
PROPERTIES
  PollsAreSpaced
  PollGoesOn
