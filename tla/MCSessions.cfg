CONSTANTS
  tab1 = tab1
  tab2 = tab2
  r1 = r1
  r2 = r2
  k1 = k1
  k2 = k2
  k3 = k3
  None = None
  Tabs = {tab1, tab2}
  Requests = {r1, r2}
  Tokens = {k1, k2, k3}
  Lifetime = 1
  MaxTime = 2
SPECIFICATION Spec
SYMMETRY MCSymmetry
INVARIANT TypeOK BrowserHoldsSession
PROPERTY LiveTokensAreHandedOver SessionsAreContinued
