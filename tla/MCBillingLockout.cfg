CONSTANTS
  h1 = h1  h2 = h2
  k1 = k1
  c1 = c1  c2 = c2
  s1 = s1  s2 = s2
  None = None
  Handlers = {h1}
  Checkouts = {k1}
  Customers = {c1}
  Subs = {s1}
  MaxEvents = 2
  MaxFaults = 1
SPECIFICATION Spec
INVARIANTS KeyMeansDone
