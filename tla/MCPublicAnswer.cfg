CONSTANTS
  v1 = v1  v2 = v2
  o1 = o1  o2 = o2
  b1 = b1  b2 = b2
  None = None
  Readers = {v1, v2}
  Owners = {o1}
  Crawlers = {b1}
  MaxGen = 0
  MaxViews = 2
SPECIFICATION Spec
INVARIANTS CountedIsServed
