CONSTANTS
  e1 = e1  e2 = e2
  q1 = q1  q2 = q2  q3 = q3
  None = None
  Endpoints = {e1}
  Requests = {q1, q2}
  Limit = 2
  Window = 3
  MaxLag = 1
  Threshold <- MCThreshold
  Ban <- MCBan
  Blur = 1
  FailsTtl = 3
  MaxTime = 5
  MaxFails = 4
  MaxFaults = 1
SPECIFICATION Spec
SYMMETRY Symmetry
INVARIANTS TypeOK WindowBound BanDoesNotEscalate CounterDecays
