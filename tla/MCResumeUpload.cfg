CONSTANTS
  r1 = r1  r2 = r2
  w1 = w1  w2 = w2
  d1 = d1  d2 = d2
  None = None
  Resumes = {r1}
  Workers = {w1, w2}
  Deleters = {d1, d2}
  MaxRetries = 2
  MaxCrashes = 2
SPECIFICATION FairSpec
INVARIANTS TypeOK RowHasFile FileHasRow StallsHaveCauses
PROPERTIES DoneIsStable ImplementsStore ParseSettles
