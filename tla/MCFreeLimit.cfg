CONSTANTS
  p1 = p1  p2 = p2  p3 = p3
  r1 = r1  r2 = r2  r3 = r3
  q1 = q1  q2 = q2
  w1 = w1  w2 = w2
  None = None
  Portfolios = {p1, p2}
  Resumes = {r1, r2}
  Requests = {q1, q2}
  Workers = {w1}
  Templates <- MCTemplates
  FreeTemplates <- MCFreeTemplates
  StoredTemplates <- MCTemplates
  SlugOf <- MCSlugOf
  FreeLimit = 1
  MaxRetries = 0
  MaxCrashes = 0
  MaxPlanChanges = 0
SPECIFICATION Spec
SYMMETRY Symmetry
INVARIANTS FreeLimitHolds
