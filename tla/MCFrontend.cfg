CONSTANTS
  j1 = j1
  None = None
  Jobs = {j1}
  MaxRuns = 2
  Undefined = Undefined
  MaxTimers = 2
  MaxWorks = 2
  MaxBuilt = 2
  MaxPresses = 1
  Clearable = {"project"}
  Asks = {"a1"}
  p1 = p1
  Portfolios = {p1}
  c1 = c1
  c2 = c2
  Calls = {c1, c2}
  u1 = u1
  u2 = u2
  Users = {u1, u2}
  Buyers = {u1}
  Visitor = u1
  r1 = r1
  r2 = r2
  Reads = {r1, r2}
  LatePages = {"upload", "cover-letter"}
SPECIFICATION FrontendSpec
INVARIANTS
  FrontendTypeOK
  VerdictIsEarned
  DeadEndsAreLostSessions
  PassedStepsFilled
  LeftoversAccounted
  ShownIsServer
  PlanShownIsServer
  SecondCheckoutOnlyBeforeWebhook
PROPERTIES
  ProgressNeverFallsBack
  VerdictShown
  ButtonsRecover
