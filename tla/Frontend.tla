------------------------------ MODULE Frontend -------------------------------
(***************************************************************************)
(* The application in one browser tab: its pages under one router and one  *)
(* session.  One page is mounted at a time, so the states of the pages add *)
(* up rather than multiply; what joins them is the route, the pushes that  *)
(* calls of a page already left still make, and the plan above them all.   *)
(***************************************************************************)
EXTENDS JobStatus, UploadFlow, ResumeBuilder, PortfolioPages, DashboardPages, PlanSession

CONSTANTS
  Visitor,    \* bound: the user whose pages are explored
  LatePages   \* bound: pages on which a push left behind is awaited

ASSUME VisitorAssumption == Visitor \in Users
ASSUME LatePagesAssumption == LatePages \subseteq NavTop

otherVars == <<upl, wiz, pageVars, planVars>>
vars == <<shell, jobVars, desktop, otherVars>>

FrontendInit ==
  ShellInit /\ JobInit /\ UplInit /\ WizInit /\ PagesInit /\ DesktopInit /\ PlanInit

\* The pages a step of another page leaves alone; the dashboard is left by
\* whatever changes the route.
DesktopFollows ==
  IF desktop.page # "none" /\ route' # desktop.page
  THEN DesktopClose ELSE UNCHANGED desktop

JobStep == JobNext /\ UNCHANGED <<desktop, upl, wiz, pageVars, planVars>>
UplStep == UplNext /\ UNCHANGED <<desktop, jobVars, wiz, pageVars, planVars>>
WizStep == WizNext /\ UNCHANGED <<desktop, jobVars, upl, pageVars, planVars>>
PagesStep == PagesNext /\ UNCHANGED <<desktop, jobVars, upl, wiz, planVars>>
DesktopStep == DesktopNext /\ UNCHANGED <<jobVars, otherVars>>

\* A bound of the model: the account changes on the pages that have to do
\* with it, and not while another page has left a push behind.
PlanPages ==
  PublicRoutes \cup NavBottom \cup External \cup {"dashboard"}

PlanStep ==
  /\ route \in PlanPages /\ late \in {"none", "checkout"}
  /\ PlanNext
  /\ DesktopFollows /\ UNCHANGED <<jobVars, upl, wiz, pageVars>>

\* A bound of the model: the pages that do not look at the account are
\* explored for one account, which is settled.
AccountAtRest ==
  /\ SignedIn /\ acct.session = Visitor
  /\ ~acct.doubt /\ acct.buyer = "none" /\ acct.asked = "none"
  /\ Refreshing = {} /\ desk = NoDesk
  /\ srv = [tier |-> [u \in Users |-> "free"], awaited |-> {}]

\* "Upgrade to Pro" is shown to whoever is on the free plan.
FollowLink ==
  /\ Follow
  /\ route' = "pricing" => OffersUpgrade
  /\ route' \in PlanPages \/ AccountAtRest
  /\ late \in {"none", "checkout"} \/ route' \in LatePages
  /\ late = "checkout" => route' \in PlanPages \cup LatePages
  /\ DesktopFollows /\ UNCHANGED <<jobVars, otherVars>>

\* What a page left behind pushes its route, whatever is shown by then; for
\* Stripe, once the checkout is created, the whole application is left.
LatePush ==
  /\ late \notin {"none", route} /\ route \notin External
  /\ late = "checkout" => acct.asked = "none"
  /\ route' = late /\ late' = "none"
  /\ JobClose /\ UplClose /\ WizClose /\ PagesClose /\ DesktopClose
  /\ IF late = "checkout" THEN Unload /\ UNCHANGED srv ELSE UNCHANGED planVars

LateEnds ==
  /\ LateSettled
  /\ acct' = IF late = "checkout" THEN Forgotten ELSE acct
  /\ UNCHANGED <<jobVars, desktop, upl, wiz, pageVars, srv, reads, desk>>

FrontendNext ==
  \/ JobStep \/ UplStep \/ WizStep \/ PagesStep \/ DesktopStep \/ PlanStep
  \/ FollowLink \/ LatePush \/ LateEnds

FrontendSpec ==
  /\ FrontendInit /\ [][FrontendNext]_vars
  /\ JobFairness /\ UplFairness /\ WizFairness /\ PagesFairness
  /\ DesktopFairness /\ PlanFairness
-----------------------------------------------------------------------------
\* The page that is mounted is the page of the route.
MountedIsRouted ==
  /\ gen.job # None => route = "generating"
  /\ upl.on => route = "upload"
  /\ wiz.on => route = "build-resume"
  /\ shelf.screen # "none" => route = IF shelf.screen = "list" THEN "portfolios" ELSE "preview"
  /\ desktop.page \in {"none", route}
  /\ desk.page \in {"none", route}

FrontendTypeOK ==
  /\ ShellTypeOK /\ JobTypeOK /\ UplTypeOK /\ WizTypeOK /\ PagesTypeOK
  /\ DesktopTypeOK /\ PlanTypeOK /\ MountedIsRouted

(* Wherever a page waits for nothing and yet shows neither a result nor an *)
(* error, its session was lost: a generation page that polls no more, a    *)
(* preview that stays empty, a billing button that keeps turning.          *)
DeadEndsAreLostSessions ==
  JobNotFrozen /\ BlankPreviewLostSession /\ WaitingButtonLostSession

(* What failed calls leave behind is accounted for: intervals that run on  *)
(* belong to uploads that failed, and a second resume of one wizard to a   *)
(* generation that was refused, to a build whose answer was lost or to a   *)
(* press on a step being left.                                             *)
LeftoversAccounted == TimersAccounted /\ OneResumePerWizard

(* Every button and every page that waits for a call of the browser comes  *)
(* back, unless the billing page has lost its session.                     *)
ButtonsRecover ==
  /\ []<>(~upl.sending /\ upl.zone # "uploading") /\ []<>~wiz.submitting
  /\ []<>~wiz.suggesting /\ []<>~shelf.loading /\ []<>~shelf.publishing
  /\ []<>~desktop.loading /\ []<>~desk.reading /\ []<>(desk.busy = {} \/ desk.lost)
=============================================================================
