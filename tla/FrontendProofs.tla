---------------------------- MODULE FrontendProofs ----------------------------
(* Proofs about the application as a whole: each page's invariant is kept by   *)
(* every step of the application, because another page's step leaves it alone  *)
(* or closes it; so what is proved of a page in its own module holds in        *)
(* Frontend, for any number of users, jobs, calls and steps.                   *)
EXTENDS Frontend, PagesProofs, PlanSessionProofs

\* The pages that lead to Stripe are opened when no push is awaited.
DeskAlone == desk.page # "none" => late = "none"

PagesAreApart == MountedIsRouted /\ DeskAlone

AppInv ==
  /\ ShellTypeOK /\ JobInv /\ UplInv /\ WizInv /\ PagesInv /\ DesktopTypeOK /\ PlanInv
  /\ PagesAreApart

DesktopMoves == DesktopNext \/ DesktopClose \/ UNCHANGED desktop

LEMMA DesktopMovesTyped == ASSUME DesktopTypeOK, DesktopMoves PROVE DesktopTypeOK'
<1> USE DEF DesktopTypeOK
<1>1. CASE DesktopClose \/ (\E t \in Gallery : UseTemplate(t)) \/ LeaveDesktop
  <2>1. desktop' = Blank
    BY <1>1 DEF DesktopClose, UseTemplate, LeaveDesktop
  <2> QED
    BY <2>1 DEF Blank, Gallery, Fields
<1>2. CASE OpenDesktop
  BY <1>2 DEF OpenDesktop, Blank
<1>3. CASE CountersRead \/ SwitchView \/ AskForLetter \/ LetterEnds
  BY <1>3, ZenonT(40) DEF CountersRead, SwitchView, AskForLetter, LetterEnds
<1>4. CASE \E t \in Gallery : SelectCard(t)
  BY <1>4 DEF SelectCard
<1>5. CASE \E f \in Fields : FillField(f)
  BY <1>5 DEF FillField
<1> QED
  BY <1>1, <1>2, <1>3, <1>4, <1>5 DEF DesktopMoves, DesktopNext

\* What a page may do to the route: nothing, or a push that does not lead to
\* Stripe and leaves none behind that would.
PagePush ==
  \/ Here
  \/ /\ route' \in Routes \ External
     /\ late' \in {late, "generating", "portfolios"}

LEMMA PagesPush ==
  ASSUME JobNext \/ UplNext \/ WizNext \/ PagesNext \/ DesktopNext \/ Follow
  PROVE  PagePush
<1>1. CASE JobNext
  BY <1>1
     DEF JobNext, OpenJob, PollStarts, TokenFound, TokenMissing, Answered, PollFails, Delivered,
         RerunEffect, Tick, Redirect, TryAgain, LeaveJob, BackendStep, Push, Here, shell, PagePush,
         Routes, NavTop, NavBottom, PublicRoutes, Dynamic, External
<1>2. CASE UplNext
  BY <1>2
     DEF UplNext, OpenUpload, Drop, ZoneShown, UplStays, UploadWithoutToken, UploadSent, UploadDone,
         UploadFailed, ResetZone, TemplatesShown, SelectTemplate, UploadAnother, ClickGenerate,
         GenerateSent, GenerateAnswered, LeaveUpload, LeaveFor, Push, Here, shell, PagePush,
         Routes, NavTop, NavBottom, PublicRoutes, Dynamic, External
<1>3. CASE WizNext
  BY <1>3
     DEF WizNext, OpenWizard, Type, AddWork, RestoreWork, RemoveWork, AddSkill, RemoveSkill,
         Continue, Back, ExitEnds, ContinueAgain, BackAgain, AskForSkills, SkillsSuggested,
         AskEndsWithout, Submit, SubmitAgain, SubmitSettles, ResumeBuilt, BuildFails,
         BuildUnheard, StartFails, GenerationStarts, LeaveWizard, WizStays, Shown, Pressed, Edits, LeaveFor, Here, shell, PagePush,
         Routes, NavTop, NavBottom, PublicRoutes, Dynamic, External
<1>4. CASE PagesNext
  BY <1>4
     DEF PagesNext, OpenList, OpenPreview, Refresh, CallSettles, FetchServed, FetchDelivered,
         FetchWithoutToken, FetchFails, ClickToggle, ToggleServed, ClickDelete,
         DeleteServed, DeleteDelivered, WriteFails, WorkerMoves, BackToList, LeavePages, On,
         LeaveFor, Push, Here, shell, PagePush,
         Routes, NavTop, NavBottom, PublicRoutes, Dynamic, External
<1>5. CASE DesktopNext
  BY <1>5
     DEF DesktopNext, OpenDesktop, CountersRead, SelectCard, SwitchView, UseTemplate, FillField,
         AskForLetter, LetterEnds, LeaveDesktop, Shows, Push, Here, shell, PagePush,
         Routes, NavTop, NavBottom, PublicRoutes, Dynamic, External
<1>6. CASE Follow
  BY <1>6 DEF Follow, Push, PagePush, Routes, NavTop, NavBottom, QuickActions, PublicRoutes,
              Dynamic, External
<1> QED
  BY <1>1, <1>2, <1>3, <1>4, <1>5, <1>6

LEMMA PlanPushes == ASSUME PlanNext, ShellTypeOK PROVE ShellTypeOK'
<1>1. CASE \E r \in Reads : ReadServed(r) \/ ReadDelivered(r) \/ ReadEnds(r)
  BY <1>1 DEF ReadServed, ReadDelivered, ReadEnds, Here, shell, ShellTypeOK
<1>2. CASE \E u \in Users : SignIn(u) \/ WebhookHandled(u)
  BY <1>2 DEF SignIn, WebhookHandled, Push, Here, shell, ShellTypeOK, Routes, NavTop
<1>3. CASE \E b \in Buttons : Click(b) \/ ButtonSettles(b)
  BY <1>3 DEF Click, ButtonSettles, CallServed, CallFails, CallWithoutToken, Depart, Here, shell,
              ShellTypeOK, Routes, External, Buttons
<1>4. CASE \/ ClerkLoads \/ WelcomeEnds \/ SignOut \/ AlreadySignedIn \/ Visit \/ OpenDesk
           \/ RefreshStatus \/ StatusEnds \/ ClickSignedOut \/ LeaveDesk \/ LateCallServed
           \/ Paid \/ Return
  BY <1>4 DEF ClerkLoads, WelcomeEnds, SignOut, AlreadySignedIn, Visit, OpenDesk, RefreshStatus,
              StatusEnds, ClickSignedOut, LeaveDesk, LateCallServed, Paid, Return, LeaveFor, Push,
              Here, shell,
              ShellTypeOK, Routes, NavTop, NavBottom, PublicRoutes
<1> QED
  BY <1>1, <1>2, <1>3, <1>4 DEF PlanNext

(* Every step of the application is one of the moves that each page's proofs  *)
(* speak of.                                                                  *)
LEMMA StepsAreMoves ==
  ASSUME AppInv, [FrontendNext]_vars
  PROVE  ShellTypeOK' /\ JobMoves /\ UplMoves /\ WizMoves /\ PagesMoves /\ DesktopMoves /\ PlanMoves
<1>1. ASSUME PagePush PROVE ShellTypeOK' /\ (Here \/ Elsewhere)
  BY <1>1 DEF AppInv, PagePush, Here, shell, ShellTypeOK, Elsewhere, External
<1>2. CASE JobStep \/ UplStep \/ WizStep \/ PagesStep \/ DesktopStep \/ FollowLink
  <2>1. UNCHANGED planVars /\ PagePush
    BY <1>2, PagesPush
       DEF JobStep, UplStep, WizStep, PagesStep, DesktopStep, FollowLink, otherVars
  <2>2. JobMoves /\ UplMoves /\ WizMoves /\ PagesMoves /\ DesktopMoves
    BY <1>2 DEF JobStep, UplStep, WizStep, PagesStep, DesktopStep, FollowLink, otherVars,
                DesktopFollows, JobMoves, UplMoves, WizMoves, PagesMoves, DesktopMoves
  <2> QED
    BY <1>1, <2>1, <2>2 DEF PlanMoves
<1>3. CASE PlanStep
  BY <1>3, PlanPushes
     DEF PlanStep, AppInv, DesktopFollows, JobMoves, UplMoves, WizMoves, PagesMoves,
         DesktopMoves, PlanMoves
<1>4. CASE LatePush
  <2>1. ShellTypeOK' /\ (late # "checkout" => Elsewhere)
    BY <1>4 DEF LatePush, AppInv, ShellTypeOK, Elsewhere, Routes, NavTop, Dynamic, External
  <2>2. PlanMoves
    BY <1>4, <2>1 DEF LatePush, PlanMoves
  <2> QED
    BY <1>4, <2>1, <2>2
       DEF LatePush, JobMoves, UplMoves, WizMoves, PagesMoves, DesktopMoves
<1>5. CASE LateEnds
  <2>1. /\ late # "none" /\ late' = "none" /\ UNCHANGED route
        /\ JobMoves /\ UplMoves /\ WizMoves /\ PagesMoves /\ DesktopMoves
        /\ UNCHANGED <<srv, reads, desk>>
        /\ acct' = IF late = "checkout" THEN Forgotten ELSE acct
    BY <1>5 DEF LateEnds, LateSettled, JobMoves, UplMoves, WizMoves, PagesMoves, DesktopMoves
  <2>2. ShellTypeOK'
    BY <2>1 DEF AppInv, ShellTypeOK
  <2>3. Elsewhere
    BY <2>1 DEF AppInv, PlanInv, CheckoutInv, OneRedirect, Elsewhere
  <2>4. PlanMoves
    BY <2>1, <2>3 DEF PlanMoves, planVars
  <2> QED
    BY <2>1, <2>2, <2>4
<1>6. CASE UNCHANGED vars
  BY <1>6 DEF vars, otherVars, AppInv, shell, Here, ShellTypeOK, JobMoves, UplMoves, WizMoves,
              PagesMoves, DesktopMoves, PlanMoves
<1> QED
  BY <1>2, <1>3, <1>4, <1>5, <1>6 DEF FrontendNext
-----------------------------------------------------------------------------
(* A page pushes only while it is mounted, and is mounted only where it is    *)
(* routed.                                                                    *)

LEMMA JobRoutes ==
  ASSUME JobInv, JobNext
  PROVE  /\ Here \/ gen.job # None
         /\ gen'.job # None => Here /\ (gen.job # None \/ route = "generating")
<1>1. gen \in Gen /\ (gen.job = None => gen = Unmounted)
  BY DEF JobInv, JobTypeOK, NoPageNoState
<1>2. CASE Redirect \/ TryAgain \/ LeaveJob
  <2>1. gen'.job = None
    BY <1>2 DEF Redirect, TryAgain, LeaveJob, JobClose, Unmounted
  <2>2. gen.job # None
    BY <1>1, <1>2 DEF Redirect, TryAgain, LeaveJob, Unmounted, Heading
  <2> QED
    BY <2>1, <2>2
<1>3. CASE \E j \in Jobs : OpenJob(j)
  BY <1>3 DEF OpenJob, Here
<1>4. CASE \/ RerunEffect \/ Tick \/ BackendStep
           \/ \E e \in Runs : PollStarts(e) \/ TokenFound(e) \/ TokenMissing(e)
                \/ Answered(e) \/ PollFails(e) \/ Delivered(e)
  <2>1. Here
    BY <1>4 DEF PollStarts, TokenFound, TokenMissing, Answered, PollFails, Delivered,
                RerunEffect, Tick, BackendStep, Here
  <2>2. gen'.job = gen.job
    <3>1. CASE RerunEffect \/ Tick
      BY <1>1, <3>1 DEF RerunEffect, Tick, Gen
    <3>2. CASE BackendStep
      <4> DEFINE failed == gen.wasFailed \/ status'[gen.job] = "failed"
      <4>1. gen' = [gen EXCEPT !.wasFailed = failed]
        BY <3>2 DEF BackendStep
      <4> HIDE DEF failed
      <4> QED
        BY <1>1, <4>1 DEF Gen
    <3>3. CASE \E e \in Runs : PollStarts(e) \/ TokenFound(e) \/ TokenMissing(e)
                 \/ Answered(e) \/ PollFails(e) \/ Delivered(e)
      BY <1>1, <3>3 DEF PollStarts, TokenFound, TokenMissing, Answered, PollFails, Delivered, Gen
    <3> QED
      BY <1>4, <3>1, <3>2, <3>3
  <2> QED
    BY <2>1, <2>2
<1> QED
  BY <1>2, <1>3, <1>4 DEF JobNext

LEMMA UplRoutes ==
  ASSUME UplInv, UplNext
  PROVE  /\ Here \/ upl.on
         /\ upl'.on => Here /\ (upl.on \/ route = "upload")
<1>1. upl \in Upl /\ ~UplClosed.on
  BY DEF UplInv, UplTypeOK, UplClosed
<1>2. CASE OpenUpload
  BY <1>2 DEF OpenUpload
<1>3. CASE LeaveUpload \/ GenerateAnswered
  BY <1>1, <1>3 DEF LeaveUpload, GenerateAnswered, UplClose
<1>4. CASE \/ (\E f \in Files : Drop(f)) \/ UploadWithoutToken \/ UploadSent \/ UploadDone
           \/ UploadFailed \/ ResetZone \/ (\E t \in Templates : SelectTemplate(t))
           \/ UploadAnother \/ ClickGenerate \/ GenerateSent
  BY <1>4 DEF Drop, UploadWithoutToken, UploadSent, UploadDone, UploadFailed, ResetZone,
              SelectTemplate, UploadAnother, ClickGenerate, GenerateSent, UplStays, ZoneShown,
              TemplatesShown
<1> QED
  BY <1>2, <1>3, <1>4 DEF UplNext

LEMMA WizRoutes ==
  ASSUME WizInv, WizNext
  PROVE  /\ Here \/ wiz.on
         /\ wiz'.on => Here /\ (wiz.on \/ route = "build-resume")
<1>1. wiz \in Wiz /\ ~WizClosed.on
  BY DEF WizInv, WizTypeOK, WizClosed
<1>2. CASE OpenWizard
  BY <1>2 DEF OpenWizard
<1>3. CASE LeaveWizard \/ GenerationStarts
  BY <1>1, <1>3 DEF LeaveWizard, GenerationStarts, WizClose
<1>4. CASE \/ (\E f \in Texts : Type(f)) \/ AddWork \/ RestoreWork \/ RemoveWork
           \/ AddSkill \/ (\E k \in Skills : RemoveSkill(k))
           \/ Continue \/ Back \/ ExitEnds \/ ContinueAgain \/ BackAgain
           \/ (\E a \in Asks : AskForSkills(a) \/ SkillsSuggested(a) \/ AskEndsWithout(a))
           \/ Submit \/ SubmitAgain \/ ResumeBuilt \/ BuildFails \/ BuildUnheard \/ StartFails
  BY <1>4 DEF Type, AddWork, RestoreWork, RemoveWork, AddSkill, RemoveSkill, Continue, Back,
              ExitEnds, ContinueAgain, BackAgain, AskForSkills, SkillsSuggested, AskEndsWithout,
              Submit, SubmitAgain, ResumeBuilt, BuildFails, BuildUnheard, StartFails, WizStays,
              Shown, Pressed, Edits
<1> QED
  BY <1>2, <1>3, <1>4 DEF WizNext, SubmitSettles

LEMMA PagesRoutes ==
  ASSUME PagesInv, PagesNext
  PROVE  /\ Here \/ shelf.screen # "none"
         /\ shelf'.screen # "none" =>
              /\ Here
              /\ \/ shelf'.screen = shelf.screen
                 \/ route = IF shelf'.screen = "list" THEN "portfolios" ELSE "preview"
<1>1. shelf \in Shelves /\ NoPage.screen = "none"
  BY NothingTyped DEF PagesInv, Typed
<1>2. CASE BackToList \/ LeavePages
  BY <1>1, <1>2 DEF BackToList, LeavePages, PagesClose
<1>3. CASE \E c \in Calls : OpenList(c) \/ \E p \in Portfolios : OpenPreview(c, p)
  BY <1>1, <1>3, NothingTyped DEF OpenList, OpenPreview, Shelves
<1>4. ASSUME NEW c \in Calls, FetchFails(c)
      PROVE  \/ Here /\ shelf'.screen = shelf.screen
             \/ shelf.screen # "none" /\ shelf'.screen = "none"
  BY <1>1, <1>4 DEF FetchFails, On, Shelves, PagesClose
<1>5. ASSUME NEW c \in Calls,
             \/ Refresh(c) \/ FetchServed(c) \/ FetchDelivered(c) \/ FetchWithoutToken(c)
             \/ ToggleServed(c) \/ DeleteServed(c) \/ DeleteDelivered(c)
             \/ WriteFails(c)
             \/ \E p \in Portfolios : ClickToggle(c, p) \/ ClickDelete(c, p)
      PROVE  Here /\ shelf'.screen = shelf.screen
  BY <1>1, <1>5 DEF Refresh, FetchServed, FetchDelivered, FetchWithoutToken, ToggleServed,
                    DeleteServed, DeleteDelivered, WriteFails, ClickToggle,
                    ClickDelete, On, Shelves
<1>6. CASE \E p \in Portfolios : WorkerMoves(p)
  BY <1>1, <1>6 DEF WorkerMoves, Shelves
<1> QED
  BY <1>1, <1>2, <1>3, <1>4, <1>5, <1>6 DEF PagesNext, CallSettles

LEMMA DesktopRoutes ==
  ASSUME DesktopTypeOK, DesktopNext
  PROVE  /\ Here \/ desktop.page # "none"
         /\ desktop'.page # "none" => Here /\ desktop'.page \in {desktop.page, route}
<1>1. CASE OpenDesktop
  BY <1>1 DEF OpenDesktop, Blank
<1>2. CASE LeaveDesktop \/ \E t \in Gallery : UseTemplate(t)
  BY <1>2 DEF LeaveDesktop, UseTemplate, DesktopClose, Blank
<1>3. CASE \/ CountersRead \/ SwitchView \/ AskForLetter \/ LetterEnds
           \/ (\E t \in Gallery : SelectCard(t)) \/ (\E f \in Fields : FillField(f))
  BY <1>3 DEF CountersRead, SwitchView, AskForLetter, LetterEnds, SelectCard, FillField, Shows,
              DesktopTypeOK
<1> QED
  BY <1>1, <1>2, <1>3 DEF DesktopNext

LEMMA PlanRoutes ==
  ASSUME PlanInv, PlanNext
  PROVE  /\ late' \in {late, "checkout", "none"}
         /\ \/ desk'.page = "none"
            \/ Here /\ desk'.page \in {desk.page, route}
            \/ UNCHANGED desk /\ route \notin {"billing", "pricing"}
<1>1. desk \in Desks /\ NoDesk.page = "none"
  BY PlanTypes, NoDeskTyped DEF PlanInv
<1>2. CASE \E r \in Reads : ReadServed(r) \/ ReadDelivered(r) \/ ReadEnds(r)
  BY <1>2 DEF ReadServed, ReadDelivered, ReadEnds, Here, shell
<1>3. CASE \E u \in Users : SignIn(u) \/ WebhookHandled(u)
  BY <1>3 DEF SignIn, WebhookHandled, Push, Here, shell
<1>4. CASE \E b \in Buttons : Click(b) \/ CallServed(b) \/ CallFails(b) \/ CallWithoutToken(b)
  BY <1>1, <1>4 DEF Click, CallServed, CallFails, CallWithoutToken, Here, shell, Desks
<1>5. CASE (\E b \in Buttons : Depart(b)) \/ LeaveDesk \/ ClickSignedOut
  BY <1>1, <1>5 DEF Depart, Unload, LeaveDesk, ClickSignedOut, LeaveFor, Push, DeskClose
<1>6. CASE ClerkLoads \/ WelcomeEnds \/ OpenDesk \/ RefreshStatus \/ StatusEnds \/ LateCallServed
  BY <1>1, <1>6, NoDeskTyped
     DEF ClerkLoads, WelcomeEnds, OpenDesk, RefreshStatus, StatusEnds, LateCallServed, Here, shell,
         Desks
<1>7. CASE SignOut \/ AlreadySignedIn \/ Visit \/ Paid \/ Return
  BY <1>1, <1>7 DEF SignOut, AlreadySignedIn, Visit, Paid, Return, Push, DeskClose, planVars
<1> QED
  BY <1>2, <1>3, <1>4, <1>5, <1>6, <1>7 DEF PlanNext, ButtonSettles

(* One page is mounted at a time, the one of the route.                       *)
LEMMA ApartKept ==
  ASSUME AppInv, [FrontendNext]_vars, PlanInv'
  PROVE  PagesAreApart'
<1>1. /\ desktop.page \in {"none", "dashboard", "templates", "cover-letter"}
      /\ desk.page \in {"none", "billing", "pricing"} /\ NoDesk.page = "none"
      /\ shelf.screen \in {"none", "list", "preview"}
  BY NoDeskTyped, PlanTypes DEF AppInv, DesktopTypeOK, PagesInv, Typed, Shelves, PlanInv, Desks
<1>2. /\ gen.job # None => route = "generating"
      /\ upl.on => route = "upload"
      /\ wiz.on => route = "build-resume"
      /\ shelf.screen # "none" => route = IF shelf.screen = "list" THEN "portfolios" ELSE "preview"
      /\ desktop.page \in {"none", route}
      /\ desk.page \in {"none", route}
      /\ desk.page # "none" => late = "none"
  BY DEF AppInv, PagesAreApart, MountedIsRouted, DeskAlone
<1> USE DEF PagesAreApart, MountedIsRouted, DeskAlone
<1>3. CASE JobStep
  <2>1. /\ UNCHANGED <<desktop, upl, wiz, shelf, desk>>
        /\ Here \/ gen.job # None
        /\ gen'.job # None => Here /\ (gen.job # None \/ route = "generating")
    BY <1>3, JobRoutes DEF JobStep, AppInv, pageVars, planVars
  <2> QED
    BY <1>1, <1>2, <2>1 DEF Here, shell
<1>4. CASE UplStep
  <2>1. /\ UNCHANGED <<desktop, gen, wiz, shelf, desk>>
        /\ Here \/ upl.on
        /\ upl'.on => Here /\ (upl.on \/ route = "upload")
    BY <1>4, UplRoutes DEF UplStep, AppInv, jobVars, pageVars, planVars
  <2> QED
    BY <1>1, <1>2, <2>1 DEF Here, shell
<1>5. CASE WizStep
  <2>1. /\ UNCHANGED <<desktop, gen, upl, shelf, desk>>
        /\ Here \/ wiz.on
        /\ wiz'.on => Here /\ (wiz.on \/ route = "build-resume")
    BY <1>5, WizRoutes DEF WizStep, AppInv, jobVars, pageVars, planVars
  <2> QED
    BY <1>1, <1>2, <2>1 DEF Here, shell
<1>6. CASE PagesStep
  <2>1. /\ UNCHANGED <<desktop, gen, upl, wiz, desk>>
        /\ Here \/ shelf.screen # "none"
        /\ shelf'.screen # "none" =>
             /\ Here
             /\ \/ shelf'.screen = shelf.screen
                \/ route = IF shelf'.screen = "list" THEN "portfolios" ELSE "preview"
    BY <1>6, PagesRoutes DEF PagesStep, AppInv, jobVars, planVars
  <2> QED
    BY <1>1, <1>2, <2>1 DEF Here, shell
<1>7. CASE DesktopStep
  <2>1. /\ UNCHANGED <<gen, upl, wiz, shelf, desk>>
        /\ Here \/ desktop.page # "none"
        /\ desktop'.page # "none" => Here /\ desktop'.page \in {desktop.page, route}
    BY <1>7, DesktopRoutes DEF DesktopStep, AppInv, otherVars, jobVars, pageVars, planVars
  <2> QED
    BY <1>1, <1>2, <2>1 DEF Here, shell
<1>8. ASSUME DesktopFollows PROVE desktop'.page \in {"none", route'}
  BY <1>1, <1>8 DEF DesktopFollows, DesktopClose, Blank
<1>9. CASE PlanStep
  <2>1. /\ UNCHANGED <<gen, upl, wiz, shelf>> /\ late \in {"none", "checkout"}
        /\ route \in PlanPages /\ DesktopFollows
        /\ late' \in {late, "checkout", "none"}
        /\ \/ desk'.page = "none"
           \/ Here /\ desk'.page \in {desk.page, route}
           \/ UNCHANGED desk /\ route \notin {"billing", "pricing"}
    BY <1>9, PlanRoutes DEF PlanStep, AppInv, jobVars, pageVars
  <2>2. gen.job = None /\ ~upl.on /\ ~wiz.on /\ shelf.screen = "none"
    BY <1>1, <1>2, <2>1 DEF PlanPages, PublicRoutes, NavBottom, External
  <2>3. desk'.page \in {"none", route'}
    BY <1>1, <1>2, <2>1 DEF Here, shell
  <2>4. desk'.page # "none" => late' # "checkout"
    BY NoDeskTyped DEF PlanInv, CheckoutInv, OneRedirect
  <2> QED
    BY <1>8, <2>1, <2>2, <2>3, <2>4
<1>10. CASE FollowLink
  <2>1. /\ UNCHANGED <<gen, upl, wiz, shelf, desk>> /\ route = "dashboard" /\ DesktopFollows
        /\ late' = late
    BY <1>10 DEF FollowLink, Follow, Push, jobVars, otherVars, pageVars, planVars
  <2> QED
    BY <1>1, <1>2, <1>8, <2>1
<1>11. CASE LatePush
  <2>1. gen'.job = None /\ ~upl'.on /\ ~wiz'.on /\ shelf'.screen = "none" /\ desktop'.page = "none"
    BY <1>11, NothingTyped DEF LatePush, JobClose, UplClose, WizClose, PagesClose, DesktopClose, Unmounted,
                 UplClosed, WizClosed, Blank
  <2>2. late # "none" /\ (desk' = NoDesk \/ UNCHANGED desk)
    BY <1>11 DEF LatePush, Unload, DeskClose, planVars
  <2> QED
    BY <1>1, <1>2, <2>1, <2>2
<1>12. CASE LateEnds \/ UNCHANGED vars
  <2>1. UNCHANGED <<gen, upl, wiz, shelf, desktop, desk, route>> /\ late' \in {late, "none"}
    BY <1>12 DEF LateEnds, LateSettled, vars, otherVars, shell, jobVars, pageVars, planVars
  <2> QED
    BY <1>2, <2>1
<1> QED
  BY <1>3, <1>4, <1>5, <1>6, <1>7, <1>9, <1>10, <1>11, <1>12 DEF FrontendNext
-----------------------------------------------------------------------------
LEMMA AppInitInv == ASSUME FrontendInit PROVE AppInv
<1>1. ShellTypeOK /\ PlanInv
  BY PlanInitInv DEF FrontendInit, ShellInit, ShellTypeOK, Routes, NavTop
<1>2. WizInv
  BY ClosedInv DEF FrontendInit, WizInit
<1>3. JobInv
  BY UnmountedInv DEF FrontendInit, JobInit
<1>4. UplInv
  BY UplClosedInv DEF FrontendInit, UplInit
<1>5. PagesInv
  BY PagesClosedInv DEF FrontendInit, PagesInit
<1>6. DesktopTypeOK
  BY DEF FrontendInit, DesktopInit, DesktopTypeOK, Blank
<1>7. PagesAreApart
  BY NothingTyped, NoDeskTyped
     DEF FrontendInit, ShellInit, JobInit, Unmounted, UplInit, UplClosed, WizInit, WizClosed,
         PagesInit, DesktopInit, Blank, PlanInit, PagesAreApart, MountedIsRouted, DeskAlone
<1> QED
  BY <1>1, <1>2, <1>3, <1>4, <1>5, <1>6, <1>7 DEF AppInv

LEMMA AppStepInv == ASSUME AppInv, [FrontendNext]_vars PROVE AppInv'
<1>1. ShellTypeOK' /\ JobMoves /\ UplMoves /\ WizMoves /\ PagesMoves /\ DesktopMoves /\ PlanMoves
  BY StepsAreMoves
<1>2. JobInv' /\ UplInv' /\ WizInv' /\ PagesInv' /\ DesktopTypeOK' /\ PlanInv'
  BY <1>1, JobMovesInv, UplMovesInv, WizMovesInv, PagesMovesInv, DesktopMovesTyped, PlanMovesInv
     DEF AppInv
<1> QED
  BY <1>1, <1>2, ApartKept DEF AppInv

LEMMA AppInvAlways == FrontendSpec => []AppInv
BY AppInitInv, AppStepInv, PTL DEF FrontendSpec

(* The application keeps its types, and mounts one page at a time: the one of *)
(* the route.                                                                 *)
THEOREM OnePageAtATime == FrontendSpec => []FrontendTypeOK
<1>1. AppInv => FrontendTypeOK
  BY PagesTypes
     DEF AppInv, PagesAreApart, FrontendTypeOK, JobInv, UplInv, WizInv, PagesInv, PlanInv
<1> QED
  BY <1>1, AppInvAlways, PTL

(* The generation page reports a failure only after the backend said so.      *)
THEOREM FailuresAreEarned == FrontendSpec => []VerdictIsEarned
<1>1. AppInv => VerdictIsEarned
  BY DEF AppInv, JobInv
<1> QED
  BY <1>1, AppInvAlways, PTL

(* A page that waits for nothing, and shows neither a result nor an error,    *)
(* has lost its session.                                                      *)
THEOREM OnlySessionsAreLost == FrontendSpec => []DeadEndsAreLostSessions
<1>1. AppInv => DeadEndsAreLostSessions
  BY NotFrozen, PlanClaims DEF AppInv, PagesInv, DeadEndsAreLostSessions
<1> QED
  BY <1>1, AppInvAlways, PTL

(* The wizard passes a required field only when it is filled: what is missing *)
(* behind it was passed, emptied or moved by a press on a step being left.    *)
THEOREM WizardFillsFields == FrontendSpec => []PassedStepsFilled
<1>1. AppInv => PassedStepsFilled
  BY DEF AppInv, WizInv
<1> QED
  BY <1>1, AppInvAlways, PTL

(* Intervals that run on belong to uploads that failed, and a second resume   *)
(* of one wizard to a refusal, to a build whose answer was lost or to a press *)
(* on a step being left.                                                      *)
THEOREM LeftoversAreAccounted == FrontendSpec => []LeftoversAccounted
<1>1. AppInv => LeftoversAccounted
  BY DEF AppInv, UplInv, WizInv, LeftoversAccounted, OneResumePerWizard, OneAtATime,
         StartsAreBuilt, WizTypeOK, Wiz
<1> QED
  BY <1>1, AppInvAlways, PTL

(* A card shows what the server holds, unless a call about it is under way,   *)
(* failed or overlapped with another one, or a worker has moved the portfolio *)
(* since.                                                                     *)
THEOREM CardsShowTheServer == FrontendSpec => []ShownIsServer
<1>1. AppInv => ShownIsServer
  BY DEF AppInv, PagesInv
<1> QED
  BY <1>1, AppInvAlways, PTL

(* The plan shown is the user's plan, unless the user or the plan has changed *)
(* since the last answer, or that answer was one for another user.            *)
THEOREM PlanIsTheServers == FrontendSpec => []PlanShownIsServer
<1>1. AppInv => PlanShownIsServer
  BY PlanClaims DEF AppInv
<1> QED
  BY <1>1, AppInvAlways, PTL

(* Whoever is Pro stands at a checkout only when it was created before the    *)
(* webhook of the first payment.                                              *)
THEOREM NoSecondCheckoutAfterWebhook == FrontendSpec => []SecondCheckoutOnlyBeforeWebhook
<1>1. AppInv => SecondCheckoutOnlyBeforeWebhook
  BY PlanClaims DEF AppInv
<1> QED
  BY <1>1, AppInvAlways, PTL

(* The progress shown is taken back by a failure only.                        *)
THEOREM ProgressStays == FrontendSpec => ProgressNeverFallsBack
<1>1. AppInv /\ [FrontendNext]_vars =>
        [gen.job # None /\ gen'.job = gen.job /\ ~gen'.error
           => StepsDone \subseteq StepsDone']_<<shell, jobVars>>
  BY StepsAreMoves, ProgressKept DEF AppInv
<1> QED
  BY <1>1, AppInvAlways, PTL DEF ProgressNeverFallsBack, FrontendSpec
=============================================================================
