---------------------------- MODULE ResumeBuilder ----------------------------
(***************************************************************************)
(* The page /dashboard/build-resume: a wizard of 7 steps and one per job,  *)
(* each with a button "Continue" that its own field enables.  A step that  *)
(* is left stays on the screen, with the handlers and the guard of its     *)
(* last render, until its exit animation ends (AnimatePresence "wait").    *)
(* The last step builds the resume and then asks for its portfolio.        *)
(***************************************************************************)
EXTENDS AppShell, Integers

CONSTANTS
  MaxWorks,    \* bound: jobs in the form
  MaxBuilt,    \* bound: resumes built while the page is mounted
  Clearable,   \* bound: the texts that are cleared again
  MaxPresses,  \* bound: acts on steps that are leaving, but removals of jobs
  Asks         \* requests for suggestions that run at once

ASSUME MaxWorksAssumption == MaxWorks \in Nat \ {0}
ASSUME MaxBuiltAssumption == MaxBuilt \in Nat
ASSUME MaxPressesAssumption == MaxPresses \in Nat

VARIABLE
  wiz  \* the page:
       \*   on          the page is mounted
       \*   step        the step set last
       \*   form        the number of work_experiences, the required fields
       \*               of one value that hold one, and the skills
       \*   leaving     the step that is still on the screen; 0: none
       \*   old         the form as that step was last rendered
       \*   open, free  its "Continue" and its "suggest skills" were enabled
       \*   presses     those acts
       \*   suggesting  suggestingSkills
       \*   asks        the requests under way, with the skills they captured
       \*   builds      runs of handleSubmit that wait for their resume
       \*   starts      runs of handleSubmit that wait for their portfolio
       \*   submitting  the page's flag
       \*   built       resumes the backend has built for this page
       \*   refused     history: a generation was refused after its build
       \*   lost        history: a resume was built and its answer was lost
       \*   missed      history: fields that a step being left has passed
       \*               unfilled, or has emptied behind the wizard
       \*   doubled     history: a submission pressed on a step being left

\* The required fields but the skills, in the order of their steps.
Texts == {"name", "years", "company", "project", "goal"}
Required == Texts \cup {"skills"}
Skills == {"own", "ai"}

Step == 1 .. MaxWorks + 7
Form == [works : 1 .. MaxWorks, filled : SUBSET Texts, skills : SUBSET Skills]
Ask == [on : BOOLEAN, seen : SUBSET Skills]
Wiz == [on : BOOLEAN, step : Step, form : Form,
        leaving : Step \cup {0}, old : Form, open : BOOLEAN, free : BOOLEAN,
        presses : 0 .. MaxPresses, suggesting : BOOLEAN, asks : [Asks -> Ask],
        builds : 0 .. MaxBuilt, starts : 0 .. MaxBuilt, submitting : BOOLEAN,
        built : 0 .. MaxBuilt, refused : BOOLEAN, lost : BOOLEAN,
        missed : SUBSET Required, doubled : BOOLEAN]

INITIAL == [works |-> 1, filled |-> {}, skills |-> {}]
NoAsk == [on |-> FALSE, seen |-> {}]
WizClosed ==
  [on |-> FALSE, step |-> 1, form |-> INITIAL, leaving |-> 0, old |-> INITIAL,
   open |-> FALSE, free |-> FALSE, presses |-> 0,
   suggesting |-> FALSE, asks |-> [a \in Asks |-> NoAsk],
   builds |-> 0, starts |-> 0, submitting |-> FALSE, built |-> 0,
   refused |-> FALSE, lost |-> FALSE, missed |-> {}, doubled |-> FALSE]

WizInit == wiz = WizClosed
WizClose == wiz' = WizClosed
-----------------------------------------------------------------------------
(* The steps: name, years, one per job, project, education, skills, social *)
(* links, goal.  The form keeps its one project: the page never renders    *)
(* the buttons that would add or remove one.                               *)

TotalOf(form) == form.works + 7
Total == TotalOf(wiz.form)

StepIn(f, form) ==
  CASE f = "name" -> 1
    [] f = "years" -> 2
    [] f = "company" -> 3
    [] f = "project" -> 3 + form.works
    [] f = "skills" -> 5 + form.works
    [] f = "goal" -> 7 + form.works

Has(f, form) == IF f = "skills" THEN form.skills # {} ELSE f \in form.filled

StepOf(f) == StepIn(f, wiz.form)

\* What a step asks for: nothing for later jobs, education and social links.
AskedAt(s) == {f \in Required : StepOf(f) = s}

(* Faulty variant, used by one check only: the company of a job is not asked for. *)
NextEnabled_ForgetsCompany(s) ==
  /\ \A f \in AskedAt(s) \ {"company"} : Has(f, wiz.form)
  /\ s = Total => ~wiz.submitting

\* nextDisabled, as the step's render computes it.
NextEnabled(s) ==
  /\ \A f \in AskedAt(s) : Has(f, wiz.form)
  /\ s = Total => ~wiz.submitting

(* Faulty variant, used by one check only: the last step is not the last. *)
Smaller_Unbounded(a, b) == a

Smaller(a, b) == IF a < b THEN a ELSE b
Larger(a, b) == IF a > b THEN a ELSE b

\* setStep: the step on the screen starts to leave, as it was rendered last.
Leave(to) ==
  [wiz EXCEPT !.step = to, !.leaving = wiz.step, !.old = wiz.form,
              !.open = NextEnabled(wiz.step),
              !.free = wiz.step = StepOf("skills") /\ ~wiz.suggesting]

\* A step is shown, with the form as it is; set again before it has left, it
\* is rendered anew.
Render(to) ==
  [wiz EXCEPT !.step = to, !.leaving = 0, !.old = INITIAL, !.open = FALSE, !.free = FALSE]

LeaveAgain(to) ==
  IF to = wiz.leaving THEN Render(to) ELSE [wiz EXCEPT !.step = to]

WizStays == wiz.on /\ Here
Shown == WizStays /\ wiz.leaving = 0
MayPress == wiz.leaving # 0 => wiz.presses < MaxPresses
Pressed == WizStays /\ wiz.leaving # 0 /\ MayPress
Presses == IF wiz.leaving = 0 THEN wiz.presses ELSE wiz.presses + 1

\* The step on the screen, and the form that its handlers have captured.
OnStep == IF wiz.leaving = 0 THEN wiz.step ELSE wiz.leaving
OnScreen == IF wiz.leaving = 0 THEN wiz.form ELSE wiz.old

Offers(f) == StepIn(f, OnScreen) = OnStep

\* A bound of the model: the form is edited until a submission, which
\* captures it, has built a resume or was pressed on a step being left.
Active == wiz.builds + wiz.starts
Edits == WizStays /\ MayPress /\ Active = 0 /\ wiz.built = 0 /\ ~wiz.doubled

\* setForm, on the step shown or on one that is leaving: there it can leave
\* fields F unfilled behind the wizard.
Edited(form, F) ==
  [wiz EXCEPT !.form = form, !.presses = Presses,
              !.missed = @ \cup {f \in F : wiz.leaving # 0 /\ StepIn(f, form) < wiz.step}]
-----------------------------------------------------------------------------
OpenWizard ==
  /\ route = "build-resume" /\ ~wiz.on
  /\ wiz' = [wiz EXCEPT !.on = TRUE]
  /\ Here

\* Fields are filled and cleared at their own step.
Type(f) ==
  /\ Edits /\ Offers(f)
  /\ \/ wiz' = Edited([wiz.form EXCEPT !.filled = @ \cup {f}], {})
     \/ f \in Clearable \ {"years"} /\ wiz' = Edited([wiz.form EXCEPT !.filled = @ \ {f}], {f})

\* "+ Add Another Role" is offered by the last job.
AddWork ==
  /\ Edits
  /\ OnStep = 2 + OnScreen.works /\ wiz.form.works < MaxWorks
  /\ wiz' = Edited([wiz.form EXCEPT !.works = @ + 1], {})

\* patchWork on a job that is leaving and was removed makes an entry for it.
RestoreWork ==
  /\ Edits
  /\ wiz.leaving \in 4 .. 2 + wiz.old.works /\ wiz.form.works = wiz.leaving - 3
  /\ wiz' = Edited([wiz.form EXCEPT !.works = @ + 1], {})

\* "Remove Role" by every job but the first, if it is still there; the step
\* set last stays, and what it asks for may move before it.
RemoveWork ==
  /\ Edits
  /\ OnStep \in 4 .. 2 + OnScreen.works /\ OnStep <= 2 + wiz.form.works
  /\ wiz' = [Edited([wiz.form EXCEPT !.works = @ - 1],
                    {f \in AskedAt(wiz.step) : ~Has(f, wiz.form)}) EXCEPT !.presses = wiz.presses]

\* The tags of the skills step: onChange is given those that were rendered.
AddSkill ==
  /\ Edits /\ Offers("skills") /\ "own" \notin OnScreen.skills
  /\ wiz' = Edited([wiz.form EXCEPT !.skills = OnScreen.skills \cup {"own"}], {})

RemoveSkill(k) ==
  /\ Edits /\ Offers("skills") /\ k \in OnScreen.skills
  /\ LET rest == OnScreen.skills \ {k}
     IN wiz' = Edited([wiz.form EXCEPT !.skills = rest],
                      IF rest = {} THEN {"skills"} ELSE {})

Continue ==
  /\ Shown
  /\ wiz.step < Total /\ NextEnabled(wiz.step)
  /\ wiz' = [Leave(Smaller(wiz.step + 1, Total)) EXCEPT !.missed = @ \ AskedAt(wiz.step)]

\* The page is blank, and without a button, behind its last step.
Back ==
  /\ Shown
  /\ wiz.step > 1 /\ wiz.step <= Total
  /\ wiz' = Leave(Larger(wiz.step - 1, 1))

\* The exit animation ends, 0.22 s later, and the step set last is shown.
ExitEnds ==
  /\ WizStays /\ wiz.leaving # 0
  /\ wiz' = Render(wiz.step)

\* A second press on the step that leaves: its old guard lets it through.
ContinueAgain ==
  /\ Pressed /\ wiz.open /\ wiz.leaving # TotalOf(wiz.old)
  /\ LET to == Smaller(wiz.step + 1, TotalOf(wiz.old))
     IN wiz' = [LeaveAgain(to) EXCEPT !.presses = @ + 1, !.missed = @ \cup
                  {f \in AskedAt(wiz.step) : wiz.step < to /\ ~Has(f, wiz.form)}]

BackAgain ==
  /\ Pressed /\ wiz.leaving > 1
  /\ wiz' = [LeaveAgain(Larger(wiz.step - 1, 1)) EXCEPT !.presses = @ + 1]
-----------------------------------------------------------------------------
(* handleSuggestSkills: the answer is appended to the skills captured when *)
(* the request was made; the button knows what was rendered.               *)

AskForSkills(a) ==
  /\ Edits /\ Offers("skills") /\ ~wiz.asks[a].on
  /\ IF wiz.leaving = 0 THEN ~wiz.suggesting ELSE wiz.free
  /\ wiz' = [wiz EXCEPT !.suggesting = TRUE, !.presses = Presses,
                        !.asks[a] = [on |-> TRUE, seen |-> OnScreen.skills]]

SkillsSuggested(a) ==
  /\ WizStays /\ wiz.asks[a].on
  /\ \E new \in SUBSET ({"ai"} \ wiz.asks[a].seen) :
       wiz' = [wiz EXCEPT !.suggesting = FALSE, !.asks[a] = NoAsk, !.form =
                 IF new = {} THEN @ ELSE [@ EXCEPT !.skills = wiz.asks[a].seen \cup new]]

\* No session, or a request that fails.
AskEndsWithout(a) ==
  /\ WizStays /\ wiz.asks[a].on
  /\ wiz' = [wiz EXCEPT !.suggesting = FALSE, !.asks[a] = NoAsk]
-----------------------------------------------------------------------------
(* handleSubmit: the token and the resume ("build"), then its portfolio.   *)

\* Bounds: no more submissions than resumes may still be built, and none
\* while suggestions are awaited.
MaySubmit == wiz.built + wiz.builds < MaxBuilt /\ \A a \in Asks : ~wiz.asks[a].on

Submit ==
  /\ Shown
  /\ wiz.step = Total /\ NextEnabled(Total) /\ MaySubmit
  /\ wiz' = [wiz EXCEPT !.submitting = TRUE, !.builds = @ + 1]

\* The last step is being left by "Back", and its old button is pressed: what
\* is sent is the form as that step was rendered.
SubmitAgain ==
  /\ WizStays /\ wiz.leaving # 0 /\ wiz.leaving = TotalOf(wiz.old) /\ wiz.open /\ MaySubmit
  /\ wiz' = [wiz EXCEPT !.submitting = TRUE, !.builds = @ + 1, !.doubled = TRUE]

ResumeBuilt ==
  /\ WizStays /\ wiz.builds > 0
  /\ wiz' = [wiz EXCEPT !.builds = @ - 1, !.starts = @ + 1, !.built = @ + 1]

\* No session or a build that fails: the button is back.
BuildFails ==
  /\ WizStays /\ wiz.builds > 0
  /\ wiz' = [wiz EXCEPT !.builds = @ - 1, !.submitting = FALSE]

\* The backend has built the resume, and its answer is lost: to the page that
\* is a build that failed.
BuildUnheard ==
  /\ WizStays /\ wiz.builds > 0
  /\ wiz' = [wiz EXCEPT !.builds = @ - 1, !.built = @ + 1, !.submitting = FALSE, !.lost = TRUE]

\* What was built stays: the next submission builds another resume.
StartFails ==
  /\ WizStays /\ wiz.starts > 0
  /\ wiz' = [wiz EXCEPT !.starts = @ - 1, !.submitting = FALSE, !.refused = TRUE]

GenerationStarts ==
  /\ wiz.on /\ wiz.starts > 0
  /\ LeaveFor("generating", Active > 1, "generating")
  /\ WizClose

LeaveWizard ==
  /\ wiz.on
  /\ LeaveFor("dashboard", Active > 0, "generating")
  /\ WizClose

SubmitSettles ==
  ResumeBuilt \/ BuildFails \/ BuildUnheard \/ StartFails \/ GenerationStarts

WizNext ==
  \/ OpenWizard \/ (\E f \in Texts : Type(f)) \/ AddWork \/ RestoreWork \/ RemoveWork
  \/ AddSkill \/ (\E k \in Skills : RemoveSkill(k))
  \/ Continue \/ Back \/ ExitEnds \/ ContinueAgain \/ BackAgain
  \/ (\E a \in Asks : AskForSkills(a) \/ SkillsSuggested(a) \/ AskEndsWithout(a))
  \/ Submit \/ SubmitAgain \/ SubmitSettles \/ LeaveWizard

wizVars == <<shell, wiz>>

\* On its own, the page is entered by a link of the dashboard.
WizSpec ==
  /\ ShellInit /\ WizInit
  /\ [][WizNext \/ (~wiz.on /\ Follow /\ UNCHANGED wiz)]_wizVars

\* Every call of the browser ends, by an answer or by an error.
WizFairness ==
  /\ \A a \in Asks : WF_wizVars(SkillsSuggested(a) \/ AskEndsWithout(a))
  /\ WF_wizVars(SubmitSettles)
-----------------------------------------------------------------------------
WizTypeOK == wiz \in Wiz

(* The wizard passes a required field only when it is filled: whatever the *)
(* order of clicks, edits, suggestions and jobs added or removed, a field  *)
(* behind the current step is missing only if a step that was being left   *)
(* passed it by a second press, emptied it or moved it behind the wizard.  *)
PassedStepsFilled ==
  \A f \in Required : StepOf(f) < wiz.step => Has(f, wiz.form) \/ f \in wiz.missed

(* A submission sends every required field, but those missed in that way:  *)
(* also the one that is sent by a last step on its way out, with the form  *)
(* of its last render.                                                     *)
SubmittedComplete ==
  [][wiz'.builds > wiz.builds =>
         \A f \in Required : Has(f, OnScreen) \/ f \in wiz.missed]_wizVars

(* One wizard builds one resume, unless a generation was refused after its *)
(* build, the answer of a build was lost, or the last step was submitted   *)
(* while it left the screen.                                               *)
OneResumePerWizard == wiz.built > 1 => wiz.refused \/ wiz.lost \/ wiz.doubled
=============================================================================
