------------------------------ MODULE JobStatus ------------------------------
(***************************************************************************)
(* The page /dashboard/generating/[jobId] and its hook useJobStatus: a     *)
(* loop of polls (token, request, answer, timer), a visual progress that   *)
(* a second timer advances, and the redirect once the portfolio is done.   *)
(* The backend is what PortfolioLifecycle promises to whoever polls it     *)
(* (Generation is shown to implement it).                                  *)
(***************************************************************************)
EXTENDS AppShell, Integers

CONSTANTS
  Jobs,       \* portfolio ids
  None,
  MaxRuns     \* bound: runs of the hook's effect while the page is mounted

ASSUME MaxRunsAssumption == MaxRuns \in Nat \ {0}
ASSUME NoneAssumption == None \notin Jobs

VARIABLES
  status, retired,  \* the backend: see PortfolioLifecycle
  polls,            \* polls[e]: the polling loop of the e-th run of the effect
  gen               \* the page and its hook:
                    \*   job        the page's jobId; None: not mounted
                    \*   runs       runs of the hook's effect so far
                    \*   stopped    the ref shared by all these runs
                    \*   ticking    the timer of the visual progress is armed
                    \*   phase, shown, error   what the hook returns; shown
                    \*              is the id in portfolioStatus
                    \*   lostToken  history: the last run met no session
                    \*   wasFailed  history: the backend said "failed"

jobVars == <<status, retired, polls, gen>>

Backend == INSTANCE PortfolioLifecycle WITH Portfolios <- Jobs

Final == {"done", "failed"}
Statuses == {"absent", "queued", "generating", "published", "failed"}
At(pc) == [at |-> pc, answer |-> "absent"]
Off == At("off")
Runs == 1 .. MaxRuns

Gen == [job : Jobs \cup {None}, runs : 0 .. MaxRuns,
        stopped : BOOLEAN, ticking : BOOLEAN,
        phase : {"parsing", "enhancing", "building", "finishing"} \cup Final,
        shown : Jobs \cup {None}, error : BOOLEAN,
        lostToken : BOOLEAN, wasFailed : BOOLEAN]

Unmounted == [job |-> None, runs |-> 0, stopped |-> FALSE, ticking |-> FALSE,
              phase |-> "parsing", shown |-> None, error |-> FALSE,
              lostToken |-> FALSE, wasFailed |-> FALSE]
-----------------------------------------------------------------------------
(* What the page shows of the hook's state. *)

PhaseIndex == [parsing |-> 0, enhancing |-> 1, building |-> 2,
               finishing |-> 3, done |-> 4, failed |-> -1]

\* The step indicators that are ticked off; a failure hides them all.
StepsDone ==
  IF gen.error THEN {} ELSE {i \in 0 .. 3 : i < PhaseIndex[gen.phase]}

\* The icon, the heading and, under a failure, the button "Try again".
Heading ==
  IF gen.error THEN "failed" ELSE IF gen.phase = "done" THEN "ready" ELSE gen.phase
-----------------------------------------------------------------------------
JobInit ==
  /\ status = [j \in Jobs |-> "absent"] /\ retired = {}
  /\ polls = [e \in Runs |-> Off]
  /\ gen = Unmounted

\* The page is gone: answers that come later set the state of nothing.
JobClose ==
  /\ status' = [j \in Jobs |-> "absent"] /\ retired' = {}
  /\ polls' = [e \in Runs |-> Off]
  /\ gen' = Unmounted

\* The page mounts; the portfolio is in any state by then: not committed
\* yet, in the hands of a worker, or finished.
OpenJob(j) ==
  /\ route = "generating" /\ gen.job = None
  /\ status' \in [Jobs -> Statuses]
  /\ gen' = [gen EXCEPT !.job = j, !.runs = 1, !.ticking = TRUE,
                        !.wasFailed = (status'[j] = "failed")]
  /\ polls' = [polls EXCEPT ![1] = At("token")]
  /\ UNCHANGED <<shell, retired>>

\* The effect runs again (React's strict mode, or a new getToken): the
\* cleanup stops and clears the timers of the last run, then the next run
\* takes the shared ref back.
RerunEffect ==
  /\ gen.job # None /\ gen.runs < MaxRuns
  /\ gen' = [gen EXCEPT !.runs = @ + 1, !.stopped = FALSE, !.ticking = TRUE,
                        !.lostToken = FALSE]
  /\ polls' = [polls EXCEPT
                 ![gen.runs] = IF @.at = "timer" THEN Off ELSE @,
                 ![gen.runs + 1] = At("token")]
  /\ UNCHANGED <<shell, status, retired>>
-----------------------------------------------------------------------------
(* One polling loop. *)

Move(e, from, to) ==
  /\ polls[e].at = from
  /\ polls' = [polls EXCEPT ![e] = to]

(* Faulty variant, used by one check only: no poll schedules the next one. *)
Rearmed_Never == Off

Rearmed == IF gen.stopped THEN Off ELSE At("timer")

PollStarts(e) ==
  /\ Move(e, "timer", IF gen.stopped THEN Off ELSE At("token"))
  /\ UNCHANGED <<shell, status, retired, gen>>

TokenFound(e) ==
  /\ Move(e, "token", At("asked"))
  /\ UNCHANGED <<shell, status, retired, gen>>

\* No session: the poll returns without an error and without the next timer.
TokenMissing(e) ==
  /\ Move(e, "token", Off)
  /\ gen' = [gen EXCEPT !.lostToken = @ \/ e = gen.runs]
  /\ UNCHANGED <<shell, status, retired>>

Answered(e) ==
  /\ gen.job # None /\ status[gen.job] # "absent"
  /\ Move(e, "asked", [at |-> "answered", answer |-> status[gen.job]])
  /\ UNCHANGED <<shell, status, retired, gen>>

(* Faulty variant, used by one check only: a poll that goes wrong is taken for a failure. *)
PollFails_GivesUp(e) ==
  /\ Move(e, "token", Off) \/ Move(e, "asked", Off)
  /\ gen' = [gen EXCEPT !.phase = "failed", !.error = TRUE, !.stopped = TRUE]
  /\ UNCHANGED <<shell, status, retired>>

\* getToken rejects, the request fails or is a 404: poll on.
PollFails(e) ==
  /\ Move(e, "token", Rearmed) \/ Move(e, "asked", Rearmed)
  /\ UNCHANGED <<shell, status, retired, gen>>

(* Faulty variant, used by one check only: every answer sets the phase. *)
Delivered_SetsPhase(e) ==
  /\ Move(e, "answered", Rearmed)
  /\ gen' = [gen EXCEPT !.shown = gen.job,
                        !.phase = IF polls[e].answer = "generating" THEN "building" ELSE "parsing"]
  /\ UNCHANGED <<shell, status, retired>>

\* The answer is kept; a verdict stops every loop, anything else polls on.
Delivered(e) ==
  /\ \/ /\ polls[e].answer = "published"
        /\ Move(e, "answered", Off)
        /\ gen' = [gen EXCEPT !.shown = gen.job, !.phase = "done", !.stopped = TRUE]
     \/ /\ polls[e].answer = "failed"
        /\ Move(e, "answered", Off)
        /\ gen' = [gen EXCEPT !.shown = gen.job, !.phase = "failed",
                              !.error = TRUE, !.stopped = TRUE]
     \/ /\ polls[e].answer \in {"queued", "generating"}
        /\ Move(e, "answered", Rearmed)
        /\ gen' = [gen EXCEPT !.shown = gen.job]
  /\ UNCHANGED <<shell, status, retired>>

Advanced == [parsing |-> "enhancing", enhancing |-> "building",
             building |-> "finishing", finishing |-> "finishing",
             done |-> "done", failed |-> "failed"]

\* The visual progress; its timer ends at the first tick after a verdict.
Tick ==
  /\ gen.ticking
  /\ gen' = IF gen.stopped THEN [gen EXCEPT !.ticking = FALSE]
                           ELSE [gen EXCEPT !.phase = Advanced[@]]
  /\ UNCHANGED <<shell, status, retired, polls>>
-----------------------------------------------------------------------------
\* The effect of the page: 1.5 s after "done" to the preview of what is shown.
Redirect ==
  /\ gen.phase = "done" /\ gen.shown # None
  /\ Push("preview") /\ JobClose

TryAgain == Heading = "failed" /\ Push("upload") /\ JobClose

LeaveJob == gen.job # None /\ Push("dashboard") /\ JobClose

BackendStep ==
  /\ gen.job # None
  /\ Backend!Next
  /\ gen' = [gen EXCEPT !.wasFailed = @ \/ status'[gen.job] = "failed"]
  /\ UNCHANGED <<shell, polls>>

JobNext ==
  \/ \E j \in Jobs : OpenJob(j)
  \/ \E e \in Runs :
        \/ PollStarts(e) \/ TokenFound(e) \/ TokenMissing(e)
        \/ Answered(e) \/ PollFails(e) \/ Delivered(e)
  \/ RerunEffect \/ Tick \/ Redirect \/ TryAgain \/ LeaveJob \/ BackendStep

\* On its own, the page is entered by a push from anywhere.
PushJob == gen.job = None /\ Push("generating") /\ UNCHANGED jobVars

JobSpec == ShellInit /\ JobInit /\ [][PushJob \/ JobNext]_<<shell, jobVars>>

\* Timers fire, a session that is there is found again and again, and the
\* status of a portfolio that exists is answered again and again.
JobFairness ==
  /\ WF_<<shell, jobVars>>(\E e \in Runs : PollStarts(e) \/ Delivered(e))
  /\ SF_<<shell, jobVars>>(\E e \in Runs : TokenFound(e))
  /\ SF_<<shell, jobVars>>(\E e \in Runs : Answered(e))
-----------------------------------------------------------------------------
JobTypeOK ==
  /\ status \in [Jobs -> Statuses] /\ retired \subseteq Jobs
  /\ polls \in [Runs -> [at : {"off", "token", "asked", "answered", "timer"},
                         answer : Statuses]]
  /\ gen \in Gen

(* A page without a verdict that no loop works on any more has lost its    *)
(* session: "return" in the middle of the poll is the only silent end.     *)
JobNotFrozen ==
  gen.job # None /\ gen.phase \notin Final /\ ~gen.lostToken =>
    ~gen.stopped /\ \E e \in Runs : polls[e].at # "off"

(* The page reports a failure only after the backend said so (it may       *)
(* have been retried since), never because a poll went wrong; and it       *)
(* shows a failure while it redirects to the finished page only when two   *)
(* runs of the effect polled at once.                                      *)
VerdictIsEarned ==
  /\ gen.error => gen.wasFailed
  /\ gen.error /\ gen.phase = "done" => gen.runs > 1

(* What the page has ticked off stays ticked off: neither an old answer    *)
(* nor the timer takes the progress back, unless a failure hides it.       *)
ProgressNeverFallsBack ==
  [][gen.job # None /\ gen'.job = gen.job /\ ~gen'.error
       => StepsDone \subseteq StepsDone']_<<shell, jobVars>>

(* A published portfolio does not leave its page waiting for ever.         *)
VerdictShown ==
  \A j \in Jobs :
    []<>~(/\ gen.job = j /\ status[j] = "published"
          /\ ~gen.lostToken /\ gen.phase \notin Final)
=============================================================================
