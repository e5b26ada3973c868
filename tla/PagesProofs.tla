----------------------------- MODULE PagesProofs -----------------------------
(* Proofs about the pages of the dashboard, each on its own: the generation   *)
(* page, the wizard, the upload page, the pages of the portfolios and those of *)
(* the sidebar; for any jobs, portfolios, resumes and number of calls at once. *)
(* The step lemmas of a page speak of its Moves: its own actions, its being   *)
(* closed, and steps that leave it alone.  Nothing else can happen to it,     *)
(* alone or inside the application.                                           *)
EXTENDS JobStatus, ResumeBuilder, UploadFlow, PortfolioPages, DashboardPages, TLAPS

-----------------------------------------------------------------------------
(* The generation page, for any number of runs of the hook's effect.          *)

Poll == [at : {"off", "token", "asked", "answered", "timer"}, answer : Statuses]

\* A mounted page has run its effect; loops are those of its runs.
Running ==
  /\ gen.job # None => gen.runs \in Runs
  /\ \A e \in Runs : polls[e].at # "off" => e <= gen.runs

\* Without a verdict nothing is stopped, and the last run's loop goes on.
LastRunLives ==
  gen.job # None /\ gen.phase \notin Final =>
    /\ ~gen.stopped
    /\ ~gen.lostToken => polls[gen.runs].at # "off"

\* "failed" is known to the page only after the backend said so.
FailureIsKnown ==
  /\ gen.job # None /\ status[gen.job] = "failed" => gen.wasFailed
  /\ \A e \in Runs :
       polls[e].at = "answered" /\ polls[e].answer = "failed" => gen.wasFailed

ErrorIsVerdict == gen.error => gen.phase \in Final

\* A page that has run its effect once has one loop, and one verdict.
OneVerdict ==
  gen.runs <= 1 /\ gen.phase \in Final => \A e \in Runs : polls[e].at = "off"

\* A page that is not mounted has no state.
NoPageNoState == gen.job = None => gen = Unmounted /\ polls = [e \in Runs |-> Off]

JobInv ==
  /\ JobTypeOK /\ NoPageNoState /\ Running /\ LastRunLives /\ FailureIsKnown /\ ErrorIsVerdict
  /\ OneVerdict /\ VerdictIsEarned

\* All that a step of the application can do to the page.
JobMoves == JobNext \/ JobClose \/ UNCHANGED jobVars

LEMMA Constants ==
  /\ MaxRuns \in Nat \ {0} /\ None \notin Jobs /\ 1 \in Runs
  /\ \A n \in Runs : n \in Nat /\ n \in 0 .. MaxRuns /\ 1 <= n
BY MaxRunsAssumption, NoneAssumption DEF Runs

\* The invariant without the parts that speak of types.
LEMMA UnmountedInv ==
  ASSUME status = [j \in Jobs |-> "absent"], retired = {},
         polls = [e \in Runs |-> Off], gen = Unmounted
  PROVE  JobInv
<1>1. JobTypeOK
  BY Constants DEF JobTypeOK, Off, At, Unmounted, Gen, Statuses, Final
<1>2. NoPageNoState /\ Running /\ LastRunLives /\ FailureIsKnown /\ ErrorIsVerdict /\ OneVerdict /\ VerdictIsEarned
  BY DEF NoPageNoState, Running, LastRunLives, FailureIsKnown, ErrorIsVerdict, OneVerdict,
         VerdictIsEarned, Off, At, Unmounted, Final
<1> QED
  BY <1>1, <1>2 DEF JobInv
-----------------------------------------------------------------------------
LEMMA OpenInv == ASSUME JobInv, NEW j \in Jobs, OpenJob(j) PROVE JobInv'
<1> USE Constants
<1> DEFINE failed == status'[j] = "failed"
<1>1. /\ gen = Unmounted /\ retired' \subseteq Jobs /\ status' \in [Jobs -> Statuses]
      /\ gen' = [Unmounted EXCEPT !.job = j, !.runs = 1, !.ticking = TRUE, !.wasFailed = failed]
      /\ polls' = [polls EXCEPT ![1] = At("token")] /\ polls = [e \in Runs |-> Off]
  BY DEF JobInv, JobTypeOK, NoPageNoState, OpenJob
<1>2. polls' \in [Runs -> Poll] /\ polls'[1].at = "token"
      /\ \A e \in Runs : (polls'[e].at # "off" => e = 1) /\ polls'[e].at # "answered"
  BY <1>1 DEF At, Off, Poll, Statuses
<1>3. failed \in BOOLEAN
  OBVIOUS
<1> HIDE DEF failed
<1>4. gen' \in Gen
  BY <1>1, <1>3 DEF Gen, Unmounted, Final
<1>5. /\ gen'.job = j /\ gen'.runs = 1 /\ ~gen'.stopped /\ gen'.phase = "parsing"
      /\ ~gen'.error /\ gen'.wasFailed = failed
  BY <1>1 DEF Unmounted
<1>6. JobTypeOK'
  BY <1>1, <1>2, <1>4 DEF JobTypeOK, Poll
<1>7. NoPageNoState' /\ Running' /\ LastRunLives'
  BY <1>2, <1>5 DEF NoPageNoState, Running, LastRunLives
<1>8. FailureIsKnown'
  BY <1>2, <1>5 DEF FailureIsKnown, failed
<1>9. ErrorIsVerdict' /\ OneVerdict' /\ VerdictIsEarned'
  BY <1>5 DEF ErrorIsVerdict, OneVerdict, VerdictIsEarned, Final
<1> QED
  BY <1>6, <1>7, <1>8, <1>9 DEF JobInv

(* The next run of the effect: its loop starts, the timer of the last ends.   *)
LEMMA RerunInv == ASSUME JobInv, RerunEffect PROVE JobInv'
<1> USE Constants
<1>1. /\ gen \in Gen /\ polls \in [Runs -> Poll] /\ gen.job # None
      /\ gen.runs \in Runs /\ gen.runs < MaxRuns /\ gen.runs + 1 \in Runs
  BY DEF JobInv, JobTypeOK, Running, RerunEffect, Poll, Runs
<1>2. /\ gen' = [gen EXCEPT !.runs = @ + 1, !.stopped = FALSE, !.ticking = TRUE,
                            !.lostToken = FALSE]
      /\ status' = status /\ retired' = retired
  BY DEF RerunEffect
<1>3. /\ polls' \in [Runs -> Poll] /\ polls'[gen.runs + 1].at = "token"
      /\ \A e \in Runs : e # gen.runs + 1 => polls'[e] \in {polls[e], Off}
  BY <1>1 DEF RerunEffect, At, Off, Poll, Statuses
<1>4. /\ gen' \in Gen /\ gen'.job = gen.job /\ gen'.runs = gen.runs + 1 /\ ~gen'.stopped
      /\ gen'.phase = gen.phase /\ gen'.error = gen.error /\ gen'.wasFailed = gen.wasFailed
  BY <1>1, <1>2 DEF Gen
<1>5. JobTypeOK'
  BY <1>2, <1>3, <1>4 DEF JobInv, JobTypeOK, Poll
<1>6. NoPageNoState' /\ LastRunLives'
  BY <1>1, <1>3, <1>4 DEF NoPageNoState, LastRunLives
<1>7. Running'
  <2>1. ASSUME NEW e \in Runs, polls'[e].at # "off" PROVE e <= gen.runs + 1
    <3>1. CASE e # gen.runs + 1
      BY <1>1, <1>3, <2>1, <3>1 DEF JobInv, Running, Off, At
    <3> QED
      BY <1>1, <3>1
  <2> QED
    BY <1>1, <1>4, <2>1 DEF Running
<1>8. FailureIsKnown'
  BY <1>2, <1>3, <1>4 DEF JobInv, FailureIsKnown, Off, At
<1>9. ErrorIsVerdict' /\ OneVerdict' /\ VerdictIsEarned'
  BY <1>1, <1>4 DEF JobInv, ErrorIsVerdict, OneVerdict, VerdictIsEarned
<1> QED
  BY <1>5, <1>6, <1>7, <1>8, <1>9 DEF JobInv
-----------------------------------------------------------------------------
(* One loop moves, and the hook's state stays as it is.                       *)
LEMMA LoopMoves ==
  ASSUME JobInv, NEW e \in Runs, NEW to \in Poll,
         polls[e].at # "off", polls' = [polls EXCEPT ![e] = to],
         UNCHANGED <<status, retired, gen>>,
         ~gen.stopped => to.at # "off",
         to.at = "answered" /\ to.answer = "failed" => gen.wasFailed
  PROVE  JobInv'
<1> USE Constants
<1>1. /\ gen \in Gen /\ polls \in [Runs -> Poll] /\ polls' \in [Runs -> Poll]
      /\ \A d \in Runs : polls'[d] = IF d = e THEN to ELSE polls[d]
  BY DEF JobInv, JobTypeOK, Poll
<1>2. JobTypeOK'
  BY <1>1 DEF JobInv, JobTypeOK, Poll
<1>3. gen.job # None /\ gen.runs \in Runs /\ e <= gen.runs
  BY DEF JobInv, NoPageNoState, Running, Off, At
<1>4. NoPageNoState' /\ ErrorIsVerdict' /\ VerdictIsEarned'
  BY <1>3 DEF JobInv, NoPageNoState, ErrorIsVerdict, VerdictIsEarned
<1>5. Running'
  BY <1>1, <1>3 DEF JobInv, Running
<1>6. LastRunLives'
  BY <1>1, <1>3 DEF JobInv, LastRunLives
<1>7. FailureIsKnown'
  BY <1>1 DEF JobInv, FailureIsKnown
<1>8. OneVerdict'
  BY DEF JobInv, OneVerdict
<1> QED
  BY <1>2, <1>4, <1>5, <1>6, <1>7, <1>8 DEF JobInv

LEMMA LoopStepsInv ==
  ASSUME JobInv, NEW e \in Runs, PollStarts(e) \/ TokenFound(e) \/ Answered(e) \/ PollFails(e)
  PROVE  JobInv'
<1>1. \A a \in {"off", "token", "asked", "timer"} :
        At(a) \in Poll /\ At(a).at = a /\ Off = At("off")
  BY DEF At, Poll, Statuses, Off
<1>2. CASE PollStarts(e)
  BY <1>1, <1>2, LoopMoves DEF PollStarts, Move
<1>3. CASE TokenFound(e)
  BY <1>1, <1>3, LoopMoves DEF TokenFound, Move
<1>4. CASE PollFails(e)
  <2>1. Rearmed \in Poll /\ (~gen.stopped => Rearmed.at # "off") /\ Rearmed.at # "answered"
    BY <1>1 DEF Rearmed
  <2> QED
    BY <1>4, <2>1, LoopMoves DEF PollFails, Move
<1>5. CASE Answered(e)
  <2> DEFINE to == [at |-> "answered", answer |-> status[gen.job]]
  <2>1. gen.job # None /\ status[gen.job] \in Statuses
    BY <1>5 DEF Answered, JobInv, JobTypeOK, Gen
  <2>2. to \in Poll /\ to.at = "answered" /\ (to.answer = "failed" => gen.wasFailed)
    BY <2>1 DEF Poll, JobInv, FailureIsKnown
  <2>3. polls[e].at # "off" /\ polls' = [polls EXCEPT ![e] = to]
        /\ UNCHANGED <<status, retired, gen>>
    BY <1>5 DEF Answered, Move
  <2> HIDE DEF to
  <2> QED
    BY <2>2, <2>3, LoopMoves
<1> QED
  BY <1>2, <1>3, <1>4, <1>5

(* A loop ends, by a lost session or by a verdict, or it keeps the answer.    *)
LEMMA LoopEnds ==
  ASSUME JobInv, NEW e \in Runs, NEW to \in {Off, At("timer")},
         polls[e].at # "off", polls' = [polls EXCEPT ![e] = to],
         UNCHANGED <<status, retired>>, gen' \in Gen,
         /\ gen'.job = gen.job /\ gen'.runs = gen.runs /\ gen'.wasFailed = gen.wasFailed
         /\ gen.lostToken => gen'.lostToken,
         \/ /\ gen'.phase = gen.phase /\ gen'.stopped = gen.stopped /\ gen'.error = gen.error
            /\ (e = gen.runs => gen'.lostToken) \/ to = Rearmed
         \/ to = Off /\ gen'.phase = "done" /\ gen'.error = gen.error
         \/ to = Off /\ gen'.phase = "failed" /\ gen.wasFailed
  PROVE  JobInv'
<1> USE Constants
<1>1. /\ gen \in Gen /\ polls \in [Runs -> Poll] /\ polls' \in [Runs -> Poll]
      /\ \A d \in Runs : polls'[d] = IF d = e THEN to ELSE polls[d]
      /\ to.at \in {"off", "timer"} /\ Off.at = "off" /\ At("timer").at = "timer"
  BY DEF JobInv, JobTypeOK, Poll, At, Off, Statuses
<1>2. JobTypeOK'
  BY <1>1 DEF JobInv, JobTypeOK, Poll
<1>3. gen.job # None /\ gen.runs \in Runs /\ e <= gen.runs
  BY DEF JobInv, NoPageNoState, Running, Off, At
<1>4. gen.runs <= 1 => gen.phase \notin Final /\ ~gen.error /\ e = gen.runs
                         /\ \A d \in Runs : d # e => polls[d].at = "off"
  <2>1. gen.runs <= 1 => gen.phase \notin Final /\ ~gen.error
    BY DEF JobInv, OneVerdict, ErrorIsVerdict
  <2>2. gen.runs <= 1 => e = 1 /\ gen.runs = 1 /\ \A d \in Runs : d # 1 => ~(d <= gen.runs)
    BY <1>3
  <2> QED
    BY <2>1, <2>2 DEF JobInv, Running
<1>5. NoPageNoState' /\ ErrorIsVerdict'
  BY <1>3 DEF JobInv, NoPageNoState, ErrorIsVerdict, Final
<1>6. VerdictIsEarned'
  BY <1>3, <1>4 DEF JobInv, VerdictIsEarned, Final
<1>7. Running'
  BY <1>1, <1>3 DEF JobInv, Running
<1>8. LastRunLives'
  BY <1>1, <1>3 DEF JobInv, LastRunLives, Final, Rearmed
<1>9. FailureIsKnown'
  BY <1>1 DEF JobInv, FailureIsKnown
<1>10. OneVerdict'
  BY <1>1, <1>3, <1>4 DEF OneVerdict
<1> QED
  BY <1>2, <1>5, <1>6, <1>7, <1>8, <1>9, <1>10 DEF JobInv

LEMMA TokenMissingInv == ASSUME JobInv, NEW e \in Runs, TokenMissing(e) PROVE JobInv'
<1>1. /\ polls[e].at # "off" /\ polls' = [polls EXCEPT ![e] = Off]
      /\ UNCHANGED <<status, retired>>
      /\ gen' = [gen EXCEPT !.lostToken = @ \/ e = gen.runs]
  BY DEF TokenMissing, Move
<1>2. gen \in Gen
  BY DEF JobInv, JobTypeOK
<1>3. gen' \in Gen /\ (gen.lostToken \/ e = gen.runs => gen'.lostToken)
  BY <1>1, <1>2 DEF Gen
<1>4. /\ gen'.job = gen.job /\ gen'.runs = gen.runs /\ gen'.wasFailed = gen.wasFailed
      /\ gen'.phase = gen.phase /\ gen'.stopped = gen.stopped /\ gen'.error = gen.error
  BY <1>1, <1>2 DEF Gen
<1> QED
  BY <1>1, <1>3, <1>4, LoopEnds

LEMMA DeliveredInv == ASSUME JobInv, NEW e \in Runs, Delivered(e) PROVE JobInv'
<1>1. gen \in Gen /\ gen.job \in Jobs \cup {None} /\ polls[e].at = "answered"
      /\ UNCHANGED <<status, retired>>
  BY DEF JobInv, JobTypeOK, Gen, Delivered, Move
<1>2. CASE polls[e].answer = "published"
  <2>1. polls' = [polls EXCEPT ![e] = Off]
        /\ gen' = [gen EXCEPT !.shown = gen.job, !.phase = "done", !.stopped = TRUE]
    BY <1>2 DEF Delivered, Move
  <2>2. gen' \in Gen
    BY <1>1, <2>1 DEF Gen, Final
  <2>3. /\ gen'.job = gen.job /\ gen'.runs = gen.runs /\ gen'.wasFailed = gen.wasFailed
        /\ gen'.lostToken = gen.lostToken /\ gen'.phase = "done" /\ gen'.error = gen.error
    BY <1>1, <2>1 DEF Gen
  <2> QED
    BY <1>1, <2>1, <2>2, <2>3, LoopEnds
<1>3. CASE polls[e].answer = "failed"
  <2>1. polls' = [polls EXCEPT ![e] = Off]
        /\ gen' = [gen EXCEPT !.shown = gen.job, !.phase = "failed", !.error = TRUE,
                              !.stopped = TRUE]
    BY <1>3 DEF Delivered, Move
  <2>2. gen' \in Gen
    BY <1>1, <2>1 DEF Gen, Final
  <2>3. /\ gen'.job = gen.job /\ gen'.runs = gen.runs /\ gen'.wasFailed = gen.wasFailed
        /\ gen'.lostToken = gen.lostToken /\ gen'.phase = "failed" /\ gen.wasFailed
    BY <1>1, <1>3, <2>1 DEF Gen, JobInv, FailureIsKnown
  <2> QED
    BY <1>1, <2>1, <2>2, <2>3, LoopEnds
<1>4. CASE polls[e].answer \in {"queued", "generating"}
  <2>1. polls' = [polls EXCEPT ![e] = Rearmed] /\ gen' = [gen EXCEPT !.shown = gen.job]
    BY <1>4 DEF Delivered, Move
  <2>2. gen' \in Gen
    BY <1>1, <2>1 DEF Gen
  <2>3. /\ gen'.job = gen.job /\ gen'.runs = gen.runs /\ gen'.wasFailed = gen.wasFailed
        /\ gen'.lostToken = gen.lostToken
        /\ gen'.phase = gen.phase /\ gen'.stopped = gen.stopped /\ gen'.error = gen.error
    BY <1>1, <2>1 DEF Gen
  <2>4. Rearmed \in {Off, At("timer")}
    BY DEF Rearmed
  <2> QED
    BY <1>1, <2>1, <2>2, <2>3, <2>4, LoopEnds
<1> QED
  BY <1>2, <1>3, <1>4 DEF Delivered

(* The visual progress neither makes a verdict nor ends one.                  *)
LEMMA TickInv == ASSUME JobInv, Tick PROVE JobInv'
<1>1. gen \in Gen /\ UNCHANGED <<status, retired, polls>>
  BY DEF JobInv, JobTypeOK, Tick
<1>2. gen.job # None
  BY DEF JobInv, NoPageNoState, Unmounted, Tick
<1>3. /\ Advanced[gen.phase] \in {"parsing", "enhancing", "building", "finishing"} \cup Final
      /\ Advanced[gen.phase] \in Final <=> gen.phase \in Final
      /\ Advanced[gen.phase] = "done" <=> gen.phase = "done"
  BY <1>1 DEF Advanced, Gen, Final
<1>4. /\ gen' \in Gen /\ gen'.job = gen.job /\ gen'.runs = gen.runs
      /\ gen'.stopped = gen.stopped /\ gen'.lostToken = gen.lostToken
      /\ gen'.wasFailed = gen.wasFailed /\ gen'.error = gen.error
      /\ gen'.phase \in {gen.phase, Advanced[gen.phase]}
  BY <1>1, <1>3 DEF Tick, Gen
<1>5. JobTypeOK' /\ NoPageNoState' /\ Running'
  BY <1>1, <1>2, <1>4 DEF JobInv, JobTypeOK, NoPageNoState, Running
<1>6. LastRunLives' /\ ErrorIsVerdict' /\ OneVerdict'
  BY <1>1, <1>3, <1>4 DEF JobInv, LastRunLives, ErrorIsVerdict, OneVerdict
<1>7. FailureIsKnown' /\ VerdictIsEarned'
  BY <1>1, <1>3, <1>4 DEF JobInv, FailureIsKnown, VerdictIsEarned
<1> QED
  BY <1>5, <1>6, <1>7 DEF JobInv

(* The backend moves on, whatever it does.                                    *)
LEMMA BackendStepInv == ASSUME JobInv, BackendStep PROVE JobInv'
<1> DEFINE failed == gen.wasFailed \/ status'[gen.job] = "failed"
<1>1. /\ gen \in Gen /\ gen.job # None /\ UNCHANGED polls
      /\ gen' = [gen EXCEPT !.wasFailed = failed]
  BY DEF JobInv, JobTypeOK, BackendStep
<1>2. status' \in [Jobs -> Statuses] /\ retired' \subseteq Jobs
  <2>1. PICK j \in Jobs :
          Backend!Accept(j) \/ Backend!Start(j) \/ Backend!Finish(j) \/ Backend!Retire(j)
    BY DEF BackendStep, Backend!Next
  <2>2. status \in [Jobs -> Statuses] /\ retired \subseteq Jobs
    BY DEF JobInv, JobTypeOK
  <2> QED
    BY <2>1, <2>2 DEF Backend!Accept, Backend!Start, Backend!Finish, Backend!Retire,
         Backend!SetStatus, Statuses
<1>3. failed \in BOOLEAN /\ (gen.wasFailed => failed)
      /\ (status'[gen.job] = "failed" => failed)
  OBVIOUS
<1> HIDE DEF failed
<1>4. /\ gen' \in Gen /\ gen'.job = gen.job /\ gen'.runs = gen.runs
      /\ gen'.stopped = gen.stopped /\ gen'.lostToken = gen.lostToken
      /\ gen'.wasFailed = failed /\ gen'.error = gen.error /\ gen'.phase = gen.phase
  BY <1>1, <1>3 DEF Gen
<1>5. JobTypeOK' /\ NoPageNoState' /\ Running'
  BY <1>1, <1>2, <1>4 DEF JobInv, JobTypeOK, NoPageNoState, Running
<1>6. LastRunLives' /\ ErrorIsVerdict' /\ OneVerdict'
  BY <1>1, <1>4 DEF JobInv, LastRunLives, ErrorIsVerdict, OneVerdict
<1>7. FailureIsKnown' /\ VerdictIsEarned'
  BY <1>1, <1>3, <1>4 DEF JobInv, FailureIsKnown, VerdictIsEarned
<1> QED
  BY <1>5, <1>6, <1>7 DEF JobInv
-----------------------------------------------------------------------------
LEMMA JobClosedInv == ASSUME JobClose PROVE JobInv'
<1>1. (/\ status = [j \in Jobs |-> "absent"] /\ retired = {}
       /\ polls = [e \in Runs |-> Off] /\ gen = Unmounted)'
  BY DEF JobClose, Unmounted, Off, At
<1> QED
  BY <1>1, UnmountedInv, PTL

LEMMA JobMovesInv == ASSUME JobInv, JobMoves PROVE JobInv'
<1>1. CASE UNCHANGED jobVars
  BY <1>1 DEF jobVars, JobInv, JobTypeOK, NoPageNoState, Running, LastRunLives,
       FailureIsKnown, ErrorIsVerdict, OneVerdict, VerdictIsEarned
<1>2. CASE JobClose \/ Redirect \/ TryAgain \/ LeaveJob
  BY <1>2, JobClosedInv DEF Redirect, TryAgain, LeaveJob
<1>3. CASE JobNext
  BY <1>2, <1>3, OpenInv, RerunInv, LoopStepsInv, TokenMissingInv, DeliveredInv, TickInv,
     BackendStepInv DEF JobNext
<1> QED
  BY <1>1, <1>2, <1>3 DEF JobMoves
-----------------------------------------------------------------------------
LEMMA StepsOnlyGrow ==
  ASSUME gen.phase \in {"parsing", "enhancing", "building", "finishing"} \cup Final,
         gen'.phase \in {gen.phase, Advanced[gen.phase], "done"}, gen.error \in BOOLEAN,
         ~gen'.error
  PROVE  StepsDone \subseteq StepsDone'
<1>1. PhaseIndex[gen.phase] \in Int /\ PhaseIndex[gen'.phase] \in Int
      /\ PhaseIndex[gen.phase] <= PhaseIndex[gen'.phase]
  BY DEF PhaseIndex, Advanced, Final
<1> QED
  BY <1>1 DEF StepsDone

LEMMA ProgressKept ==
  ASSUME JobInv, JobMoves, gen.job # None, gen'.job = gen.job, ~gen'.error
  PROVE  StepsDone \subseteq StepsDone'
<1>1. gen \in Gen
  BY DEF JobInv, JobTypeOK
<1>2. ASSUME gen'.phase \in {gen.phase, Advanced[gen.phase], "done"}
      PROVE  StepsDone \subseteq StepsDone'
  BY <1>1, <1>2, StepsOnlyGrow DEF Gen
<1>3. CASE \E e \in Runs : PollStarts(e) \/ TokenFound(e) \/ Answered(e) \/ PollFails(e)
  BY <1>2, <1>3 DEF PollStarts, TokenFound, Answered, PollFails
<1>4. CASE \E e \in Runs : TokenMissing(e) \/ Delivered(e)
  BY <1>1, <1>2, <1>4 DEF TokenMissing, Delivered, Gen
<1>5. CASE RerunEffect \/ BackendStep
  BY <1>1, <1>2, <1>5 DEF RerunEffect, BackendStep, Gen
<1>6. CASE Tick
  BY <1>1, <1>2, <1>6 DEF Tick, Gen
<1>7. CASE UNCHANGED jobVars
  BY <1>2, <1>7 DEF jobVars
<1>8. ~(\E j \in Jobs : OpenJob(j))
  BY DEF OpenJob
<1>9. ~(JobClose \/ Redirect \/ TryAgain \/ LeaveJob)
  BY DEF Redirect, TryAgain, LeaveJob, JobClose, Unmounted
<1> QED
  BY <1>3, <1>4, <1>5, <1>6, <1>7, <1>8, <1>9 DEF JobMoves, JobNext

LEMMA NotFrozen == ASSUME JobInv PROVE JobNotFrozen
BY DEF JobInv, Running, LastRunLives, JobNotFrozen
-----------------------------------------------------------------------------
LEMMA JobInvAlways == JobInit /\ [][JobMoves]_<<shell, jobVars>> => []JobInv
<1>1. JobInit => JobInv
  BY UnmountedInv DEF JobInit
<1>2. JobInv /\ [JobMoves]_<<shell, jobVars>> => JobInv'
  BY JobMovesInv DEF JobMoves
<1> QED
  BY <1>1, <1>2, PTL

LEMMA JobSpecMoves == JobSpec => JobInit /\ [][JobMoves]_<<shell, jobVars>>
<1>1. PushJob \/ JobNext => JobMoves
  BY DEF JobMoves, PushJob
<1> QED
  BY <1>1, PTL DEF JobSpec

(* The page alone keeps its types, and without a verdict and with its session *)
(* it goes on polling.                                                        *)
THEOREM PollingAlone == JobSpec => [](JobTypeOK /\ JobNotFrozen)
<1>1. JobInv => JobTypeOK /\ JobNotFrozen
  BY NotFrozen DEF JobInv
<1> QED
  BY <1>1, JobSpecMoves, JobInvAlways, PTL

(* A failure is shown only after the backend said so, and together with a     *)
(* finished page only when the effect has run more than once.                 *)
THEOREM VerdictsEarned == JobSpec => []VerdictIsEarned
<1>1. JobInv => VerdictIsEarned
  BY DEF JobInv
<1> QED
  BY <1>1, JobSpecMoves, JobInvAlways, PTL

(* The progress shown is taken back by a failure only.                        *)
THEOREM ProgressNeverBack == JobSpec => ProgressNeverFallsBack
<1>1. JobInv /\ [JobMoves]_<<shell, jobVars>> =>
        [gen.job # None /\ gen'.job = gen.job /\ ~gen'.error
           => StepsDone \subseteq StepsDone']_<<shell, jobVars>>
  BY ProgressKept
<1> QED
  BY <1>1, JobSpecMoves, JobInvAlways, PTL DEF ProgressNeverFallsBack

-----------------------------------------------------------------------------
(* The wizard, for any number of jobs, resumes, presses and requests.         *)

ConstantsTyped ==
  MaxWorks \in Nat \ {0} /\ MaxBuilt \in Nat /\ MaxPresses \in Nat

LEMMA ConstantsAreTyped == ConstantsTyped
BY MaxWorksAssumption, MaxBuiltAssumption, MaxPressesAssumption DEF ConstantsTyped

\* A resume that is being built, or was, has been counted.
Counted == wiz.builds + wiz.built <= MaxBuilt /\ wiz.starts <= wiz.built

\* Without a press on a leaving step one submission runs at a time, behind
\* the flag.
OneAtATime ==
  ~wiz.doubled =>
    /\ wiz.builds + wiz.starts <= 1
    /\ wiz.builds + wiz.starts = 1 => wiz.submitting

\* Without a refusal or a lost answer every resume still waits for its portfolio.
StartsAreBuilt == ~wiz.refused /\ ~wiz.lost => wiz.starts = wiz.built

\* A form to which only what was missed is wanting.
Complete(form) == \A f \in Required : Has(f, form) \/ f \in wiz.missed

\* The last step, leaving with its button enabled, shows a complete form.
LastIsComplete ==
  wiz.leaving # 0 /\ wiz.leaving = TotalOf(wiz.old) /\ wiz.open => Complete(wiz.old)

WizInv ==
  /\ WizTypeOK /\ Counted /\ OneAtATime /\ StartsAreBuilt
  /\ PassedStepsFilled /\ LastIsComplete

\* All that a step of the application can do to the page.
WizMoves == WizNext \/ WizClose \/ UNCHANGED wiz
-----------------------------------------------------------------------------
LEMMA ClosedInv == ASSUME wiz = WizClosed PROVE WizInv
<1> USE ConstantsAreTyped DEF ConstantsTyped
<1>1. INITIAL \in Form /\ NoAsk \in Ask
  BY DEF INITIAL, Form, NoAsk, Ask
<1>2. WizTypeOK
  BY <1>1 DEF WizTypeOK, WizClosed, Wiz, Step
<1>3. Counted /\ OneAtATime /\ StartsAreBuilt
  BY DEF WizClosed, Counted, OneAtATime, StartsAreBuilt
<1>4. PassedStepsFilled
  BY DEF WizClosed, INITIAL, PassedStepsFilled, StepOf, StepIn, Required, Texts
<1>5. LastIsComplete
  BY DEF WizClosed, LastIsComplete
<1> QED
  BY <1>2, <1>3, <1>4, <1>5 DEF WizInv

LEMMA StepBounds ==
  ASSUME wiz \in Wiz
  PROVE  /\ wiz.step \in Nat /\ 1 <= wiz.step
         /\ wiz.form \in Form /\ wiz.old \in Form
         /\ \A s \in Step : s \in Nat /\ 1 <= s
         /\ \A n \in Nat : 1 <= n /\ n <= MaxWorks + 7 <=> n \in Step
         /\ \A form \in Form :
              /\ form.works \in Nat /\ 1 <= form.works /\ form.works <= MaxWorks
              /\ TotalOf(form) \in Step /\ 8 <= TotalOf(form) /\ TotalOf(form) = form.works + 7
              /\ \A f \in Required :
                   /\ StepIn(f, form) \in Nat /\ 1 <= StepIn(f, form)
                   /\ StepIn(f, form) <= TotalOf(form)
<1> USE ConstantsAreTyped DEF ConstantsTyped
<1>1. wiz.step \in 1 .. MaxWorks + 7 /\ wiz.form \in Form /\ wiz.old \in Form
  BY DEF Wiz, Step
<1>2. ASSUME NEW form \in Form
      PROVE  /\ form.works \in Nat /\ 1 <= form.works /\ form.works <= MaxWorks
             /\ TotalOf(form) \in Step /\ 8 <= TotalOf(form) /\ TotalOf(form) = form.works + 7
  BY <1>2 DEF Form, TotalOf, Step
<1>3. ASSUME NEW form \in Form, NEW f \in Required
      PROVE  /\ StepIn(f, form) \in Nat /\ 1 <= StepIn(f, form)
             /\ StepIn(f, form) <= TotalOf(form)
  BY <1>2, <1>3 DEF StepIn, Required, Texts, TotalOf
<1> QED
  BY <1>1, <1>2, <1>3 DEF Step
-----------------------------------------------------------------------------
(* Steps of the form and of the requests for suggestions.                     *)

FormSet(form, n, still, q, M) ==
  wiz' = [wiz EXCEPT !.form = form, !.presses = n, !.suggesting = still,
                     !.asks = q, !.missed = M]

LEMMA FormChanges ==
  ASSUME WizInv, NEW form \in Form, NEW n \in 0 .. MaxPresses, NEW M \in SUBSET Required,
         NEW still \in BOOLEAN, NEW q \in [Asks -> Ask],
         FormSet(form, n, still, q, M),
         wiz.missed \subseteq M,
         \A f \in Required : StepIn(f, form) < wiz.step => Has(f, form) \/ f \in M
  PROVE  WizInv'
<1> USE ConstantsAreTyped DEF ConstantsTyped, WizInv, FormSet
<1>1. wiz \in Wiz
  BY DEF WizTypeOK
<1>2. WizTypeOK'
  BY <1>1 DEF WizTypeOK, Wiz
<1>3. Counted' /\ OneAtATime' /\ StartsAreBuilt'
  BY <1>1 DEF Counted, OneAtATime, StartsAreBuilt, Wiz
<1>4. /\ wiz'.form = form /\ wiz'.step = wiz.step /\ wiz'.missed = M
      /\ wiz'.leaving = wiz.leaving /\ wiz'.old = wiz.old /\ wiz'.open = wiz.open
  BY <1>1 DEF Wiz
<1>5. PassedStepsFilled'
  BY <1>4 DEF PassedStepsFilled, StepOf
<1>6. LastIsComplete'
  BY <1>4 DEF LastIsComplete, Complete
<1> QED
  BY <1>2, <1>3, <1>5, <1>6

(* An edit keeps the invariant if what it leaves unfilled behind the wizard   *)
(* was missing before, or is among the fields F of a step that is leaving.    *)
LEMMA EditInv ==
  ASSUME WizInv, NEW form \in Form, NEW F \in SUBSET Required, NEW n \in 0 .. MaxPresses,
         wiz' = [Edited(form, F) EXCEPT !.presses = n],
         \A f \in Required : StepIn(f, form) < wiz.step =>
           Has(f, form) \/ f \in wiz.missed \/ (f \in F /\ wiz.leaving # 0)
  PROVE  WizInv'
<1> DEFINE M == wiz.missed \cup {f \in F : wiz.leaving # 0 /\ StepIn(f, form) < wiz.step}
<1>1. wiz \in Wiz /\ wiz.missed \in SUBSET Required /\ wiz.suggesting \in BOOLEAN
      /\ wiz.asks \in [Asks -> Ask]
  BY DEF WizInv, WizTypeOK, Wiz
<1>2. FormSet(form, n, wiz.suggesting, wiz.asks, M)
  BY <1>1 DEF FormSet, Edited, Wiz
<1>3. M \in SUBSET Required /\ wiz.missed \subseteq M
  BY <1>1
<1>4. \A f \in Required : StepIn(f, form) < wiz.step => Has(f, form) \/ f \in M
  OBVIOUS
<1> HIDE DEF M
<1> QED
  BY <1>1, <1>2, <1>3, <1>4, FormChanges

LEMMA EditedPresses ==
  ASSUME wiz \in Wiz, NEW form, NEW F
  PROVE  /\ [Edited(form, F) EXCEPT !.presses = Presses] = Edited(form, F)
         /\ MayPress => Presses \in 0 .. MaxPresses
<1>1. [Edited(form, F) EXCEPT !.presses = Presses] = Edited(form, F)
  BY DEF Edited, Wiz
<1>2. MayPress => Presses \in 0 .. MaxPresses
  BY ConstantsAreTyped DEF ConstantsTyped, MayPress, Presses, Wiz
<1> QED
  BY <1>1, <1>2

\* Without a step that leaves, the fields of the step shown are not behind it.
LEMMA ShownNotPassed ==
  ASSUME wiz \in Wiz, wiz.leaving = 0, NEW f, Offers(f)
  PROVE  StepIn(f, wiz.form) = wiz.step
BY DEF Offers, OnScreen, OnStep

LEMMA TypeInv == ASSUME WizInv, NEW g \in Texts, Type(g) PROVE WizInv'
<1>1. /\ wiz \in Wiz /\ wiz.form \in Form /\ PassedStepsFilled
      /\ Presses \in 0 .. MaxPresses /\ Offers(g) /\ g \in Required /\ g # "skills"
  BY StepBounds, EditedPresses DEF WizInv, WizTypeOK, Type, Edits, Required, Texts
<1>2. ASSUME NEW form \in Form, form = [wiz.form EXCEPT !.filled = wiz.form.filled \cup {g}],
             wiz' = Edited(form, {})
      PROVE  WizInv'
  <2>1. ASSUME NEW f \in Required, StepIn(f, form) < wiz.step
        PROVE  Has(f, form) \/ f \in wiz.missed
    <3>1. StepIn(f, form) = StepOf(f)
      BY <1>1, <1>2 DEF StepIn, StepOf, Form
    <3>2. Has(f, wiz.form) \/ f \in wiz.missed
      BY <1>1, <2>1, <3>1 DEF PassedStepsFilled
    <3> QED
      BY <1>1, <1>2, <3>2 DEF Has, Form
  <2> QED
    BY <1>1, <1>2, <2>1, EditInv, EditedPresses
<1>3. ASSUME NEW form \in Form, form = [wiz.form EXCEPT !.filled = wiz.form.filled \ {g}],
             wiz' = Edited(form, {g})
      PROVE  WizInv'
  <2>1. ASSUME NEW f \in Required, StepIn(f, form) < wiz.step
        PROVE  Has(f, form) \/ f \in wiz.missed \/ (f \in {g} /\ wiz.leaving # 0)
    <3>1. StepIn(f, form) = StepOf(f)
      BY <1>1, <1>3 DEF StepIn, StepOf, Form
    <3>2. CASE f = g
      <4>1. StepIn(g, wiz.form) < wiz.step
        BY <2>1, <3>1, <3>2 DEF StepOf
      <4>2. wiz.leaving # 0
        BY <1>1, <4>1, ShownNotPassed, StepBounds
      <4> QED
        BY <3>2, <4>2
    <3>3. CASE f # g
      <4>1. Has(f, wiz.form) \/ f \in wiz.missed
        BY <1>1, <2>1, <3>1 DEF PassedStepsFilled
      <4> QED
        BY <1>1, <1>3, <3>3, <4>1 DEF Has, Form
    <3> QED
      BY <3>2, <3>3
  <2> QED
    BY <1>1, <1>3, <2>1, EditInv, EditedPresses
<1>4. /\ [wiz.form EXCEPT !.filled = wiz.form.filled \cup {g}] \in Form
      /\ [wiz.form EXCEPT !.filled = wiz.form.filled \ {g}] \in Form
  BY <1>1 DEF Form
<1> QED
  BY <1>2, <1>3, <1>4 DEF Type

\* A job more: what the wizard has passed moves on, if at all.
LEMMA OneJobMore ==
  ASSUME WizInv, MayPress, wiz.form.works < MaxWorks,
         wiz' = Edited([wiz.form EXCEPT !.works = @ + 1], {})
  PROVE  WizInv'
<1> DEFINE form == [wiz.form EXCEPT !.works = wiz.form.works + 1]
<1>1. /\ wiz \in Wiz /\ wiz.form \in Form /\ PassedStepsFilled
      /\ Presses \in 0 .. MaxPresses /\ wiz.step \in Nat
      /\ wiz.form.works \in Nat /\ 1 <= wiz.form.works
  BY StepBounds, EditedPresses DEF WizInv, WizTypeOK
<1>2. form \in Form /\ form.works = wiz.form.works + 1
      /\ form.filled = wiz.form.filled /\ form.skills = wiz.form.skills
  BY <1>1, ConstantsAreTyped DEF ConstantsTyped, Form
<1> HIDE DEF form
<1>3. ASSUME NEW f \in Required, StepIn(f, form) < wiz.step
      PROVE  Has(f, form) \/ f \in wiz.missed
  <2>1. StepOf(f) <= StepIn(f, form)
    BY <1>1, <1>2 DEF StepIn, StepOf, Required, Texts
  <2>2. StepOf(f) < wiz.step
    BY <1>1, <1>2, <1>3, <2>1, StepBounds DEF StepOf
  <2> QED
    BY <1>1, <1>2, <2>2 DEF PassedStepsFilled, Has
<1>4. wiz' = Edited(form, {})
  BY DEF form
<1> QED
  BY <1>1, <1>2, <1>3, <1>4, EditInv, EditedPresses

LEMMA JobStepsInv == ASSUME WizInv, AddWork \/ RestoreWork PROVE WizInv'
<1>1. CASE AddWork
  BY <1>1, OneJobMore DEF AddWork, Edits
<1>2. CASE RestoreWork
  <2>1. wiz.form.works < MaxWorks
    <3>1. /\ wiz.old.works \in Nat /\ wiz.old.works <= MaxWorks
          /\ wiz.leaving \in 4 .. 2 + wiz.old.works /\ wiz.form.works = wiz.leaving - 3
      BY <1>2, StepBounds DEF RestoreWork, WizInv, WizTypeOK
    <3> QED
      BY <3>1, ConstantsAreTyped DEF ConstantsTyped
  <2> QED
    BY <1>2, <2>1, OneJobMore DEF RestoreWork, Edits
<1> QED
  BY <1>1, <1>2

LEMMA RemoveWorkInv == ASSUME WizInv, RemoveWork PROVE WizInv'
<1> DEFINE form == [wiz.form EXCEPT !.works = wiz.form.works - 1]
           F == {f \in AskedAt(wiz.step) : ~Has(f, wiz.form)}
<1>1. /\ wiz \in Wiz /\ wiz.form \in Form /\ PassedStepsFilled
      /\ wiz.presses \in 0 .. MaxPresses /\ wiz.step \in Nat
      /\ wiz.form.works \in Nat /\ OnStep \in Int /\ 4 <= OnStep /\ OnStep <= 2 + wiz.form.works
  BY StepBounds DEF WizInv, WizTypeOK, RemoveWork, Wiz
<1>2. form \in Form /\ form.works = wiz.form.works - 1
      /\ form.filled = wiz.form.filled /\ form.skills = wiz.form.skills
  BY <1>1, ConstantsAreTyped DEF ConstantsTyped, Form
<1>3. wiz' = [Edited(form, F) EXCEPT !.presses = wiz.presses] /\ F \in SUBSET Required
  BY DEF RemoveWork, AskedAt
<1>4. ASSUME NEW f \in Required
      PROVE  /\ StepOf(f) <= StepIn(f, form) + 1
             /\ StepOf(f) \in Nat /\ StepIn(f, form) \in Nat
             /\ StepOf(f) # StepIn(f, form) => StepOf(f) > 2 + wiz.form.works
  BY <1>1, <1>2 DEF StepIn, StepOf, Required, Texts
<1> HIDE DEF form
<1>5. ASSUME NEW f \in Required, StepIn(f, form) < wiz.step
      PROVE  Has(f, form) \/ f \in wiz.missed \/ (f \in F /\ wiz.leaving # 0)
  <2>1. Has(f, form) <=> Has(f, wiz.form)
    BY <1>2 DEF Has
  <2>2. CASE StepOf(f) < wiz.step
    BY <1>1, <2>1, <2>2 DEF PassedStepsFilled
  <2>3. CASE ~(StepOf(f) < wiz.step)
    <3>1. StepOf(f) = wiz.step /\ StepOf(f) > 2 + wiz.form.works
      BY <1>1, <1>4, <1>5, <2>3
    <3>2. wiz.leaving # 0
      BY <1>1, <3>1 DEF OnStep
    <3> QED
      BY <2>1, <3>1, <3>2 DEF AskedAt
  <2> QED
    BY <2>2, <2>3
<1> HIDE DEF F
<1> QED
  BY <1>1, <1>2, <1>3, <1>5, EditInv

\* The tags, by hand: emptied, they are behind no step that is shown.
LEMMA TagsInv ==
  ASSUME WizInv, MayPress, Offers("skills"), NEW tags \in SUBSET Skills,
         wiz' = Edited([wiz.form EXCEPT !.skills = tags],
                       IF tags = {} THEN {"skills"} ELSE {})
  PROVE  WizInv'
<1> DEFINE form == [wiz.form EXCEPT !.skills = tags]
           F == IF tags = {} THEN {"skills"} ELSE {}
<1>1. /\ wiz \in Wiz /\ wiz.form \in Form /\ PassedStepsFilled /\ Presses \in 0 .. MaxPresses
  BY StepBounds, EditedPresses DEF WizInv, WizTypeOK
<1>2. form \in Form /\ form.works = wiz.form.works /\ form.filled = wiz.form.filled
      /\ form.skills = tags
  BY <1>1 DEF Form
<1>3. wiz' = Edited(form, F) /\ F \in SUBSET Required
  BY DEF Required
<1> HIDE DEF form
<1>4. ASSUME NEW f \in Required, StepIn(f, form) < wiz.step
      PROVE  Has(f, form) \/ f \in wiz.missed \/ (f \in F /\ wiz.leaving # 0)
  <2>1. StepIn(f, form) = StepOf(f) /\ StepIn(f, form) = StepIn(f, wiz.form)
    BY <1>2 DEF StepIn, StepOf
  <2>2. CASE f # "skills"
    BY <1>1, <1>2, <1>4, <2>1, <2>2 DEF PassedStepsFilled, Has
  <2>3. CASE f = "skills"
    <3>1. wiz.leaving # 0
      BY <1>1, <1>4, <2>1, <2>3, ShownNotPassed, StepBounds
    <3> QED
      BY <1>2, <2>3, <3>1 DEF Has
  <2> QED
    BY <2>2, <2>3
<1> HIDE DEF F
<1> QED
  BY <1>1, <1>2, <1>3, <1>4, EditInv, EditedPresses

LEMMA TagStepsInv ==
  ASSUME WizInv, AddSkill \/ (\E k \in Skills : RemoveSkill(k))
  PROVE  WizInv'
<1>1. OnScreen.skills \in SUBSET Skills
  BY StepBounds DEF WizInv, WizTypeOK, OnScreen, Form
<1>2. CASE AddSkill
  <2> DEFINE tags == OnScreen.skills \cup {"own"}
  <2>1. tags \in SUBSET Skills /\ tags # {}
    BY <1>1 DEF Skills
  <2>2. wiz' = Edited([wiz.form EXCEPT !.skills = tags], {})
    BY <1>2 DEF AddSkill
  <2>3. MayPress /\ Offers("skills")
    BY <1>2 DEF AddSkill, Edits
  <2> HIDE DEF tags
  <2> QED
    BY <2>1, <2>2, <2>3, TagsInv
<1>3. ASSUME NEW k \in Skills, RemoveSkill(k) PROVE WizInv'
  <2> DEFINE tags == OnScreen.skills \ {k}
  <2>1. tags \in SUBSET Skills
    BY <1>1
  <2>2. wiz' = Edited([wiz.form EXCEPT !.skills = tags], IF tags = {} THEN {"skills"} ELSE {})
    BY <1>3 DEF RemoveSkill
  <2>3. MayPress /\ Offers("skills")
    BY <1>3 DEF RemoveSkill, Edits
  <2> HIDE DEF tags
  <2> QED
    BY <2>1, <2>2, <2>3, TagsInv
<1> QED
  BY <1>2, <1>3

(* A request for suggestions leaves the form alone, or ends by a form with    *)
(* skills, wherever the wizard is by then.                                    *)
AskSet(n, still, q, tags) ==
  wiz' = [wiz EXCEPT !.suggesting = still, !.presses = n, !.asks = q,
                     !.form = [wiz.form EXCEPT !.skills = tags]]

LEMMA AskInv ==
  ASSUME WizInv, NEW n \in 0 .. MaxPresses, NEW still \in BOOLEAN, NEW q \in [Asks -> Ask],
         NEW tags \in SUBSET Skills, tags = wiz.form.skills \/ tags # {},
         AskSet(n, still, q, tags)
  PROVE  WizInv'
<1> DEFINE form == [wiz.form EXCEPT !.skills = tags]
<1>1. /\ wiz \in Wiz /\ wiz.form \in Form /\ PassedStepsFilled
      /\ wiz.missed \in SUBSET Required
  BY StepBounds DEF WizInv, WizTypeOK, Wiz
<1>2. form \in Form /\ form.works = wiz.form.works /\ form.filled = wiz.form.filled
      /\ form.skills = tags
  BY <1>1 DEF Form
<1>3. FormSet(form, n, still, q, wiz.missed)
  BY <1>1 DEF AskSet, FormSet, Wiz
<1> HIDE DEF form
<1>4. ASSUME NEW f \in Required, StepIn(f, form) < wiz.step
      PROVE  Has(f, form) \/ f \in wiz.missed
  <2>1. StepIn(f, form) = StepOf(f)
    BY <1>2 DEF StepIn, StepOf
  <2>2. Has(f, wiz.form) \/ f \in wiz.missed
    BY <1>1, <1>4, <2>1 DEF PassedStepsFilled
  <2> QED
    BY <1>2, <2>2 DEF Has
<1> QED
  BY <1>1, <1>2, <1>3, <1>4, FormChanges

LEMMA AskStepsInv ==
  ASSUME WizInv, NEW a \in Asks, AskForSkills(a) \/ SkillsSuggested(a) \/ AskEndsWithout(a)
  PROVE  WizInv'
<1>1. /\ wiz \in Wiz /\ wiz.form \in Form /\ wiz.asks \in [Asks -> Ask]
      /\ wiz.presses \in 0 .. MaxPresses /\ wiz.asks[a].seen \in SUBSET Skills
      /\ wiz.form.skills \in SUBSET Skills /\ OnScreen.skills \in SUBSET Skills
      /\ wiz.form = [wiz.form EXCEPT !.skills = wiz.form.skills]
  BY StepBounds DEF WizInv, WizTypeOK, Wiz, Form, Ask, OnScreen
<1>2. NoAsk \in Ask
  BY DEF NoAsk, Ask
<1>3. CASE AskForSkills(a)
  <2> DEFINE q == [wiz.asks EXCEPT ![a] = [on |-> TRUE, seen |-> OnScreen.skills]]
  <2>1. q \in [Asks -> Ask]
    BY <1>1 DEF Ask
  <2>2. Presses \in 0 .. MaxPresses
    BY <1>1, <1>3, EditedPresses DEF AskForSkills, Edits
  <2>3. wiz' = [wiz EXCEPT !.suggesting = TRUE, !.presses = Presses, !.asks = q]
    BY <1>1, <1>3 DEF AskForSkills, Wiz
  <2> HIDE DEF q
  <2>4. AskSet(Presses, TRUE, q, wiz.form.skills)
    BY <1>1, <2>3 DEF AskSet, Wiz
  <2> QED
    BY <1>1, <2>1, <2>2, <2>4, AskInv
<1> DEFINE ended == [wiz.asks EXCEPT ![a] = NoAsk]
<1>4. ended \in [Asks -> Ask]
  BY <1>1, <1>2
<1>5. CASE SkillsSuggested(a)
  <2>1. PICK new \in SUBSET ({"ai"} \ wiz.asks[a].seen) :
          wiz' = [wiz EXCEPT !.suggesting = FALSE, !.asks[a] = NoAsk, !.form =
                    IF new = {} THEN @ ELSE [@ EXCEPT !.skills = wiz.asks[a].seen \cup new]]
    BY <1>5 DEF SkillsSuggested
  <2> DEFINE tags == IF new = {} THEN wiz.form.skills ELSE wiz.asks[a].seen \cup new
  <2>2. tags \in SUBSET Skills /\ (tags = wiz.form.skills \/ tags # {})
    BY <1>1 DEF Skills
  <2>3. AskSet(wiz.presses, FALSE, ended, tags)
    <3>1. CASE new = {}
      BY <1>1, <2>1, <3>1 DEF AskSet, Wiz
    <3>2. CASE new # {}
      BY <1>1, <2>1, <3>2 DEF AskSet, Wiz
    <3> QED
      BY <3>1, <3>2
  <2> HIDE DEF tags, ended
  <2> QED
    BY <1>1, <1>4, <2>2, <2>3, AskInv
<1>6. CASE AskEndsWithout(a)
  <2>1. AskSet(wiz.presses, FALSE, ended, wiz.form.skills)
    BY <1>1, <1>6 DEF AskSet, AskEndsWithout, Wiz
  <2> HIDE DEF ended
  <2> QED
    BY <1>1, <1>4, <2>1, AskInv
<1> QED
  BY <1>3, <1>5, <1>6
-----------------------------------------------------------------------------
(* Steps from one step of the wizard to another.                              *)

Moved(s, l, o, op, fr, n, M) ==
  wiz' = [wiz EXCEPT !.step = s, !.leaving = l, !.old = o, !.open = op, !.free = fr,
                     !.presses = n, !.missed = M]

LEMMA MoveInv ==
  ASSUME WizInv, NEW s \in Step, NEW l \in Step \cup {0}, NEW o \in Form, NEW op \in BOOLEAN,
         NEW fr \in BOOLEAN, NEW n \in 0 .. MaxPresses, NEW M \in SUBSET Required,
         Moved(s, l, o, op, fr, n, M),
         \A f \in Required : StepOf(f) < s => Has(f, wiz.form) \/ f \in M,
         l # 0 /\ l = TotalOf(o) /\ op => \A f \in Required : Has(f, o) \/ f \in M
  PROVE  WizInv'
<1> USE ConstantsAreTyped DEF ConstantsTyped, WizInv, Moved
<1>1. wiz \in Wiz
  BY DEF WizTypeOK
<1>2. WizTypeOK'
  BY <1>1 DEF WizTypeOK, Wiz
<1>3. Counted' /\ OneAtATime' /\ StartsAreBuilt'
  BY <1>1 DEF Counted, OneAtATime, StartsAreBuilt, Wiz
<1>4. /\ wiz'.step = s /\ wiz'.leaving = l /\ wiz'.old = o /\ wiz'.open = op
      /\ wiz'.missed = M /\ wiz'.form = wiz.form
  BY <1>1 DEF Wiz
<1>5. LastIsComplete'
  BY <1>4 DEF LastIsComplete, Complete
<1>6. PassedStepsFilled'
  BY <1>4 DEF PassedStepsFilled, StepOf
<1> QED
  BY <1>2, <1>3, <1>5, <1>6

LEMMA ContinueInv == ASSUME WizInv, Continue PROVE WizInv'
<1> DEFINE op == NextEnabled(wiz.step)
           fr == wiz.step = StepOf("skills") /\ ~wiz.suggesting
           M == wiz.missed \ AskedAt(wiz.step)
<1>1. /\ wiz \in Wiz /\ wiz.form \in Form /\ PassedStepsFilled
      /\ wiz.step < Total /\ NextEnabled(wiz.step)
      /\ wiz.presses \in 0 .. MaxPresses /\ wiz.missed \in SUBSET Required
  BY StepBounds DEF WizInv, WizTypeOK, Continue, Wiz
<1>2. /\ wiz.step + 1 \in Step /\ wiz.step \in Step
      /\ Smaller(wiz.step + 1, Total) = wiz.step + 1 /\ wiz.step # Total
  <2>1. wiz.step \in Step /\ wiz.step \in Nat /\ Total \in Nat /\ Total <= MaxWorks + 7
    BY <1>1, StepBounds, ConstantsAreTyped DEF ConstantsTyped, Wiz, Total
  <2>2. wiz.step + 1 \in Step /\ wiz.step + 1 <= Total
    BY <1>1, <2>1, ConstantsAreTyped DEF ConstantsTyped, Step
  <2> QED
    BY <1>1, <2>1, <2>2 DEF Smaller
<1>3. Moved(wiz.step + 1, wiz.step, wiz.form, op, fr, wiz.presses, M)
  <2>1. wiz' = [Leave(wiz.step + 1) EXCEPT !.missed = @ \ AskedAt(wiz.step)]
    BY <1>2 DEF Continue
  <2> QED
    BY <1>1, <2>1 DEF Moved, Leave, Wiz
<1>4. ASSUME NEW f \in Required, StepOf(f) < wiz.step + 1
      PROVE  Has(f, wiz.form) \/ f \in M
  <2>1. CASE StepOf(f) = wiz.step
    BY <1>1, <2>1 DEF NextEnabled, AskedAt
  <2>2. CASE StepOf(f) # wiz.step
    <3>1. StepOf(f) < wiz.step
      BY <1>1, <1>4, <2>2, StepBounds DEF StepOf
    <3> QED
      BY <1>1, <2>2, <3>1 DEF PassedStepsFilled, AskedAt
  <2> QED
    BY <2>1, <2>2
<1>5. op \in BOOLEAN /\ fr \in BOOLEAN /\ M \in SUBSET Required /\ wiz.step # TotalOf(wiz.form)
  BY <1>1, <1>2 DEF NextEnabled, Total
<1> HIDE DEF op, fr, M
<1> QED
  BY <1>1, <1>2, <1>3, <1>4, <1>5, MoveInv

LEMMA BackInv == ASSUME WizInv, Back PROVE WizInv'
<1> DEFINE to == wiz.step - 1
           op == NextEnabled(wiz.step)
           fr == wiz.step = StepOf("skills") /\ ~wiz.suggesting
<1>1. /\ wiz \in Wiz /\ wiz.form \in Form /\ PassedStepsFilled /\ wiz.step > 1
      /\ wiz.presses \in 0 .. MaxPresses /\ wiz.missed \in SUBSET Required
  BY StepBounds DEF WizInv, WizTypeOK, Back, Wiz
<1>2. to \in Step /\ wiz.step \in Step /\ to \in Nat /\ Larger(wiz.step - 1, 1) = to
  BY <1>1, StepBounds, ConstantsAreTyped DEF ConstantsTyped, Larger, Wiz, Step
<1>3. Moved(to, wiz.step, wiz.form, op, fr, wiz.presses, wiz.missed)
  <2>1. wiz' = Leave(to)
    BY <1>2 DEF Back
  <2> QED
    BY <1>1, <2>1 DEF Moved, Leave, Wiz
<1>4. \A f \in Required : StepOf(f) < to => Has(f, wiz.form) \/ f \in wiz.missed
  BY <1>1, <1>2, StepBounds DEF PassedStepsFilled, StepOf
<1>5. ASSUME wiz.step = TotalOf(wiz.form), op, NEW f \in Required
      PROVE  Has(f, wiz.form) \/ f \in wiz.missed
  <2>1. CASE StepOf(f) = wiz.step
    BY <1>5, <2>1 DEF NextEnabled, AskedAt
  <2>2. CASE StepOf(f) # wiz.step
    <3>1. StepOf(f) < wiz.step
      BY <1>1, <1>5, <2>2, StepBounds DEF StepOf
    <3> QED
      BY <1>1, <3>1 DEF PassedStepsFilled
  <2> QED
    BY <2>1, <2>2
<1>6. op \in BOOLEAN /\ fr \in BOOLEAN
  BY DEF NextEnabled
<1>7. wiz.step # 0 /\ wiz.step = TotalOf(wiz.form) /\ op =>
        \A f \in Required : Has(f, wiz.form) \/ f \in wiz.missed
  BY <1>5
<1>8. /\ to \in Step /\ wiz.step \in Step \cup {0} /\ wiz.form \in Form
      /\ wiz.presses \in 0 .. MaxPresses /\ wiz.missed \in SUBSET Required
  BY <1>1, <1>2
<1> HIDE DEF to, op, fr
<1> QED
  BY <1>3, <1>4, <1>6, <1>7, <1>8, MoveInv

LEMMA ExitEndsInv == ASSUME WizInv, ExitEnds PROVE WizInv'
<1>1. /\ wiz \in Wiz /\ PassedStepsFilled /\ wiz.step \in Step /\ INITIAL \in Form
      /\ wiz.presses \in 0 .. MaxPresses /\ wiz.missed \in SUBSET Required
  BY ConstantsAreTyped DEF ConstantsTyped, WizInv, WizTypeOK, Wiz, INITIAL, Form
<1>2. Moved(wiz.step, 0, INITIAL, FALSE, FALSE, wiz.presses, wiz.missed)
  BY <1>1 DEF Moved, ExitEnds, Render, Wiz
<1> QED
  BY <1>1, <1>2, MoveInv DEF PassedStepsFilled

(* A press on a step that is leaving already, to any step: what it passes is  *)
(* filled, or missed, and the last step stays complete while it leaves.       *)
AgainSet(to, n, M) == wiz' = [LeaveAgain(to) EXCEPT !.presses = n, !.missed = M]

LEMMA AgainInv ==
  ASSUME WizInv, NEW to \in Step, NEW n \in 0 .. MaxPresses, NEW M \in SUBSET Required,
         AgainSet(to, n, M),
         wiz.missed \subseteq M,
         \A f \in Required : StepOf(f) < to => Has(f, wiz.form) \/ f \in M
  PROVE  WizInv'
<1>1. /\ wiz \in Wiz /\ LastIsComplete /\ wiz.leaving \in Step \cup {0} /\ wiz.old \in Form
      /\ wiz.open \in BOOLEAN /\ wiz.free \in BOOLEAN /\ INITIAL \in Form
  BY ConstantsAreTyped DEF ConstantsTyped, WizInv, WizTypeOK, Wiz, INITIAL, Form
<1>2. CASE to = wiz.leaving
  <2>1. Moved(to, 0, INITIAL, FALSE, FALSE, n, M)
    BY <1>1, <1>2 DEF Moved, AgainSet, LeaveAgain, Render, Wiz
  <2> QED
    BY <1>1, <2>1, MoveInv
<1>3. CASE to # wiz.leaving
  <2>1. Moved(to, wiz.leaving, wiz.old, wiz.open, wiz.free, n, M)
    BY <1>1, <1>3 DEF Moved, AgainSet, LeaveAgain, Wiz
  <2>2. wiz.leaving # 0 /\ wiz.leaving = TotalOf(wiz.old) /\ wiz.open =>
          \A f \in Required : Has(f, wiz.old) \/ f \in M
    BY <1>1 DEF LastIsComplete, Complete
  <2> QED
    BY <1>1, <2>1, <2>2, MoveInv
<1> QED
  BY <1>2, <1>3

LEMMA ContinueAgainInv == ASSUME WizInv, ContinueAgain PROVE WizInv'
<1> DEFINE to == Smaller(wiz.step + 1, TotalOf(wiz.old))
           M == wiz.missed \cup
                  {f \in AskedAt(wiz.step) : wiz.step < to /\ ~Has(f, wiz.form)}
<1>1. /\ wiz \in Wiz /\ PassedStepsFilled /\ wiz.missed \in SUBSET Required
      /\ wiz.presses + 1 \in 0 .. MaxPresses
  BY ConstantsAreTyped
     DEF ConstantsTyped, WizInv, WizTypeOK, ContinueAgain, Pressed, MayPress, Wiz
<1>2. to \in Step /\ to \in Nat /\ to <= wiz.step + 1
  <2>1. TotalOf(wiz.old) \in Step /\ TotalOf(wiz.old) \in Nat /\ wiz.step \in Nat /\ 1 <= wiz.step
    BY <1>1, StepBounds
  <2>2. CASE wiz.step + 1 < TotalOf(wiz.old)
    BY <2>1, <2>2, ConstantsAreTyped DEF ConstantsTyped, Smaller, Step
  <2>3. CASE ~(wiz.step + 1 < TotalOf(wiz.old))
    BY <2>1, <2>3 DEF Smaller
  <2> QED
    BY <2>2, <2>3
<1>3. AgainSet(to, wiz.presses + 1, M)
  <2>1. LeaveAgain(to).presses = wiz.presses /\ LeaveAgain(to).missed = wiz.missed
    BY <1>1 DEF LeaveAgain, Render, Wiz
  <2>2. wiz' = [LeaveAgain(to) EXCEPT
                  !.presses = LeaveAgain(to).presses + 1,
                  !.missed = LeaveAgain(to).missed \cup
                    {f \in AskedAt(wiz.step) : wiz.step < to /\ ~Has(f, wiz.form)}]
    BY DEF ContinueAgain
  <2> QED
    BY <2>1, <2>2 DEF AgainSet
<1>4. ASSUME NEW f \in Required, StepOf(f) < to
      PROVE  Has(f, wiz.form) \/ f \in M
  <2>1. StepOf(f) < wiz.step \/ (StepOf(f) = wiz.step /\ wiz.step < to)
    BY <1>1, <1>2, <1>4, StepBounds DEF StepOf
  <2>2. CASE StepOf(f) < wiz.step
    BY <1>1, <2>2 DEF PassedStepsFilled
  <2>3. CASE StepOf(f) = wiz.step /\ wiz.step < to
    BY <2>3 DEF AskedAt
  <2> QED
    BY <2>1, <2>2, <2>3
<1>5. M \in SUBSET Required /\ wiz.missed \subseteq M
  BY <1>1 DEF AskedAt
<1> HIDE DEF to, M
<1> QED
  BY <1>1, <1>2, <1>3, <1>4, <1>5, AgainInv

LEMMA BackAgainInv == ASSUME WizInv, BackAgain PROVE WizInv'
<1> DEFINE to == Larger(wiz.step - 1, 1)
<1>1. /\ wiz \in Wiz /\ PassedStepsFilled /\ wiz.missed \in SUBSET Required
      /\ wiz.presses + 1 \in 0 .. MaxPresses
  BY ConstantsAreTyped
     DEF ConstantsTyped, WizInv, WizTypeOK, BackAgain, Pressed, MayPress, Wiz
<1>2. to \in Step /\ to \in Nat /\ to <= wiz.step
  BY <1>1, StepBounds, ConstantsAreTyped DEF ConstantsTyped, Larger, Wiz, Step
<1>3. AgainSet(to, wiz.presses + 1, wiz.missed)
  <2>1. LeaveAgain(to).presses = wiz.presses /\ LeaveAgain(to).missed = wiz.missed
    BY <1>1 DEF LeaveAgain, Render, Wiz
  <2>2. wiz' = [LeaveAgain(to) EXCEPT !.presses = LeaveAgain(to).presses + 1]
    BY DEF BackAgain
  <2>3. CASE to = wiz.leaving
    BY <1>1, <2>1, <2>2, <2>3 DEF AgainSet, LeaveAgain, Render, Wiz
  <2>4. CASE to # wiz.leaving
    BY <1>1, <2>1, <2>2, <2>4 DEF AgainSet, LeaveAgain, Wiz
  <2> QED
    BY <2>3, <2>4
<1>4. \A f \in Required : StepOf(f) < to => Has(f, wiz.form) \/ f \in wiz.missed
  BY <1>1, <1>2, StepBounds DEF PassedStepsFilled, StepOf
<1> HIDE DEF to
<1> QED
  BY <1>1, <1>2, <1>3, <1>4, AgainInv
-----------------------------------------------------------------------------
(* Submissions: they touch neither the form nor the step.                     *)

FormIsKept ==
  /\ wiz'.step = wiz.step /\ wiz'.form = wiz.form /\ wiz'.missed = wiz.missed
  /\ wiz'.leaving = wiz.leaving /\ wiz'.old = wiz.old /\ wiz'.open = wiz.open

LEMMA FormKept == ASSUME WizInv, FormIsKept PROVE PassedStepsFilled' /\ LastIsComplete'
<1>1. PassedStepsFilled'
  BY DEF WizInv, PassedStepsFilled, StepOf, FormIsKept
<1>2. LastIsComplete'
  BY DEF WizInv, LastIsComplete, Complete, FormIsKept
<1> QED
  BY <1>1, <1>2

CountsSet(flag, b, n, k, r, x, d) ==
  wiz' = [wiz EXCEPT !.submitting = flag, !.builds = b, !.starts = n,
                     !.built = k, !.refused = r, !.lost = x, !.doubled = d]

LEMMA CountsChange ==
  ASSUME WizInv, NEW flag \in BOOLEAN, NEW b \in Nat, NEW n \in Nat, NEW k \in Nat,
         NEW r \in BOOLEAN, NEW x \in BOOLEAN, NEW d \in BOOLEAN,
         CountsSet(flag, b, n, k, r, x, d),
         b + k <= MaxBuilt, n <= k,
         ~d => b + n <= 1 /\ (b + n = 1 => flag),
         ~r /\ ~x => n = k
  PROVE  WizInv'
<1> USE ConstantsAreTyped DEF ConstantsTyped, CountsSet
<1>1. wiz \in Wiz
  BY DEF WizInv, WizTypeOK
<1>2. b \in 0 .. MaxBuilt /\ n \in 0 .. MaxBuilt /\ k \in 0 .. MaxBuilt
  OBVIOUS
<1>3. WizTypeOK'
  <2> DEFINE w == [wiz EXCEPT !.submitting = flag, !.builds = b, !.starts = n, !.built = k]
  <2>1. w \in Wiz
    BY <1>1, <1>2 DEF Wiz
  <2>2. wiz' = [w EXCEPT !.refused = r, !.lost = x, !.doubled = d]
    BY <1>1 DEF Wiz
  <2> HIDE DEF w
  <2>3. wiz' \in Wiz
    BY <2>1, <2>2 DEF Wiz
  <2> QED
    BY <2>3 DEF WizTypeOK
<1>4. /\ wiz'.submitting = flag /\ wiz'.builds = b /\ wiz'.starts = n
      /\ wiz'.built = k /\ wiz'.refused = r /\ wiz'.lost = x /\ wiz'.doubled = d
  BY <1>1 DEF Wiz
<1>5. Counted' /\ OneAtATime' /\ StartsAreBuilt'
  BY <1>4 DEF Counted, OneAtATime, StartsAreBuilt
<1>6. FormIsKept
  BY <1>1 DEF FormIsKept, Wiz
<1> QED
  BY <1>3, <1>5, <1>6, FormKept DEF WizInv

LEMMA SubmissionInv ==
  ASSUME WizInv, Submit \/ SubmitAgain \/ ResumeBuilt \/ BuildFails \/ BuildUnheard \/ StartFails
  PROVE  WizInv'
<1> USE ConstantsAreTyped DEF ConstantsTyped
<1>1. wiz \in Wiz /\ Counted /\ OneAtATime /\ StartsAreBuilt
  BY DEF WizInv, WizTypeOK
<1>2. /\ wiz.builds \in Nat /\ wiz.starts \in Nat /\ wiz.built \in Nat
      /\ wiz.submitting \in BOOLEAN /\ wiz.refused \in BOOLEAN /\ wiz.lost \in BOOLEAN
      /\ wiz.doubled \in BOOLEAN
  BY <1>1 DEF Wiz
<1>3. CASE Submit
  <2> DEFINE b == wiz.builds + 1
             n == wiz.starts
             k == wiz.built
  <2>1. wiz.built + wiz.builds < MaxBuilt /\ ~wiz.submitting
    BY <1>3 DEF Submit, MaySubmit, NextEnabled
  <2>2. CountsSet(TRUE, b, n, k, wiz.refused, wiz.lost, wiz.doubled)
    BY <1>1, <1>3 DEF CountsSet, Submit, Wiz
  <2>3. b \in Nat /\ n \in Nat /\ k \in Nat /\ b + k <= MaxBuilt /\ n <= k
    BY <1>1, <1>2, <2>1 DEF Counted
  <2>4. ~wiz.doubled => b + n <= 1 /\ (b + n = 1 => TRUE)
    BY <1>1, <1>2, <2>1 DEF OneAtATime
  <2>5. ~wiz.refused /\ ~wiz.lost => n = k
    BY <1>1, <1>2, <2>1 DEF StartsAreBuilt
  <2> HIDE DEF b, n, k
  <2> QED
    BY <1>2, <2>2, <2>3, <2>4, <2>5, CountsChange
<1>4. CASE SubmitAgain
  <2> DEFINE b == wiz.builds + 1
             n == wiz.starts
             k == wiz.built
  <2>1. wiz.built + wiz.builds < MaxBuilt
    BY <1>4 DEF SubmitAgain, MaySubmit
  <2>2. CountsSet(TRUE, b, n, k, wiz.refused, wiz.lost, TRUE)
    BY <1>1, <1>4 DEF CountsSet, SubmitAgain, Wiz
  <2>3. b \in Nat /\ n \in Nat /\ k \in Nat /\ b + k <= MaxBuilt /\ n <= k
    BY <1>1, <1>2, <2>1 DEF Counted
  <2>4. ~TRUE => b + n <= 1 /\ (b + n = 1 => TRUE)
    BY <1>1, <1>2, <2>1 DEF OneAtATime
  <2>5. ~wiz.refused /\ ~wiz.lost => n = k
    BY <1>1, <1>2, <2>1 DEF StartsAreBuilt
  <2> HIDE DEF b, n, k
  <2> QED
    BY <1>2, <2>2, <2>3, <2>4, <2>5, CountsChange
<1>5. CASE ResumeBuilt
  <2> DEFINE b == wiz.builds - 1
             n == wiz.starts + 1
             k == wiz.built + 1
  <2>1. wiz.builds > 0
    BY <1>5 DEF ResumeBuilt
  <2>2. CountsSet(wiz.submitting, b, n, k, wiz.refused, wiz.lost, wiz.doubled)
    BY <1>1, <1>5 DEF CountsSet, ResumeBuilt, Wiz
  <2>3. b \in Nat /\ n \in Nat /\ k \in Nat /\ b + k <= MaxBuilt /\ n <= k
    BY <1>1, <1>2, <2>1 DEF Counted
  <2>4. ~wiz.doubled => b + n <= 1 /\ (b + n = 1 => wiz.submitting)
    BY <1>1, <1>2, <2>1 DEF OneAtATime
  <2>5. ~wiz.refused /\ ~wiz.lost => n = k
    BY <1>1, <1>2, <2>1 DEF StartsAreBuilt
  <2> HIDE DEF b, n, k
  <2> QED
    BY <1>2, <2>2, <2>3, <2>4, <2>5, CountsChange
<1>6. CASE BuildFails
  <2> DEFINE b == wiz.builds - 1
             n == wiz.starts
             k == wiz.built
  <2>1. wiz.builds > 0
    BY <1>6 DEF BuildFails
  <2>2. CountsSet(FALSE, b, n, k, wiz.refused, wiz.lost, wiz.doubled)
    BY <1>1, <1>6 DEF CountsSet, BuildFails, Wiz
  <2>3. b \in Nat /\ n \in Nat /\ k \in Nat /\ b + k <= MaxBuilt /\ n <= k
    BY <1>1, <1>2, <2>1 DEF Counted
  <2>4. ~wiz.doubled => b + n <= 1 /\ (b + n = 1 => FALSE)
    BY <1>1, <1>2, <2>1 DEF OneAtATime
  <2>5. ~wiz.refused /\ ~wiz.lost => n = k
    BY <1>1, <1>2, <2>1 DEF StartsAreBuilt
  <2> HIDE DEF b, n, k
  <2> QED
    BY <1>2, <2>2, <2>3, <2>4, <2>5, CountsChange
<1>7. CASE StartFails
  <2> DEFINE b == wiz.builds
             n == wiz.starts - 1
             k == wiz.built
  <2>1. wiz.starts > 0
    BY <1>7 DEF StartFails
  <2>2. CountsSet(FALSE, b, n, k, TRUE, wiz.lost, wiz.doubled)
    BY <1>1, <1>7 DEF CountsSet, StartFails, Wiz
  <2>3. b \in Nat /\ n \in Nat /\ k \in Nat /\ b + k <= MaxBuilt /\ n <= k
    BY <1>1, <1>2, <2>1 DEF Counted
  <2>4. ~wiz.doubled => b + n <= 1 /\ (b + n = 1 => FALSE)
    BY <1>1, <1>2, <2>1 DEF OneAtATime
  <2>5. ~TRUE /\ ~wiz.lost => n = k
    BY <1>1, <1>2, <2>1 DEF StartsAreBuilt
  <2> HIDE DEF b, n, k
  <2> QED
    BY <1>2, <2>2, <2>3, <2>4, <2>5, CountsChange
<1>8. CASE BuildUnheard
  <2> DEFINE b == wiz.builds - 1
             n == wiz.starts
             k == wiz.built + 1
  <2>1. wiz.builds > 0
    BY <1>8 DEF BuildUnheard
  <2>2. CountsSet(FALSE, b, n, k, wiz.refused, TRUE, wiz.doubled)
    BY <1>1, <1>8 DEF CountsSet, BuildUnheard, Wiz
  <2>3. b \in Nat /\ n \in Nat /\ k \in Nat /\ b + k <= MaxBuilt /\ n <= k
    BY <1>1, <1>2, <2>1 DEF Counted
  <2>4. ~wiz.doubled => b + n <= 1 /\ (b + n = 1 => FALSE)
    BY <1>1, <1>2, <2>1 DEF OneAtATime
  <2>5. ~wiz.refused /\ ~TRUE => n = k
    OBVIOUS
  <2> HIDE DEF b, n, k
  <2> QED
    BY <1>2, <2>2, <2>3, <2>4, <2>5, CountsChange
<1> QED
  BY <1>3, <1>4, <1>5, <1>6, <1>7, <1>8

LEMMA OpenWizardInv == ASSUME WizInv, OpenWizard PROVE WizInv'
<1>1. wiz \in Wiz /\ wiz' = [wiz EXCEPT !.on = TRUE]
  BY DEF WizInv, WizTypeOK, OpenWizard
<1>2. WizTypeOK' /\ Counted' /\ OneAtATime' /\ StartsAreBuilt'
  BY <1>1 DEF WizInv, WizTypeOK, Wiz, Counted, OneAtATime, StartsAreBuilt
<1>3. FormIsKept
  BY <1>1 DEF FormIsKept, Wiz
<1> QED
  BY <1>2, <1>3, FormKept DEF WizInv
-----------------------------------------------------------------------------
LEMMA CloseInv == ASSUME WizClose PROVE WizInv'
<1>1. (wiz = WizClosed)'
  BY DEF WizClose, WizClosed
<1> QED
  BY <1>1, ClosedInv, PTL

LEMMA WizMovesInv == ASSUME WizInv, WizMoves PROVE WizInv'
<1>1. CASE UNCHANGED wiz
  <2>1. WizTypeOK' /\ Counted' /\ OneAtATime' /\ StartsAreBuilt'
    BY <1>1 DEF WizInv, WizTypeOK, Counted, OneAtATime, StartsAreBuilt
  <2>2. FormIsKept
    BY <1>1 DEF FormIsKept
  <2> QED
    BY <2>1, <2>2, FormKept DEF WizInv
<1>2. CASE WizClose \/ GenerationStarts \/ LeaveWizard
  BY <1>2, CloseInv DEF GenerationStarts, LeaveWizard
<1>3. CASE WizNext
  BY <1>2, <1>3, OpenWizardInv, TypeInv, JobStepsInv, RemoveWorkInv, TagStepsInv,
     AskStepsInv, ContinueInv, BackInv, ExitEndsInv, ContinueAgainInv, BackAgainInv,
     SubmissionInv
     DEF WizNext, SubmitSettles
<1> QED
  BY <1>1, <1>2, <1>3 DEF WizMoves
-----------------------------------------------------------------------------
(* What the other steps leave alone. *)

Others ==
  \/ OpenWizard \/ (\E f \in Texts : Type(f)) \/ AddWork \/ RestoreWork \/ RemoveWork
  \/ AddSkill \/ (\E k \in Skills : RemoveSkill(k))
  \/ Continue \/ Back \/ ExitEnds \/ ContinueAgain \/ BackAgain
  \/ (\E a \in Asks : AskForSkills(a) \/ SkillsSuggested(a) \/ AskEndsWithout(a))

LEMMA OthersSubmitNothing == ASSUME wiz \in Wiz, Others PROVE wiz'.builds = wiz.builds
<1>1. \A form, F : Edited(form, F).builds = wiz.builds
  BY DEF Edited, Wiz
<1>2. \A f \in Texts : Type(f) => wiz'.builds = wiz.builds
  BY <1>1 DEF Type
<1>3. AddWork \/ RestoreWork \/ AddSkill => wiz'.builds = wiz.builds
  BY <1>1 DEF AddWork, RestoreWork, AddSkill
<1>4. RemoveWork => wiz'.builds = wiz.builds
  BY DEF RemoveWork, Edited, Wiz
<1>5. \A k \in Skills : RemoveSkill(k) => wiz'.builds = wiz.builds
  BY <1>1 DEF RemoveSkill
<1>6. Continue \/ Back \/ ExitEnds \/ OpenWizard => wiz'.builds = wiz.builds
  BY DEF Continue, Back, ExitEnds, OpenWizard, Leave, Render, Wiz
<1>7. \A to : LeaveAgain(to).builds = wiz.builds
  BY DEF LeaveAgain, Render, Wiz
<1>8. ContinueAgain => wiz'.builds = wiz.builds
  BY DEF ContinueAgain, LeaveAgain, Render, Wiz
<1>9. BackAgain => wiz'.builds = wiz.builds
  BY DEF BackAgain, LeaveAgain, Render, Wiz
<1>10. \A a \in Asks : AskForSkills(a) \/ AskEndsWithout(a) => wiz'.builds = wiz.builds
  BY DEF AskForSkills, AskEndsWithout, Wiz
<1>11. \A a \in Asks : SkillsSuggested(a) => wiz'.builds = wiz.builds
  BY DEF SkillsSuggested, Wiz
<1> QED
  BY <1>2, <1>3, <1>4, <1>5, <1>6, <1>8, <1>9, <1>10, <1>11 DEF Others

LEMMA SubmissionIsComplete ==
  ASSUME WizInv, WizMoves, wiz'.builds > wiz.builds
  PROVE  Complete(OnScreen)
<1>1. wiz \in Wiz /\ PassedStepsFilled /\ LastIsComplete /\ wiz.builds \in Nat
  BY DEF WizInv, WizTypeOK, Wiz
<1>2. CASE Submit
  <2>1. wiz.step = Total /\ NextEnabled(Total) /\ OnScreen = wiz.form
    BY <1>2 DEF Submit, Shown, OnScreen
  <2>2. ASSUME NEW f \in Required PROVE Has(f, wiz.form) \/ f \in wiz.missed
    <3>1. CASE StepOf(f) = Total
      BY <2>1, <3>1 DEF NextEnabled, AskedAt
    <3>2. CASE StepOf(f) # Total
      <4>1. StepOf(f) < wiz.step
        BY <1>1, <2>1, <3>2, StepBounds DEF StepOf, Total
      <4> QED
        BY <1>1, <4>1 DEF PassedStepsFilled
    <3> QED
      BY <3>1, <3>2
  <2> QED
    BY <2>1, <2>2 DEF Complete
<1>3. CASE SubmitAgain
  BY <1>1, <1>3 DEF SubmitAgain, LastIsComplete, OnScreen
<1>4. ~UNCHANGED wiz /\ ~Others
  BY <1>1, OthersSubmitNothing
<1>5. ~WizClose /\ ~GenerationStarts /\ ~LeaveWizard
  BY <1>1 DEF GenerationStarts, LeaveWizard, WizClose, WizClosed
<1>6. ~ResumeBuilt /\ ~BuildFails /\ ~BuildUnheard /\ ~StartFails
  <2>1. ResumeBuilt \/ BuildFails \/ BuildUnheard => wiz'.builds = wiz.builds - 1
    BY <1>1 DEF ResumeBuilt, BuildFails, BuildUnheard, Wiz
  <2>2. StartFails => wiz'.builds = wiz.builds
    BY <1>1 DEF StartFails, Wiz
  <2>3. wiz'.builds # wiz.builds - 1 /\ wiz'.builds # wiz.builds
    BY <1>1
  <2> QED
    BY <2>1, <2>2, <2>3
<1>7. Submit \/ SubmitAgain
  BY <1>4, <1>5, <1>6 DEF WizMoves, WizNext, Others, SubmitSettles
<1> QED
  BY <1>2, <1>3, <1>7
-----------------------------------------------------------------------------
LEMMA WizSpecMoves == WizSpec => WizInit /\ [][WizMoves]_wizVars
<1>1. WizNext \/ (~wiz.on /\ Follow /\ UNCHANGED wiz) => WizMoves
  BY DEF WizMoves
<1> QED
  BY <1>1, PTL DEF WizSpec

LEMMA WizInvAlways == WizInit /\ [][WizMoves]_wizVars => []WizInv
<1>1. WizInit => WizInv
  BY ClosedInv DEF WizInit
<1>2. WizInv /\ [WizMoves]_wizVars => WizInv'
  BY WizMovesInv DEF WizMoves, wizVars
<1> QED
  BY <1>1, <1>2, PTL

(* The wizard alone keeps its types, passes required fields only when they    *)
(* are filled, but those that a leaving step passed, emptied or moved behind  *)
(* it, and builds one resume unless a generation was refused, the answer of a *)
(* build was lost or the last step was pressed while it left.                 *)
THEOREM WizardAlone == WizSpec => [](WizTypeOK /\ PassedStepsFilled /\ OneResumePerWizard)
<1>1. WizInv => WizTypeOK /\ PassedStepsFilled /\ OneResumePerWizard
  BY DEF WizInv, OneResumePerWizard, OneAtATime, StartsAreBuilt, WizTypeOK, Wiz
<1> QED
  BY <1>1, WizSpecMoves, WizInvAlways, PTL

(* A submission sends every required field, but those that a leaving step     *)
(* passed, emptied or moved behind the wizard: also when the form sent is the *)
(* one that the last step rendered before it was left.                        *)
THEOREM SubmissionsComplete == WizSpec => SubmittedComplete
<1>1. WizInv /\ [WizMoves]_wizVars =>
        [wiz'.builds > wiz.builds => \A f \in Required : Has(f, OnScreen) \/ f \in wiz.missed]_wizVars
  BY SubmissionIsComplete DEF Complete
<1> QED
  BY <1>1, WizSpecMoves, WizInvAlways, PTL DEF SubmittedComplete

-----------------------------------------------------------------------------
(* The upload page.                                                           *)

\* An upload under way keeps its zone on the screen, and has room for its timer.
OneUpload ==
  /\ upl.up # "off" => upl.zone = "uploading" /\ upl.stage = "upload"
  /\ upl.up = "token" => upl.timers < MaxTimers

\* The page's result has no resume_id, and only a result can be sent.
NothingToSend ==
  /\ upl.resume \in {"none", Undefined}
  /\ upl.call # "off" => upl.resume = Undefined

UplInv == UplTypeOK /\ TimersAccounted /\ OneUpload /\ NothingToSend

UplMoves == UplNext \/ UplClose \/ UNCHANGED upl

LEMMA UplClosedInv == ASSUME upl = UplClosed PROVE UplInv
<1>1. upl \in Upl
  BY MaxTimersAssumption DEF UplClosed, Upl, Chosen, Templates, Files
<1> QED
  BY <1>1 DEF UplInv, UplTypeOK, TimersAccounted, OneUpload, NothingToSend, UplClosed

LEMMA UplClosesInv == ASSUME UplClose PROVE UplInv'
<1>1. (upl = UplClosed)'
  BY DEF UplClose, UplClosed
<1> QED
  BY <1>1, UplClosedInv, PTL

LEMMA NoResumeId == FieldOf(UploadAnswer, "resume_id") = Undefined
BY DEF FieldOf, UploadAnswer

(* The upload, from its file to its answer.                                   *)
LEMMA UploadStepsInv ==
  ASSUME UplInv, UploadWithoutToken \/ UploadSent \/ UploadDone \/ UploadFailed
  PROVE  UplInv'
<1>1. upl \in Upl /\ MaxTimers \in Nat
  BY MaxTimersAssumption DEF UplInv, UplTypeOK
<1>2. CASE UploadWithoutToken
  <2>1. /\ upl' \in Upl /\ upl'.up = "off" /\ upl'.timers = upl.timers /\ upl'.failed = upl.failed
        /\ upl'.resume = upl.resume /\ upl'.call = upl.call /\ upl.up = "token"
    BY <1>1, <1>2 DEF UploadWithoutToken, Upl
  <2> QED
    BY <2>1 DEF UplInv, UplTypeOK, TimersAccounted, OneUpload, NothingToSend
<1>3. CASE UploadSent
  <2>1. upl.up = "token" /\ upl.timers < MaxTimers /\ upl.timers = upl.failed
        /\ upl.timers + 1 \in 0 .. MaxTimers
    BY <1>1, <1>3 DEF UploadSent, UplInv, OneUpload, TimersAccounted, Upl
  <2>2. /\ upl' \in Upl /\ upl'.up = "request" /\ upl'.timers = upl.timers + 1
        /\ upl'.failed = upl.failed /\ upl'.resume = upl.resume /\ upl'.call = upl.call
        /\ upl'.zone = upl.zone /\ upl'.stage = upl.stage
    BY <1>1, <1>3, <2>1 DEF UploadSent, Upl
  <2> QED
    BY <2>1, <2>2 DEF UplInv, UplTypeOK, TimersAccounted, OneUpload, NothingToSend
<1>4. CASE UploadDone
  <2>1. upl.up = "request" /\ upl.timers = upl.failed + 1 /\ upl.timers - 1 \in 0 .. MaxTimers
        /\ upl.timers - 1 = upl.failed
    BY <1>1, <1>4 DEF UploadDone, UplInv, TimersAccounted, Upl
  <2>2. /\ upl' \in Upl /\ upl'.up = "off" /\ upl'.timers = upl.timers - 1
        /\ upl'.failed = upl.failed /\ upl'.resume = Undefined
    BY <1>1, <1>4, <2>1, NoResumeId DEF UploadDone, Upl
  <2> QED
    BY <2>1, <2>2 DEF UplInv, UplTypeOK, TimersAccounted, OneUpload, NothingToSend
<1>5. CASE UploadFailed
  <2>1. upl.up = "request" /\ upl.timers = upl.failed + 1 /\ upl.failed + 1 \in 0 .. MaxTimers
    BY <1>1, <1>5 DEF UploadFailed, UplInv, TimersAccounted, Upl
  <2>2. /\ upl' \in Upl /\ upl'.up = "off" /\ upl'.timers = upl.timers
        /\ upl'.failed = upl.failed + 1 /\ upl'.resume = upl.resume /\ upl'.call = upl.call
    BY <1>1, <1>5, <2>1 DEF UploadFailed, Upl
  <2> QED
    BY <2>1, <2>2 DEF UplInv, UplTypeOK, TimersAccounted, OneUpload, NothingToSend
<1> QED
  BY <1>2, <1>3, <1>4, <1>5

(* What the user does, and the request for the generation: none of it touches *)
(* the upload under way.                                                      *)
Untouched ==
  /\ upl' \in Upl
  /\ upl'.timers = upl.timers /\ upl'.failed = upl.failed /\ upl'.resume = upl.resume
  /\ \/ upl'.up = upl.up /\ upl'.zone = upl.zone /\ upl'.stage = upl.stage
     \/ upl.up = "off" /\ upl'.up = "off"
     \/ /\ upl.up = "off" /\ upl'.up = "token" /\ upl'.zone = "uploading"
        /\ upl'.stage = "upload" /\ upl.timers < MaxTimers
  /\ upl'.call # "off" => upl.call # "off" \/ upl.resume # "none"

LEMMA PageStepsTouch ==
  ASSUME UplInv,
         \/ OpenUpload \/ (\E f \in Files : Drop(f)) \/ ResetZone
         \/ (\E t \in Templates : SelectTemplate(t)) \/ UploadAnother
         \/ ClickGenerate \/ GenerateSent \/ (GenerateAnswered /\ upl'.on)
  PROVE  Untouched
<1>1. upl \in Upl /\ (upl.up # "off" => upl.zone = "uploading" /\ upl.stage = "upload")
  BY DEF UplInv, UplTypeOK, OneUpload
<1>2. ASSUME NEW t \in Chosen, upl' = [upl EXCEPT !.on = TRUE, !.template = t] PROVE Untouched
  BY <1>1, <1>2 DEF Untouched, Upl
<1>3. ASSUME NEW f \in Files, Drop(f) PROVE Untouched
  BY <1>1, <1>3 DEF Drop, ZoneShown, Untouched, Upl
<1>4. CASE ResetZone
  BY <1>1, <1>4 DEF ResetZone, Untouched, Upl
<1>5. ASSUME NEW t \in Templates, SelectTemplate(t) PROVE Untouched
  BY <1>1, <1>5 DEF SelectTemplate, Untouched, Upl, Chosen
<1>6. CASE UploadAnother
  BY <1>1, <1>6 DEF UploadAnother, TemplatesShown, Untouched, Upl
<1>7. CASE ClickGenerate
  BY <1>1, <1>7 DEF ClickGenerate, Untouched, Upl
<1>8. CASE GenerateSent
  BY <1>1, <1>8 DEF GenerateSent, Untouched, Upl
<1>9. CASE GenerateAnswered /\ upl'.on
  <2>1. upl' = [upl EXCEPT !.call = "off", !.sending = FALSE]
    BY <1>9 DEF GenerateAnswered, UplClose, UplClosed
  <2> QED
    BY <1>1, <2>1 DEF Untouched, Upl
<1> QED
  BY <1>2, <1>3, <1>4, <1>5, <1>6, <1>7, <1>8, <1>9 DEF OpenUpload

LEMMA PageStepsInv == ASSUME UplInv, Untouched PROVE UplInv'
<1>1. OneUpload'
  BY DEF UplInv, OneUpload, Untouched
<1>2. NothingToSend'
  BY DEF UplInv, NothingToSend, Untouched
<1>3. (upl'.up = "request") <=> (upl.up = "request")
  BY DEF Untouched
<1> QED
  BY <1>1, <1>2, <1>3 DEF UplInv, UplTypeOK, TimersAccounted, Untouched

LEMMA UplMovesInv == ASSUME UplInv, UplMoves PROVE UplInv'
<1>1. CASE UplClose \/ LeaveUpload \/ (GenerateAnswered /\ ~upl'.on)
  <2>1. CASE GenerateAnswered /\ ~upl'.on
    <3>1. upl \in Upl
      BY DEF UplInv, UplTypeOK
    <3>2. upl' # [upl EXCEPT !.call = "off", !.sending = FALSE] \/ ~upl.on
      BY <2>1, <3>1 DEF Upl
    <3>3. UplClose
      BY <2>1, <3>2 DEF GenerateAnswered
    <3> QED
      BY <3>3, UplClosesInv
  <2>2. CASE UplClose \/ LeaveUpload
    BY <2>2, UplClosesInv DEF LeaveUpload
  <2> QED
    BY <1>1, <2>1, <2>2
<1>2. CASE UNCHANGED upl
  BY <1>2 DEF UplInv, UplTypeOK, TimersAccounted, OneUpload, NothingToSend
<1> QED
  BY <1>1, <1>2, UploadStepsInv, PageStepsTouch, PageStepsInv DEF UplMoves, UplNext
-----------------------------------------------------------------------------
(* The pages of the portfolios.                                               *)

Answers == UNION {[ps -> Cards] : ps \in SUBSET Portfolios}
Shelves ==
  [screen : {"none", "list", "preview"}, id : Portfolios \cup {"none"},
   cards : [Portfolios -> Cards], loading : BOOLEAN,
   publishing : BOOLEAN, lost : BOOLEAN, doubt : SUBSET Portfolios]
CallStates ==
  [for : {"nothing", "fetch", "toggle", "delete"}, at : {"off", "sent", "answered"},
   id : Portfolios \cup {"none"}, said : Answers, alone : BOOLEAN]

Typed ==
  server \in [Portfolios -> Kept] /\ shelf \in Shelves /\ calls \in [Calls -> CallStates]

\* A call that is still alone has no company.
AloneIsOnly(c) ==
  calls[c].alone => \A d \in Calls \ {c} : calls[d].at = "off"

\* What a call is for, and what its answer speaks of.
Shape(c) ==
  /\ calls[c].at = "off" <=> calls[c].for = "nothing"
  /\ shelf.screen = "none" => calls[c].at = "off"
  /\ shelf.screen = "preview" =>
       calls[c].for # "delete" /\ (calls[c].for = "fetch" => calls[c].id = shelf.id)
  /\ calls[c].for \in {"toggle", "delete"} => calls[c].id \in Portfolios
  /\ calls[c].at = "answered" /\ calls[c].for # "toggle" =>
       DOMAIN calls[c].said = IF calls[c].id = "none" THEN Portfolios ELSE {calls[c].id}
  /\ calls[c].at = "answered" /\ calls[c].id # "none" /\ calls[c].for # "delete" =>
       \A p \in DOMAIN calls[c].said : calls[c].said[p] # "none"
  /\ calls[c].at = "answered" /\ calls[c].for = "delete" => calls[c].said[calls[c].id] = "none"

\* The answer of a call without company is still true when it is delivered.
AnswerIsTrue(c) ==
  calls[c].at = "answered" /\ calls[c].alone =>
    \A p \in DOMAIN calls[c].said : Agrees(calls[c].said[p], server[p])

CallInv(c) == AloneIsOnly(c) /\ Shape(c) /\ AnswerIsTrue(c)

PagesInv ==
  /\ Typed /\ (shelf.screen = "preview" => shelf.id \in Portfolios)
  /\ \A c \in Calls : CallInv(c)
  /\ ShownIsServer /\ BlankPreviewLostSession

PagesMoves == PagesNext \/ PagesClose \/ UNCHANGED pageVars

LEMMA PagesTypes == Typed <=> PagesTypeOK
BY DEF Typed, Shelves, CallStates, Answers, PagesTypeOK

LEMMA AnswerTyped ==
  /\ \A ps \in SUBSET Portfolios : \A f \in [ps -> Cards] : f \in Answers
  /\ \A f \in Answers : DOMAIN f \subseteq Portfolios /\ \A p \in DOMAIN f : f[p] \in Cards
BY DEF Answers

LEMMA NothingTyped ==
  /\ NoCall \in CallStates /\ NoPage \in Shelves
  /\ NoCall.at = "off" /\ NoCall.for = "nothing" /\ NoCall.id = "none" /\ ~NoCall.alone
  /\ NoPage.screen = "none" /\ NoPage.doubt = Portfolios /\ NoPage.id = "none"
  /\ Nothing \in Answers
  /\ \A p \in Portfolios : NoPage.cards[p] = "none"
<1>1. Nothing \in [{} -> Cards]
  BY DEF Nothing
<1>2. Nothing \in Answers
  BY <1>1, AnswerTyped
<1> QED
  BY <1>2 DEF NoCall, NoPage, CallStates, Shelves, Cards

\* No call is under way.
LEMMA QuietCall ==
  ASSUME NEW c \in Calls, calls[c] = NoCall PROVE CallInv(c)
BY NothingTyped DEF CallInv, AloneIsOnly, Shape, AnswerIsTrue

LEMMA PagesClosedInv ==
  ASSUME server = [p \in Portfolios |-> "gone"], shelf = NoPage,
         calls = [c \in Calls |-> NoCall]
  PROVE  PagesInv
<1>1. Typed
  BY NothingTyped DEF Typed, Kept
<1>2. \A c \in Calls : CallInv(c)
  BY QuietCall
<1> QED
  BY <1>1, <1>2, NothingTyped DEF PagesInv, ShownIsServer, BlankPreviewLostSession

LEMMA PagesClosesInv == ASSUME PagesClose PROVE PagesInv'
<1>1. (/\ server = [p \in Portfolios |-> "gone"] /\ shelf = NoPage
       /\ calls = [c \in Calls |-> NoCall])'
  BY DEF PagesClose, NoPage, NoCall, Nothing
<1> QED
  BY <1>1, PagesClosedInv, PTL

(* A call that is made ends the solitude of the others.                       *)
LEMMA MadeCalls ==
  ASSUME PagesInv, NEW c \in Calls, NEW for \in {"fetch", "toggle", "delete"},
         NEW id \in Portfolios \cup {"none"}, Made(c, for, id),
         for # "fetch" => id \in Portfolios
  PROVE  /\ calls' \in [Calls -> CallStates]
         /\ calls'[c].for = for /\ calls'[c].id = id /\ calls'[c].at = "sent"
         /\ calls'[c].alone => \A d \in Calls : calls[d].at = "off"
         /\ \A d \in Calls \ {c} :
              /\ ~calls'[d].alone /\ calls'[d].for = calls[d].for /\ calls'[d].at = calls[d].at
              /\ calls'[d].id = calls[d].id /\ calls'[d].said = calls[d].said
<1> DEFINE solo == InFlight = {}
           new == [for |-> for, at |-> "sent", id |-> id, said |-> Nothing, alone |-> solo]
<1>1. calls \in [Calls -> CallStates]
  BY DEF PagesInv, Typed
<1>2. solo \in BOOLEAN /\ (solo => \A d \in Calls : calls[d].at = "off")
  BY DEF InFlight
<1>3. calls' = [d \in Calls |-> IF d = c THEN new ELSE [calls[d] EXCEPT !.alone = FALSE]]
  BY DEF Made
<1> HIDE DEF solo
<1>4. new \in CallStates /\ new.for = for /\ new.id = id /\ new.at = "sent" /\ new.alone = solo
  BY <1>2, NothingTyped DEF CallStates
<1> HIDE DEF new
<1>5. \A d \in Calls :
        LET old == [calls[d] EXCEPT !.alone = FALSE] IN
        /\ old \in CallStates /\ ~old.alone /\ old.for = calls[d].for /\ old.at = calls[d].at
        /\ old.id = calls[d].id /\ old.said = calls[d].said
  BY <1>1 DEF CallStates
<1>6. \A d \in Calls : calls'[d] = IF d = c THEN new ELSE [calls[d] EXCEPT !.alone = FALSE]
  BY <1>3
<1>7. calls' \in [Calls -> CallStates]
  BY <1>3, <1>4, <1>5
<1> QED
  BY <1>2, <1>4, <1>5, <1>6, <1>7

(* A page that is opened has asked its first question, and knows nothing yet. *)
LEMMA OpenedInv ==
  ASSUME PagesInv, NEW c \in Calls,
         OpenList(c) \/ \E p \in Portfolios : OpenPreview(c, p)
  PROVE  PagesInv'
<1>1. PICK id \in Portfolios \cup {"none"} : Made(c, "fetch", id)
        /\ \/ id = "none" /\ shelf' = [NoPage EXCEPT !.screen = "list", !.loading = TRUE]
           \/ id \in Portfolios
              /\ shelf' = [NoPage EXCEPT !.screen = "preview", !.id = id, !.loading = TRUE]
  BY DEF OpenList, OpenPreview
<1>2. server' \in [Portfolios -> Kept] /\ shelf.screen = "none"
  BY DEF OpenList, OpenPreview
<1>3. /\ shelf' \in Shelves /\ shelf'.loading /\ shelf'.doubt = Portfolios
      /\ shelf'.screen # "none"
      /\ shelf'.screen = "preview" => id \in Portfolios /\ shelf'.id = id
  BY <1>1, NothingTyped DEF Shelves
<1>4. \A d \in Calls : calls[d].at = "off" /\ calls[d].for = "nothing"
  BY <1>2 DEF PagesInv, CallInv, Shape
<1>5. /\ calls' \in [Calls -> CallStates]
      /\ calls'[c].for = "fetch" /\ calls'[c].id = id /\ calls'[c].at = "sent"
      /\ \A d \in Calls \ {c} :
           ~calls'[d].alone /\ calls'[d].for = "nothing" /\ calls'[d].at = "off"
  BY <1>1, <1>4, MadeCalls
<1>6. \A d \in Calls : CallInv(d)'
  BY <1>3, <1>5 DEF CallInv, AloneIsOnly, Shape, AnswerIsTrue
<1> QED
  BY <1>2, <1>3, <1>5, <1>6 DEF PagesInv, Typed, ShownIsServer, BlankPreviewLostSession

(* A question or a command of a page that is shown.                           *)
LEMMA RequestInv ==
  ASSUME PagesInv, NEW c \in Calls, NEW for \in {"fetch", "toggle", "delete"},
         NEW id \in Portfolios \cup {"none"}, Made(c, for, id),
         for # "fetch" => id \in Portfolios,
         UNCHANGED server, shelf' \in Shelves, shelf.screen # "none",
         shelf'.screen = shelf.screen, shelf'.id = shelf.id, shelf'.cards = shelf.cards,
         shelf'.doubt = shelf.doubt, shelf'.lost = shelf.lost,
         shelf.loading => shelf'.loading,
         shelf.screen = "preview" => for # "delete" /\ (for = "fetch" => id = shelf.id)
  PROVE  PagesInv'
<1>1. /\ calls' \in [Calls -> CallStates] /\ calls[c].at = "off"
      /\ calls'[c].for = for /\ calls'[c].id = id /\ calls'[c].at = "sent"
      /\ calls'[c].alone => \A d \in Calls : calls[d].at = "off"
      /\ \A d \in Calls \ {c} :
           /\ ~calls'[d].alone /\ calls'[d].for = calls[d].for /\ calls'[d].at = calls[d].at
           /\ calls'[d].id = calls[d].id /\ calls'[d].said = calls[d].said
  BY MadeCalls DEF Made
<1>2. ASSUME NEW d \in Calls PROVE CallInv(d)'
  <2>1. CASE d = c
    BY <1>1, <2>1, SMTT(30) DEF CallInv, AloneIsOnly, Shape, AnswerIsTrue
  <2>2. CASE d # c
    <3>1. Shape(d)
      BY DEF PagesInv, CallInv
    <3>2. Shape(d)'
      BY <1>1, <2>2, <3>1 DEF Shape
    <3> QED
      BY <1>1, <2>2, <3>2 DEF CallInv, AloneIsOnly, AnswerIsTrue
  <2> QED
    BY <2>1, <2>2
<1>3. \A p \in Portfolios : Writes(p)' = {} => Writes(p) = {}
  <2>1. \A p \in Portfolios : Writes(p) \subseteq Writes(p)'
    BY <1>1 DEF Writes, InFlight
  <2> QED
    BY <2>1
<1>4. ShownIsServer'
  BY <1>3 DEF PagesInv, ShownIsServer
<1>5. BlankPreviewLostSession'
  BY DEF PagesInv, BlankPreviewLostSession, Typed, Shelves
<1> QED
  BY <1>1, <1>2, <1>4, <1>5 DEF PagesInv, Typed

LEMMA RequestsInv ==
  ASSUME PagesInv, NEW c \in Calls,
         Refresh(c) \/ \E p \in Portfolios : ClickToggle(c, p) \/ ClickDelete(c, p)
  PROVE  PagesInv'
<1>1. shelf \in Shelves /\ UNCHANGED server /\ (shelf.screen = "preview" => shelf.id \in Portfolios)
  BY DEF PagesInv, Typed, Refresh, ClickToggle, ClickDelete
<1>2. CASE Refresh(c)
  <2>1. CASE On("list") /\ shelf' = [shelf EXCEPT !.loading = TRUE] /\ Made(c, "fetch", "none")
    <3>1. /\ shelf' \in Shelves /\ shelf'.screen = shelf.screen /\ shelf'.id = shelf.id
          /\ shelf'.cards = shelf.cards /\ shelf'.doubt = shelf.doubt /\ shelf'.lost = shelf.lost
          /\ shelf'.loading /\ shelf.screen = "list"
      BY <1>1, <2>1 DEF On, Shelves
    <3> QED
      BY <1>1, <2>1, <3>1, RequestInv
  <2>2. CASE On("preview") /\ Made(c, "fetch", shelf.id) /\ UNCHANGED shelf
    BY <1>1, <2>2, RequestInv DEF On
  <2> QED
    BY <1>2, <2>1, <2>2 DEF Refresh
<1>3. ASSUME NEW p \in Portfolios, ClickToggle(c, p) PROVE PagesInv'
  <2>1. shelf' = shelf \/ shelf' = [shelf EXCEPT !.publishing = TRUE]
    BY <1>3 DEF ClickToggle
  <2>2. /\ shelf' \in Shelves /\ shelf'.screen = shelf.screen /\ shelf'.id = shelf.id
        /\ shelf'.cards = shelf.cards /\ shelf'.doubt = shelf.doubt /\ shelf'.lost = shelf.lost
        /\ shelf'.loading = shelf.loading
    BY <1>1, <2>1 DEF Shelves
  <2>3. /\ shelf.screen # "none" /\ shelf.cards[p] # "none" /\ Made(c, "toggle", p)
    BY <1>3 DEF ClickToggle, On, IsPublished
  <2> QED
    BY <1>1, <2>2, <2>3, RequestInv
<1>4. ASSUME NEW p \in Portfolios, ClickDelete(c, p) PROVE PagesInv'
  BY <1>1, <1>4, RequestInv DEF ClickDelete, On
<1> QED
  BY <1>2, <1>3, <1>4
-----------------------------------------------------------------------------
(* The server answers: what it changes is what the call asked to change, and  *)
(* what it says is true.                                                      *)
RightAnswer(c, answer) ==
  /\ answer \in Answers
  /\ server' \in [Portfolios -> Kept]
  /\ \A p \in Portfolios :
       server'[p] = server[p] \/ (calls[c].for \in {"toggle", "delete"} /\ p = calls[c].id)
  /\ calls[c].for # "toggle" =>
       DOMAIN answer = IF calls[c].id = "none" THEN Portfolios ELSE {calls[c].id}
  /\ calls[c].id # "none" /\ calls[c].for # "delete" => \A p \in DOMAIN answer : answer[p] # "none"
  /\ calls[c].for = "delete" => answer[calls[c].id] = "none"
  /\ \A p \in DOMAIN answer : Agrees(answer[p], server'[p])

LEMMA ServedInv ==
  ASSUME PagesInv, NEW c \in Calls, NEW answer, Served(c, answer), UNCHANGED shelf,
         RightAnswer(c, answer)
  PROVE  PagesInv'
<1>1. /\ calls \in [Calls -> CallStates] /\ calls[c].at = "sent" /\ answer \in Answers
      /\ server' \in [Portfolios -> Kept]
  BY DEF PagesInv, Typed, Served, RightAnswer
<1>2. /\ calls' \in [Calls -> CallStates]
      /\ calls'[c].for = calls[c].for /\ calls'[c].id = calls[c].id
      /\ calls'[c].alone = calls[c].alone /\ calls'[c].at = "answered"
      /\ calls'[c].said = answer
      /\ \A d \in Calls \ {c} : calls'[d] = calls[d]
  BY <1>1 DEF Served, CallStates
<1>3. ASSUME NEW d \in Calls PROVE CallInv(d)'
  <2>1. AloneIsOnly(d) /\ Shape(d) /\ AnswerIsTrue(d) /\ AloneIsOnly(c)
    BY DEF PagesInv, CallInv
  <2>2. AloneIsOnly(d)'
    BY <1>1, <1>2, <2>1 DEF AloneIsOnly
  <2>3. CASE d = c
    <3>1. Shape(d)'
      BY <1>1, <1>2, <2>1, <2>3 DEF Shape, RightAnswer
    <3>2. AnswerIsTrue(d)'
      BY <1>2, <2>1, <2>3 DEF AnswerIsTrue, RightAnswer
    <3> QED
      BY <2>2, <3>1, <3>2 DEF CallInv
  <2>4. CASE d # c
    <3>1. calls'[d] = calls[d] /\ ~calls[d].alone
      BY <1>1, <1>2, <2>1, <2>4 DEF AloneIsOnly
    <3>2. Shape(d)'
      BY <2>1, <3>1 DEF Shape
    <3> QED
      BY <2>2, <3>1, <3>2 DEF CallInv, AnswerIsTrue
  <2> QED
    BY <2>3, <2>4
<1>4. ShownIsServer'
  <2>1. \A p \in Portfolios : Writes(p) \subseteq Writes(p)'
    BY <1>1, <1>2 DEF Writes, InFlight
  <2>2. ASSUME NEW p \in Portfolios, Writes(p)' = {} PROVE Writes(p) = {} /\ server'[p] = server[p]
    <3>1. Writes(p) = {}
      BY <2>1, <2>2
    <3>2. ~(calls[c].for \in {"toggle", "delete"} /\ p = calls[c].id)
      BY <1>1, <3>1 DEF Writes, InFlight
    <3> QED
      BY <3>1, <3>2 DEF RightAnswer
  <2> QED
    BY <2>2 DEF PagesInv, ShownIsServer
<1>5. BlankPreviewLostSession'
  BY DEF PagesInv, BlankPreviewLostSession
<1> QED
  BY <1>1, <1>2, <1>3, <1>4, <1>5 DEF PagesInv, Typed

LEMMA OnlyTyped ==
  ASSUME NEW p \in Portfolios, NEW card \in Cards
  PROVE  Only(p, card) \in Answers /\ DOMAIN Only(p, card) = {p} /\ Only(p, card)[p] = card
<1>1. Only(p, card) \in [{p} -> Cards]
  BY DEF Only
<1> QED
  BY <1>1, AnswerTyped DEF Only

LEMMA CardsAgree ==
  /\ \A s \in Kept : Seen(s) \in Cards /\ Agrees(Seen(s), s)
  /\ \A s \in Kept \ {"gone"} :
       Status(s) \in Cards /\ Status(s) # "none" /\ Agrees(Status(s), s)
  /\ \A s \in Kept : Toggled(s) \in Kept
  /\ Agrees("none", "gone")
BY DEF Kept, Cards, Seen, Status, Toggled, Agrees

LEMMA AnsweringInv ==
  ASSUME PagesInv, NEW c \in Calls, FetchServed(c) \/ ToggleServed(c) \/ DeleteServed(c)
  PROVE  PagesInv'
<1>1. /\ server \in [Portfolios -> Kept] /\ calls[c] \in CallStates /\ UNCHANGED shelf
      /\ calls[c].for \in {"toggle", "delete"} => calls[c].id \in Portfolios
  BY DEF PagesInv, Typed, CallInv, Shape, FetchServed, ToggleServed, DeleteServed
<1>2. CASE FetchServed(c)
  <2>1. CASE calls[c].id = "none"
    <3> DEFINE answer == [p \in Portfolios |-> Seen(server[p])]
    <3>1. answer \in [Portfolios -> Cards] /\ \A p \in Portfolios : Agrees(answer[p], server[p])
      BY <1>1, CardsAgree
    <3>2. answer \in Answers /\ DOMAIN answer = Portfolios
      BY <3>1, AnswerTyped
    <3>3. Served(c, answer) /\ UNCHANGED server
      BY <1>2, <2>1 DEF FetchServed
    <3> HIDE DEF answer
    <3>4. RightAnswer(c, answer)
      BY <1>1, <1>2, <2>1, <3>1, <3>2, <3>3 DEF RightAnswer, FetchServed
    <3> QED
      BY <1>1, <3>3, <3>4, ServedInv
  <2>2. CASE calls[c].id # "none"
    <3> DEFINE p == calls[c].id
    <3>1. p \in Portfolios /\ server[p] \in Kept \ {"gone"} /\ Served(c, Only(p, Status(server[p])))
          /\ UNCHANGED server
      BY <1>1, <1>2, <2>2 DEF FetchServed, CallStates
    <3>2. Status(server[p]) \in Cards /\ Status(server[p]) # "none"
          /\ Agrees(Status(server[p]), server[p])
      BY <3>1, CardsAgree
    <3> DEFINE card == Status(server[p])
    <3> HIDE DEF card
    <3>3. /\ Only(p, card) \in Answers /\ DOMAIN Only(p, card) = {p}
          /\ Only(p, card)[p] = card
      BY <3>1, <3>2, OnlyTyped DEF card
    <3>4. RightAnswer(c, Only(p, card))
      BY <1>1, <1>2, <2>2, <3>1, <3>2, <3>3 DEF RightAnswer, card, FetchServed
    <3> QED
      BY <1>1, <3>1, <3>4, ServedInv DEF card
  <2> QED
    BY <2>1, <2>2
<1>3. CASE ToggleServed(c)
  <2> DEFINE p == calls[c].id
             new == Toggled(server[p])
  <2>1. p \in Portfolios /\ calls[c].for = "toggle" /\ Served(c, Nothing)
        /\ server' = [server EXCEPT ![p] = new]
    BY <1>1, <1>3 DEF ToggleServed
  <2>2. new \in Kept
    BY <1>1, <2>1, CardsAgree
  <2> HIDE DEF new
  <2>3. /\ server' \in [Portfolios -> Kept]
        /\ \A q \in Portfolios : q # p => server'[q] = server[q]
    BY <1>1, <2>1, <2>2
  <2>4. Nothing \in Answers /\ DOMAIN Nothing = {}
    BY NothingTyped DEF Nothing
  <2>5. RightAnswer(c, Nothing)
    BY <2>1, <2>3, <2>4 DEF RightAnswer
  <2> QED
    BY <1>1, <2>1, <2>5, ServedInv
<1>4. CASE DeleteServed(c)
  <2> DEFINE p == calls[c].id
  <2>1. p \in Portfolios /\ Served(c, Only(p, "none")) /\ calls[c].for = "delete"
        /\ server' = [server EXCEPT ![p] = "gone"]
    BY <1>1, <1>4 DEF DeleteServed
  <2>2. /\ server' \in [Portfolios -> Kept] /\ server'[p] = "gone"
        /\ \A q \in Portfolios : q # p => server'[q] = server[q]
    BY <1>1, <2>1 DEF Kept
  <2>3. p # "none" /\ "none" \in Cards
    BY <2>1, PortfoliosAssumption DEF Cards
  <2>4. /\ Only(p, "none") \in Answers /\ DOMAIN Only(p, "none") = {p}
        /\ Only(p, "none")[p] = "none"
    BY <2>1, <2>3, OnlyTyped
  <2>5. RightAnswer(c, Only(p, "none"))
    BY <1>1, <2>1, <2>2, <2>3, <2>4, CardsAgree DEF RightAnswer
  <2> QED
    BY <1>1, <2>1, <2>5, ServedInv
<1> QED
  BY <1>2, <1>3, <1>4
-----------------------------------------------------------------------------
(* A call ends: what the page shows of a portfolio that is not in doubt is    *)
(* what it showed, if the call was not about it, or what the server holds.    *)
RightEnd(c) ==
  /\ shelf' \in Shelves /\ shelf'.screen = shelf.screen /\ shelf'.id = shelf.id
  /\ \A p \in Portfolios \ shelf'.doubt :
       \/ /\ p \notin shelf.doubt /\ shelf'.cards[p] = shelf.cards[p]
          /\ ~(calls[c].for \in {"toggle", "delete"} /\ p = calls[c].id)
       \/ Agrees(shelf'.cards[p], server[p])
  /\ shelf.screen = "preview" /\ ~shelf'.loading /\ shelf'.cards[shelf.id] = "none" => shelf'.lost

LEMMA EndedInv ==
  ASSUME PagesInv, NEW c \in Calls, calls[c].at # "off", Ended(c), UNCHANGED server, RightEnd(c)
  PROVE  PagesInv'
<1>1. calls \in [Calls -> CallStates]
  BY DEF PagesInv, Typed
<1>2. /\ calls' \in [Calls -> CallStates] /\ calls'[c] = NoCall
      /\ \A d \in Calls \ {c} : calls'[d] = calls[d]
  BY <1>1, NothingTyped DEF Ended
<1>3. ASSUME NEW d \in Calls PROVE CallInv(d)'
  <2>1. CASE d = c
    BY <1>2, <2>1, NothingTyped DEF CallInv, AloneIsOnly, Shape, AnswerIsTrue
  <2>2. CASE d # c
    <3>1. AloneIsOnly(d) /\ Shape(d)
      BY DEF PagesInv, CallInv
    <3>2. calls'[d] = calls[d] /\ ~calls[d].alone
      BY <1>2, <2>2, <3>1 DEF AloneIsOnly
    <3>3. Shape(d)'
      BY <3>1, <3>2 DEF Shape, RightEnd
    <3> QED
      BY <3>2, <3>3 DEF CallInv, AloneIsOnly, AnswerIsTrue
  <2> QED
    BY <2>1, <2>2
<1>4. ShownIsServer'
  <2>1. ASSUME NEW p \in Portfolios, p \notin shelf'.doubt, Writes(p)' = {}
        PROVE  Agrees(shelf'.cards[p], server[p])
    <3>1. Writes(p) \subseteq Writes(p)' \cup {c}
      BY <1>1, <1>2 DEF Writes, InFlight
    <3>2. CASE /\ p \notin shelf.doubt /\ shelf'.cards[p] = shelf.cards[p]
               /\ ~(calls[c].for \in {"toggle", "delete"} /\ p = calls[c].id)
      <4>1. c \notin Writes(p)
        BY <3>2 DEF Writes
      <4>2. Writes(p) = {}
        BY <2>1, <3>1, <4>1
      <4> QED
        BY <3>2, <4>2 DEF PagesInv, ShownIsServer
    <3> QED
      BY <2>1, <3>2 DEF RightEnd
  <2> QED
    BY <2>1 DEF ShownIsServer
<1>5. BlankPreviewLostSession'
  BY DEF BlankPreviewLostSession, RightEnd
<1> QED
  BY <1>2, <1>3, <1>4, <1>5 DEF PagesInv, Typed, RightEnd

LEMMA PutTyped ==
  ASSUME NEW cards \in [Portfolios -> Cards], NEW said \in Answers
  PROVE  /\ Put(cards, said) \in [Portfolios -> Cards]
         /\ \A p \in Portfolios :
              Put(cards, said)[p] = IF p \in DOMAIN said THEN said[p] ELSE cards[p]
BY AnswerTyped DEF Put

LEMMA DeliveredInvPages ==
  ASSUME PagesInv, NEW c \in Calls, FetchDelivered(c) \/ DeleteDelivered(c)
  PROVE  PagesInv'
<1>1. /\ shelf \in Shelves /\ calls[c] \in CallStates /\ UNCHANGED server /\ Ended(c)
      /\ calls[c].at = "answered" /\ Shape(c) /\ AnswerIsTrue(c)
      /\ shelf.screen = "preview" => shelf.id \in Portfolios
  BY DEF PagesInv, Typed, CallInv, FetchDelivered, DeleteDelivered
<1> DEFINE said == calls[c].said
           id == calls[c].id
           put == Put(shelf.cards, said)
<1>2. /\ said \in Answers /\ shelf.cards \in [Portfolios -> Cards]
      /\ shelf.doubt \in SUBSET Portfolios /\ DOMAIN said \subseteq Portfolios
      /\ put \in [Portfolios -> Cards]
      /\ \A p \in Portfolios : put[p] = IF p \in DOMAIN said THEN said[p] ELSE shelf.cards[p]
  BY <1>1, PutTyped, AnswerTyped DEF Shelves, CallStates
<1>3. /\ calls[c].alone => \A p \in DOMAIN said : Agrees(said[p], server[p])
      /\ DOMAIN said = IF id = "none" THEN Portfolios ELSE {id}
      /\ calls[c].for = "delete" => id \in Portfolios /\ id # "none" /\ DOMAIN said = {id}
  BY <1>1, PortfoliosAssumption DEF AnswerIsTrue, Shape, FetchDelivered, DeleteDelivered
<1>4. CASE FetchDelivered(c)
  <2> DEFINE doubt == Doubt(c, DOMAIN said, TRUE)
  <2>1. doubt \in SUBSET Portfolios
        /\ doubt = IF calls[c].alone THEN shelf.doubt \ DOMAIN said ELSE shelf.doubt \cup DOMAIN said
    BY <1>2 DEF Doubt
  <2>2. /\ shelf' = [shelf EXCEPT !.cards = put, !.loading = FALSE, !.lost = FALSE, !.doubt = doubt]
        /\ calls[c].for = "fetch"
    BY <1>4 DEF FetchDelivered
  <2> HIDE DEF doubt, put
  <2>3. /\ shelf' \in Shelves /\ shelf'.screen = shelf.screen /\ shelf'.id = shelf.id
        /\ shelf'.cards = put /\ shelf'.doubt = doubt
    BY <1>1, <1>2, <2>1, <2>2 DEF Shelves
  <2>4. shelf.screen = "preview" => put[shelf.id] # "none"
    <3>1. ASSUME shelf.screen = "preview"
          PROVE  shelf.id \in Portfolios /\ id = shelf.id /\ id # "none" /\ DOMAIN said = {id}
                 /\ said[id] # "none"
      BY <1>1, <1>3, <2>2, <3>1, PortfoliosAssumption DEF Shape
    <3> QED
      BY <1>2, <3>1
  <2>5. RightEnd(c)
    BY <1>2, <1>3, <2>1, <2>2, <2>3, <2>4 DEF RightEnd
  <2> QED
    BY <1>1, <2>5, EndedInv
<1>5. CASE DeleteDelivered(c)
  <2> DEFINE doubt == Doubt(c, {id}, TRUE)
             cards == [shelf.cards EXCEPT ![id] = "none"]
  <2>1. /\ calls[c].for = "delete" /\ id \in Portfolios /\ id # "none" /\ DOMAIN said = {id}
        /\ said[id] = "none" /\ shelf.screen # "preview"
    BY <1>1, <1>3, <1>5 DEF DeleteDelivered, Shape
  <2>2. doubt \in SUBSET Portfolios
        /\ doubt = IF calls[c].alone THEN shelf.doubt \ {id} ELSE shelf.doubt \cup {id}
    BY <1>2, <2>1 DEF Doubt
  <2>3. /\ cards \in [Portfolios -> Cards] /\ cards[id] = "none"
        /\ \A p \in Portfolios : p # id => cards[p] = shelf.cards[p]
    BY <1>2, <2>1 DEF Cards
  <2>4. shelf' = [shelf EXCEPT !.cards = cards, !.doubt = doubt]
    BY <1>5 DEF DeleteDelivered
  <2> HIDE DEF doubt, cards, put
  <2>5. /\ shelf' \in Shelves /\ shelf'.screen = shelf.screen /\ shelf'.id = shelf.id
        /\ shelf'.cards = cards /\ shelf'.doubt = doubt
    BY <1>1, <2>2, <2>3, <2>4 DEF Shelves
  <2>6. RightEnd(c)
    BY <1>3, <2>1, <2>2, <2>3, <2>5 DEF RightEnd
  <2> QED
    BY <1>1, <2>6, EndedInv
<1> QED
  BY <1>4, <1>5

(* No session, a refusal or a lost answer.                                    *)
LEMMA FailedInv ==
  ASSUME PagesInv, NEW c \in Calls, FetchWithoutToken(c) \/ FetchFails(c) \/ WriteFails(c)
  PROVE  PagesInv'
<1>1. /\ shelf \in Shelves /\ calls[c] \in CallStates /\ Shape(c)
      /\ shelf.screen = "preview" => shelf.id \in Portfolios
  BY DEF PagesInv, Typed, CallInv
<1>2. calls[c].at # "off"
  BY <1>1 DEF FetchWithoutToken, FetchFails, WriteFails, Shape
<1>3. CASE FetchWithoutToken(c)
  <2>1. shelf' = [shelf EXCEPT !.loading = FALSE, !.lost = TRUE] /\ calls[c].for = "fetch"
    BY <1>3 DEF FetchWithoutToken
  <2>2. /\ shelf' \in Shelves /\ shelf'.screen = shelf.screen /\ shelf'.id = shelf.id
        /\ shelf'.cards = shelf.cards /\ shelf'.doubt = shelf.doubt /\ shelf'.lost
    BY <1>1, <2>1 DEF Shelves
  <2>3. RightEnd(c)
    BY <2>1, <2>2 DEF RightEnd
  <2> QED
    BY <1>2, <1>3, <2>3, EndedInv DEF FetchWithoutToken
<1>4. CASE FetchFails(c)
  <2>1. CASE PagesClose
    BY <2>1, PagesClosesInv
  <2>2. CASE ~PagesClose
    <3>1. /\ shelf' = [shelf EXCEPT !.loading = FALSE] /\ calls[c].for = "fetch"
          /\ shelf.screen = "list" /\ Ended(c) /\ UNCHANGED server
      BY <1>4, <2>2 DEF FetchFails, On
    <3>2. /\ shelf' \in Shelves /\ shelf'.screen = shelf.screen /\ shelf'.id = shelf.id
          /\ shelf'.cards = shelf.cards /\ shelf'.doubt = shelf.doubt
      BY <1>1, <3>1 DEF Shelves
    <3>3. RightEnd(c)
      BY <3>1, <3>2 DEF RightEnd
    <3> QED
      BY <1>2, <3>1, <3>3, EndedInv
  <2> QED
    BY <2>1, <2>2
<1>5. CASE WriteFails(c)
  <2> DEFINE doubt == Doubt(c, {calls[c].id}, FALSE)
  <2>1. calls[c].id \in Portfolios /\ calls[c].for \in {"toggle", "delete"}
    BY <1>1, <1>5 DEF WriteFails, Shape
  <2>2. doubt = shelf.doubt \cup {calls[c].id} /\ doubt \in SUBSET Portfolios
    BY <1>1, <2>1 DEF Doubt, Shelves
  <2>3. shelf' = [shelf EXCEPT !.publishing = FALSE, !.doubt = doubt]
    BY <1>5 DEF WriteFails
  <2> HIDE DEF doubt
  <2>4. /\ shelf' \in Shelves /\ shelf'.screen = shelf.screen /\ shelf'.id = shelf.id
        /\ shelf'.cards = shelf.cards /\ shelf'.doubt = doubt
        /\ shelf'.loading = shelf.loading /\ shelf'.lost = shelf.lost
    BY <1>1, <2>2, <2>3 DEF Shelves
  <2>5. RightEnd(c)
    BY <2>1, <2>2, <2>4 DEF RightEnd, PagesInv, BlankPreviewLostSession
  <2> QED
    BY <1>2, <1>5, <2>5, EndedInv DEF WriteFails
<1> QED
  BY <1>3, <1>4, <1>5

(* What a worker moves is in doubt, and so is every answer on its way.        *)
LEMMA WorkerInv == ASSUME PagesInv, NEW q \in Portfolios, WorkerMoves(q) PROVE PagesInv'
<1>1. /\ server \in [Portfolios -> Kept] /\ shelf \in Shelves /\ calls \in [Calls -> CallStates]
      /\ \E s \in Kept : server' = [server EXCEPT ![q] = s]
      /\ shelf' = [shelf EXCEPT !.doubt = @ \cup {q}]
  BY DEF PagesInv, Typed, WorkerMoves, Kept
<1>2. /\ server' \in [Portfolios -> Kept]
      /\ \A p \in Portfolios : p # q => server'[p] = server[p]
  BY <1>1
<1>3. /\ shelf' \in Shelves /\ shelf'.screen = shelf.screen /\ shelf'.id = shelf.id
      /\ shelf'.cards = shelf.cards /\ shelf'.doubt = shelf.doubt \cup {q}
      /\ shelf'.loading = shelf.loading /\ shelf'.lost = shelf.lost
  BY <1>1 DEF Shelves
<1>4. ASSUME NEW c \in Calls
      PROVE  /\ calls'[c] \in CallStates
             /\ calls'[c].for = calls[c].for /\ calls'[c].at = calls[c].at
             /\ calls'[c].id = calls[c].id /\ calls'[c].said = calls[c].said
             /\ calls'[c].alone => calls[c].alone /\ calls[c].at # "answered"
  <2>1. calls'[c] = IF calls[c].at = "answered"
                    THEN [calls[c] EXCEPT !.alone = FALSE] ELSE calls[c]
    BY DEF WorkerMoves
  <2>2. calls[c] \in CallStates
    BY <1>1
  <2> QED
    BY <2>1, <2>2 DEF CallStates
<1>5. calls' \in [Calls -> CallStates]
  <2>1. calls' = [c \in Calls |-> IF calls[c].at = "answered"
                                  THEN [calls[c] EXCEPT !.alone = FALSE] ELSE calls[c]]
    BY DEF WorkerMoves
  <2>2. \A c \in Calls : (IF calls[c].at = "answered"
                          THEN [calls[c] EXCEPT !.alone = FALSE] ELSE calls[c]) \in CallStates
    BY <1>4, <2>1
  <2> QED
    BY <2>1, <2>2
<1>6. ASSUME NEW c \in Calls PROVE CallInv(c)'
  <2>1. CallInv(c)
    BY DEF PagesInv
  <2>2. Shape(c)'
    BY <1>3, <1>4, <2>1 DEF CallInv, Shape
  <2>3. AloneIsOnly(c)' /\ AnswerIsTrue(c)'
    BY <1>4, <2>1 DEF CallInv, AloneIsOnly, AnswerIsTrue
  <2> QED
    BY <2>2, <2>3 DEF CallInv
<1>7. ShownIsServer'
  <2>1. \A p \in Portfolios : Writes(p)' = Writes(p)
    BY <1>4 DEF Writes, InFlight
  <2> QED
    BY <1>2, <1>3, <2>1 DEF PagesInv, ShownIsServer
<1>8. BlankPreviewLostSession'
  BY <1>3 DEF PagesInv, BlankPreviewLostSession
<1> QED
  BY <1>2, <1>3, <1>5, <1>6, <1>7, <1>8 DEF PagesInv, Typed

LEMMA PagesMovesInv == ASSUME PagesInv, PagesMoves PROVE PagesInv'
<1>1. CASE PagesClose \/ BackToList \/ LeavePages
  BY <1>1, PagesClosesInv DEF BackToList, LeavePages
<1>2. CASE UNCHANGED pageVars
  BY <1>2
     DEF pageVars, PagesInv, Typed, CallInv, AloneIsOnly, Shape, AnswerIsTrue,
         ShownIsServer, Writes, InFlight, BlankPreviewLostSession
<1>3. CASE PagesNext
  BY <1>1, <1>3, OpenedInv, RequestsInv, AnsweringInv, DeliveredInvPages, FailedInv, WorkerInv
     DEF PagesNext, CallSettles
<1> QED
  BY <1>1, <1>2, <1>3 DEF PagesMoves
=============================================================================
