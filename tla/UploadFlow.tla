----------------------------- MODULE UploadFlow ------------------------------
(***************************************************************************)
(* The page /dashboard/upload and its UploadZone: a file is dropped, sent, *)
(* and answered; a template is chosen; the generation is requested for the *)
(* resume_id of the answer.  POST /resume/upload answers a ResumeResponse, *)
(* whose fields the page reads by the names of its own type.               *)
(***************************************************************************)
EXTENDS AppShell, Naturals

CONSTANTS
  Undefined,   \* what JavaScript reads from a field that is not there
  MaxTimers    \* bound: uploads that are sent while the page is mounted

ASSUME MaxTimersAssumption == MaxTimers \in Nat \ {0}

VARIABLE
  upl  \* the page and its zone:
       \*   on        the page is mounted
       \*   stage     "upload" or "template"
       \*   template  selectedTemplate
       \*   resume    resumeResult.resume_id; "none": no result yet
       \*   sending   the page's flag "generating"
       \*   call      handleGenerate: off, token, request
       \*   zone      the zone's stage
       \*   file      the file in the zone's hands; "none"
       \*   up        handleUpload: off, token, request
       \*   timers    intervals set by the zones of this page and not cleared
       \*   failed    history: sent uploads that failed

\* Files by what decides about them: the zone's own limit (10 MB), the
\* backend's (5 MB) and the types that the backend takes.
Files == {"pdf", "doc", "over5MB", "over10MB"}

Templates == {"aurora", "minimal", "cyber"}

\* ?template= is taken as it is: other pages know more templates.
Chosen == Templates \cup {"executive"}

\* The fields of ResumeResponse, and the one that the page reads.
UploadAnswer == [id |-> "r1", original_filename |-> "cv", status |-> "pending"]
FieldOf(answer, f) == IF f \in DOMAIN answer THEN answer[f] ELSE Undefined

TooLargeForZone(f) == f = "over10MB"
BackendTakes(f) == f = "pdf"

\* POST /portfolio/generate validates the body before anything else; a resume
\* that is there may still be refused (not parsed yet, the free limit, ...).
BodyIsValid(resume, template) == resume # Undefined /\ template \in Templates

Upl == [on : BOOLEAN, stage : {"upload", "template"}, template : Chosen,
        resume : {"none", "r1", Undefined}, sending : BOOLEAN,
        call : {"off", "token", "request"},
        zone : {"idle", "uploading", "done", "error"},
        file : Files \cup {"none"}, up : {"off", "token", "request"},
        timers : 0 .. MaxTimers, failed : 0 .. MaxTimers]

UplClosed == [on |-> FALSE, stage |-> "upload", template |-> "aurora",
              resume |-> "none", sending |-> FALSE, call |-> "off",
              zone |-> "idle", file |-> "none", up |-> "off",
              timers |-> 0, failed |-> 0]

UplInit == upl = UplClosed
UplClose == upl' = UplClosed

UplStays == upl.on /\ Here
-----------------------------------------------------------------------------
OpenUpload ==
  /\ route = "upload" /\ ~upl.on
  /\ \E t \in Chosen : upl' = [upl EXCEPT !.on = TRUE, !.template = t]
  /\ Here

ZoneShown == upl.on /\ upl.stage = "upload"

\* One file is taken at a time; the zone turns away what is over its limit.
Drop(f) ==
  /\ ZoneShown /\ Here
  /\ upl.zone # "uploading" /\ upl.zone # "done"
  /\ ~TooLargeForZone(f)
  /\ upl.timers < MaxTimers
  /\ upl' = [upl EXCEPT !.zone = "uploading", !.file = f, !.up = "token"]

\* No session: the upload ends before the progress timer is set.
UploadWithoutToken ==
  /\ UplStays /\ upl.up = "token"
  /\ upl' = [upl EXCEPT !.zone = "error", !.up = "off"]

UploadSent ==
  /\ UplStays /\ upl.up = "token"
  /\ upl' = [upl EXCEPT !.up = "request", !.timers = @ + 1]

(* Faulty variant, used by one check only: the timer is not cleared. *)
UploadDone_KeepsTimer ==
  /\ UplStays /\ upl.up = "request" /\ BackendTakes(upl.file)
  /\ upl' = [upl EXCEPT !.zone = "done", !.up = "off", !.stage = "template",
                        !.resume = FieldOf(UploadAnswer, "resume_id")]

\* The timer is cleared, and onSuccess takes the page to the templates.
UploadDone ==
  /\ UplStays /\ upl.up = "request" /\ BackendTakes(upl.file)
  /\ upl' = [upl EXCEPT !.zone = "done", !.up = "off", !.timers = @ - 1,
                        !.resume = FieldOf(UploadAnswer, "resume_id"),
                        !.stage = "template"]

\* The request throws past the clearInterval: its timer keeps running.
UploadFailed ==
  /\ UplStays /\ upl.up = "request"
  /\ upl' = [upl EXCEPT !.zone = "error", !.up = "off", !.failed = @ + 1]

\* "Try again": the zone is reset, its timers are not.
ResetZone ==
  /\ ZoneShown /\ Here /\ upl.zone = "error"
  /\ upl' = [upl EXCEPT !.zone = "idle", !.file = "none"]
-----------------------------------------------------------------------------
TemplatesShown == upl.on /\ upl.stage = "template"

SelectTemplate(t) ==
  /\ TemplatesShown /\ Here
  /\ upl.template # t
  /\ upl' = [upl EXCEPT !.template = t]

\* A new zone is mounted; a generation under way goes on.
UploadAnother ==
  /\ TemplatesShown /\ Here
  /\ upl' = [upl EXCEPT !.stage = "upload", !.zone = "idle", !.file = "none"]

ClickGenerate ==
  /\ TemplatesShown /\ Here
  /\ upl.resume # "none" /\ ~upl.sending
  /\ upl' = [upl EXCEPT !.sending = TRUE, !.call = "token"]

GenerateSent ==
  /\ UplStays /\ upl.call = "token"
  /\ upl' = [upl EXCEPT !.call = "request"]

\* An accepted request takes the user to its portfolio; no session, a
\* request that fails and a body that is refused all end with the flag reset.
GenerateAnswered ==
  \/ /\ upl.on /\ upl.call # "off" /\ Here
     /\ upl' = [upl EXCEPT !.call = "off", !.sending = FALSE]
  \/ /\ upl.on /\ upl.call = "request"
     /\ IF BodyIsValid(upl.resume, upl.template)
          THEN Push("generating") /\ UplClose
          ELSE Here /\ upl' = [upl EXCEPT !.call = "off", !.sending = FALSE]

LeaveUpload ==
  /\ upl.on
  /\ LeaveFor("dashboard",
              upl.call # "off" /\ BodyIsValid(upl.resume, upl.template), "generating")
  /\ UplClose

UplNext ==
  \/ OpenUpload \/ (\E f \in Files : Drop(f))
  \/ UploadWithoutToken \/ UploadSent \/ UploadDone \/ UploadFailed \/ ResetZone
  \/ (\E t \in Templates : SelectTemplate(t))
  \/ UploadAnother \/ ClickGenerate \/ GenerateSent \/ GenerateAnswered
  \/ LeaveUpload

\* On its own, the page is entered by a link of the dashboard.
UplSpec ==
  /\ ShellInit /\ UplInit
  /\ [][UplNext \/ (~upl.on /\ Follow /\ UNCHANGED upl)]_<<shell, upl>>

\* Every call of the browser ends, by an answer or by an error.
UplFairness ==
  /\ WF_<<shell, upl>>(UploadWithoutToken \/ UploadSent \/ UploadDone \/ UploadFailed)
  /\ WF_<<shell, upl>>(GenerateSent \/ GenerateAnswered)
-----------------------------------------------------------------------------
UplTypeOK == upl \in Upl

(* The intervals that still run belong to the upload under way and to      *)
(* uploads that failed; none outlives an upload that went well.            *)
TimersAccounted ==
  upl.timers = upl.failed + (IF upl.up = "request" THEN 1 ELSE 0)

(* UploadResumeResponse has a "resume_id: string": once the upload has been *)
(* answered, the page knows the resume it asks a portfolio for.  The       *)
(* backend's answer has an "id", and no "resume_id".                       *)
AnswerNamesResume == upl.stage = "template" => upl.resume = "r1"
=============================================================================
