---------------------------- MODULE ResumeUpload ----------------------------
(***************************************************************************)
(* The resumes of one user: a file in storage, a row in PostgreSQL and a   *)
(* parse that runs in the upload request or, when that fails, in a Celery  *)
(* worker.  File and row are two steps of an upload and of a delete, and   *)
(* each of the two may be the last one that happens.                       *)
(*                                                                         *)
(* Every upload draws a fresh id and a fresh storage key (uuid4), so a     *)
(* resume, its request and its file share one name here.  Without storage  *)
(* credentials the file goes to the local disk under a key that only the   *)
(* storage client is ever asked for.                                       *)
(***************************************************************************)
EXTENDS Integers, FiniteSets, Functions

CONSTANTS
  Resumes,      \* ids the upload and build requests may draw
  Workers,      \* Celery worker slots
  Deleters,     \* concurrent DELETE /resume/{id} requests
  MaxRetries,   \* max_retries of parse_resume_task
  MaxCrashes,   \* bound: workers lost in a behaviour
  None

ASSUME ConstantsAssumption ==
  /\ MaxRetries \in Nat
  /\ MaxCrashes \in Nat
  /\ None \notin Resumes

VARIABLES
  configured,   \* are storage credentials set?  The same for a whole deployment
  file,         \* is there a file under the key drawn for r?
  keyed,        \* is resumes.s3_key of r set?
  status,       \* resumes.status as committed, "absent" for no row
  upload,       \* the request that draws r
  deleter,      \* the delete requests
  queue,        \* queue[r][k]: messages for r on retry k in the broker
  worker,       \* the worker slots
  crashes,
  abandoned,    \* ghost: uploads that failed with their file stored
  halfDeleted,  \* ghost: deletes that removed the file and not the row
  refused,      \* ghost: the broker refused the message; no line says so
  dropped,      \* log: "Resume %s not found in DB"
  dead,         \* audit event TASK_DEAD_LETTER
  rejected,     \* Celery gave the job up: the broker refused its retry
  unheard       \* a commit for it took effect, its answer was lost

rowVars == <<keyed, status>>
ghostVars == <<abandoned, halfDeleted>>
logVars == <<crashes, dropped, dead, rejected, unheard>>
taskVars == <<worker, crashes, dropped, dead, rejected, unheard>>

(* What no worker touches. *)
requestVars == <<configured, file, keyed, upload, deleter, ghostVars, refused>>

vars == <<configured, file, keyed, status, upload, deleter, queue, worker, crashes,
          abandoned, halfDeleted, refused, dropped, dead, rejected, unheard>>

Tries == 0 .. MaxRetries

ResumeStatus == {"absent", "pending", "processing", "done", "failed"}

IdleWorker == [pc |-> "idle", job |-> None, tries |-> 0]
IdleDeleter == [pc |-> "idle", resume |-> None]

Init ==
  /\ configured \in BOOLEAN
  /\ file = [r \in Resumes |-> FALSE]
  /\ keyed = [r \in Resumes |-> FALSE]
  /\ status = [r \in Resumes |-> "absent"]
  /\ upload = [r \in Resumes |-> "idle"]
  /\ deleter = [d \in Deleters |-> IdleDeleter]
  /\ queue = [r \in Resumes |-> [k \in Tries |-> 0]]
  /\ worker = [w \in Workers |-> IdleWorker]
  /\ crashes = 0
  /\ abandoned = {}
  /\ halfDeleted = {}
  /\ refused = {}
  /\ dropped = {}
  /\ dead = {}
  /\ rejected = {}
  /\ unheard = {}

-----------------------------------------------------------------------------
(* Faulty variants: each replaces the definition it is named after in one     *)
(* check, which shows that the property checked there can fail.               *)

AfterPutFailure_CarryOn == "stored"
AfterEraseFailure_CarryOn(d) == [deleter[d] EXCEPT !.pc = "erased"]
InitialStatus_EnumName == "uploaded"
RowExists_Upsert(r) == r \in Resumes
Send_Lost(r, k) == UNCHANGED queue
Send_Twice(r, k) == queue' = [queue EXCEPT ![r][k] = @ + 2]
NextTry_NotCounted(k) == k

-----------------------------------------------------------------------------
(* POST /upload.  A request that fails validation (400, 413) has done nothing.*)

RowExists(r) == status[r] # "absent"

Send(r, k) == queue' = [queue EXCEPT ![r][k] = @ + 1]

SetUpload(r, pc) == upload' = [upload EXCEPT ![r] = pc]

(* storage.upload_file, or the file on the local disk. *)
Put(r) ==
  /\ upload[r] = "idle"
  /\ file' = [file EXCEPT ![r] = TRUE]
  /\ SetUpload(r, "stored")
  /\ UNCHANGED <<configured, rowVars, deleter, queue, taskVars, ghostVars, refused>>

AfterPutFailure == "over"

(* 502.  The answer of a put that was carried out may be what got lost. *)
PutFails(r) ==
  /\ upload[r] = "idle"
  /\ \/ UNCHANGED <<file, abandoned>>
     \/ /\ file' = [file EXCEPT ![r] = TRUE]
        /\ abandoned' = abandoned \cup {r}
  /\ SetUpload(r, AfterPutFailure)
  /\ UNCHANGED <<configured, rowVars, deleter, queue, taskVars, halfDeleted,
                 refused>>

(* The URL is signed and db.flush() inserts the row, uncommitted. *)
Insert(r) ==
  /\ upload[r] = "stored"
  /\ SetUpload(r, "inserted")
  /\ UNCHANGED <<configured, file, rowVars, deleter, queue, taskVars, ghostVars,
                 refused>>

ParseInline(r) ==
  /\ upload[r] = "inserted"
  /\ SetUpload(r, "parsed") \/ SetUpload(r, "unparsed")
  /\ UNCHANGED <<configured, file, rowVars, deleter, queue, taskVars, ghostVars,
                 refused>>

(* parse_resume_task.delay(): the message leaves before the commit. *)
Enqueue(r) ==
  /\ upload[r] = "unparsed"
  /\ Send(r, 0)
  /\ SetUpload(r, "queued")
  /\ UNCHANGED <<configured, file, rowVars, deleter, taskVars, ghostVars, refused>>

(* The broker refuses the message.  The except branch is a bare pass: the log *)
(* ends with "will retry via Celery", and nothing retries.                    *)
EnqueueFails(r) ==
  /\ upload[r] = "unparsed"
  /\ refused' = refused \cup {r}
  /\ SetUpload(r, "queued")
  /\ UNCHANGED <<configured, file, rowVars, deleter, queue, taskVars, ghostVars>>

InitialStatus == "pending"

(* get_db commits once the handler has returned. *)
Commit(r) ==
  /\ upload[r] = "queued"
  /\ status' = [status EXCEPT ![r] = InitialStatus]
  /\ keyed' = [keyed EXCEPT ![r] = TRUE]
  /\ SetUpload(r, "over")
  /\ UNCHANGED <<configured, file, deleter, queue, taskVars, ghostVars, refused>>

(* No row; the file stays where it is. *)
GiveUp(r) ==
  /\ abandoned' = IF file[r] THEN abandoned \cup {r} ELSE abandoned
  /\ SetUpload(r, "over")
  /\ UNCHANGED <<configured, file, rowVars, deleter, queue, taskVars, halfDeleted, refused>>

(* The parse is flushed as an update, which expires updated_at; _to_response  *)
(* reads it outside the greenlet, and the exception rolls the upload back.    *)
ResponseFails(r) ==
  /\ upload[r] = "parsed"
  /\ GiveUp(r)

(* Signing, a flush or the commit fails, or the request dies. *)
Abort(r) ==
  /\ upload[r] \in {"stored", "inserted", "unparsed", "queued"}
  /\ GiveUp(r)

(* POST /build: parsed from the start, and no file. *)
Build(r) ==
  /\ upload[r] = "idle"
  /\ status' = [status EXCEPT ![r] = "done"]
  /\ SetUpload(r, "over")
  /\ UNCHANGED <<configured, file, keyed, deleter, queue, taskVars, ghostVars,
                 refused>>

-----------------------------------------------------------------------------
(* DELETE /{id}: the file first, the row at the end of the request. *)

Load(d) ==
  /\ deleter[d].pc = "idle"
  /\ \E r \in Resumes :
       /\ RowExists(r)
       /\ deleter' = [deleter EXCEPT ![d] = [pc |-> "loaded", resume |-> r]]
  /\ UNCHANGED <<configured, file, rowVars, upload, queue, taskVars, ghostVars,
                 refused>>

(* Idempotent: a key without a file is deleted all the same. *)
Erase(d) ==
  /\ deleter[d].pc = "loaded"
  /\ keyed[deleter[d].resume]
  /\ configured
  /\ file' = [file EXCEPT ![deleter[d].resume] = FALSE]
  /\ deleter' = [deleter EXCEPT ![d].pc = "erased"]
  /\ UNCHANGED <<configured, rowVars, upload, queue, taskVars, ghostVars, refused>>

AfterEraseFailure(d) == IdleDeleter

(* 502, the row stays.  Without credentials it always comes to this.          *)
EraseFails(d) ==
  /\ deleter[d].pc = "loaded"
  /\ LET r == deleter[d].resume
     IN /\ keyed[r]
        /\ \/ UNCHANGED <<file, halfDeleted>>
           \/ /\ configured
              /\ file' = [file EXCEPT ![r] = FALSE]
              /\ halfDeleted' = halfDeleted \cup {r}
  /\ deleter' = [deleter EXCEPT ![d] = AfterEraseFailure(d)]
  /\ UNCHANGED <<configured, rowVars, upload, queue, taskVars, abandoned, refused>>

(* Nothing is left to do in storage: the row is next. *)
FileDone(d) ==
  \/ deleter[d].pc = "erased"
  \/ deleter[d].pc = "loaded" /\ ~keyed[deleter[d].resume]

(* db.delete and the commit; a row already gone is not an error. *)
DeleteCommit(d) ==
  /\ FileDone(d)
  /\ status' = [status EXCEPT ![deleter[d].resume] = "absent"]
  /\ deleter' = [deleter EXCEPT ![d] = IdleDeleter]
  /\ UNCHANGED <<configured, file, keyed, upload, queue, taskVars, ghostVars,
                 refused>>

(* The commit fails: a row whose file is gone already "becomes an orphan". *)
DeleteFails(d) ==
  /\ FileDone(d)
  /\ halfDeleted' = IF deleter[d].pc = "erased"
                      THEN halfDeleted \cup {deleter[d].resume} ELSE halfDeleted
  /\ deleter' = [deleter EXCEPT ![d] = IdleDeleter]
  /\ UNCHANGED <<configured, file, rowVars, upload, queue, taskVars, abandoned,
                 refused>>

-----------------------------------------------------------------------------
(* parse_resume_task in a worker. *)

NextTry(k) == k + 1

SetPc(w, pc) == worker' = [worker EXCEPT ![w].pc = pc]

Take(w) ==
  /\ worker[w].pc = "idle"
  /\ \E r \in Resumes, k \in Tries :
       /\ queue[r][k] > 0
       /\ queue' = [queue EXCEPT ![r][k] = @ - 1]
       /\ worker' = [worker EXCEPT ![w] = [pc |-> "start", job |-> r, tries |-> k]]
  /\ UNCHANGED <<requestVars, status, logVars>>

(* db.get found nothing: the task logs it and returns, successfully. *)
NotFound(w) ==
  /\ worker[w].pc = "start"
  /\ ~RowExists(worker[w].job)
  /\ dropped' = dropped \cup {worker[w].job}
  /\ SetPc(w, "ack")
  /\ UNCHANGED <<requestVars, status, queue, crashes, dead, rejected, unheard>>

Begin(w) ==
  /\ worker[w].pc = "start"
  /\ RowExists(worker[w].job)
  /\ status' = [status EXCEPT ![worker[w].job] = "processing"]
  /\ SetPc(w, "started")
  /\ UNCHANGED <<requestVars, queue, logVars>>

(* A local file is not in the bucket: its download always fails. *)
Download(w) ==
  /\ worker[w].pc = "started"
  /\ configured
  /\ file[worker[w].job]
  /\ SetPc(w, "parsing")
  /\ UNCHANGED <<requestVars, status, queue, logVars>>

(* The download, the text extraction or the AI call raises. *)
ParseFails(w) ==
  /\ worker[w].pc \in {"started", "parsing"}
  /\ SetPc(w, "failing")
  /\ UNCHANGED <<requestVars, status, queue, logVars>>

(* raw_text, parsed_data and the status are committed together. *)
Save(w) ==
  /\ worker[w].pc = "parsing"
  /\ RowExists(worker[w].job)
  /\ status' = [status EXCEPT ![worker[w].job] = "done"]
  /\ SetPc(w, "ack")
  /\ UNCHANGED <<requestVars, queue, logVars>>

(* The except branch commits the failure, heard or not, and raises. *)
Fail(w) ==
  /\ worker[w].pc = "failing"
  /\ RowExists(worker[w].job)
  /\ status' = [status EXCEPT ![worker[w].job] = "failed"]
  /\ SetPc(w, "raised")
  /\ UNCHANGED <<requestVars, queue, logVars>>

(* The row was deleted: the update matches nothing, in either branch. *)
RowGone(w) ==
  /\ worker[w].pc \in {"parsing", "failing"}
  /\ ~RowExists(worker[w].job)
  /\ SetPc(w, "raised")
  /\ UNCHANGED <<requestVars, status, queue, logVars>>

(* A read or a commit fails without effect. *)
DbError(w) ==
  /\ worker[w].pc \in {"start", "started", "parsing", "failing"}
  /\ SetPc(w, "raised")
  /\ UNCHANGED <<requestVars, status, queue, logVars>>

(* A commit takes effect and its answer is lost: the task does not know, the  *)
(* except branch's own commit finds the transaction dead, and both raise.     *)
CommitUnheard(w) ==
  /\ worker[w].pc \in {"start", "parsing"}
  /\ LET r == worker[w].job
     IN /\ RowExists(r)
        /\ status' = [status EXCEPT ![r] = IF worker[w].pc = "start" THEN "processing"
                                           ELSE "done"]
        /\ unheard' = unheard \cup {r}
  /\ SetPc(w, "raised")
  /\ UNCHANGED <<requestVars, queue, crashes, dropped, dead, rejected>>

(* autoretry_for publishes the next try; the message is acknowledged after. *)
Retry(w) ==
  /\ worker[w].pc = "raised"
  /\ worker[w].tries < MaxRetries
  /\ Send(worker[w].job, NextTry(worker[w].tries))
  /\ SetPc(w, "ack")
  /\ UNCHANGED <<requestVars, status, logVars>>

(* The broker refuses the retry: Task.retry raises Reject without requeue,    *)
(* and the message is given up.                                               *)
RetryRefused(w) ==
  /\ worker[w].pc = "raised"
  /\ worker[w].tries < MaxRetries
  /\ rejected' = rejected \cup {worker[w].job}
  /\ SetPc(w, "ack")
  /\ UNCHANGED <<requestVars, status, queue, crashes, dropped, dead, unheard>>

DeadLetter(w) ==
  /\ worker[w].pc = "raised"
  /\ worker[w].tries >= MaxRetries
  /\ dead' = dead \cup {worker[w].job}
  /\ SetPc(w, "ack")
  /\ UNCHANGED <<requestVars, status, queue, crashes, dropped, rejected, unheard>>

Ack(w) ==
  /\ worker[w].pc = "ack"
  /\ worker' = [worker EXCEPT ![w] = IdleWorker]
  /\ UNCHANGED <<requestVars, status, queue, logVars>>

(* reject_on_worker_lost: the unacknowledged message is queued again. *)
WorkerLost(w) ==
  /\ worker[w].pc # "idle"
  /\ crashes < MaxCrashes
  /\ crashes' = crashes + 1
  /\ Send(worker[w].job, worker[w].tries)
  /\ worker' = [worker EXCEPT ![w] = IdleWorker]
  /\ UNCHANGED <<requestVars, status, dropped, dead, rejected, unheard>>

(* Nothing in flight: the system waits for its user. *)
Rest ==
  /\ \A r \in Resumes : upload[r] \in {"idle", "over"} /\ \A k \in Tries : queue[r][k] = 0
  /\ \A d \in Deleters : deleter[d].pc = "idle"
  /\ \A w \in Workers : worker[w].pc = "idle"
  /\ UNCHANGED vars

-----------------------------------------------------------------------------
UploadStep(r) ==
  Insert(r) \/ ParseInline(r) \/ ResponseFails(r) \/ Enqueue(r) \/ Commit(r)

DeleteStep(d) == Erase(d) \/ EraseFails(d) \/ DeleteCommit(d)

WorkerStep(w) ==
  \/ Take(w) \/ NotFound(w) \/ Begin(w) \/ Download(w) \/ ParseFails(w) \/ Save(w)
  \/ Fail(w) \/ RowGone(w) \/ Retry(w) \/ DeadLetter(w) \/ Ack(w)

WorkerFault(w) == DbError(w) \/ CommitUnheard(w) \/ RetryRefused(w) \/ WorkerLost(w)

Next ==
  \/ \E r \in Resumes : \/ UploadStep(r) \/ Put(r) \/ PutFails(r) \/ EnqueueFails(r)
                        \/ Abort(r) \/ Build(r)
  \/ \E d \in Deleters : DeleteStep(d) \/ Load(d) \/ DeleteFails(d)
  \/ \E w \in Workers : WorkerStep(w) \/ WorkerFault(w)
  \/ Rest

Spec == Init /\ [][Next]_vars

(* Requests run to their end and workers keep consuming; that storage, the    *)
(* broker or the database fails, that a worker dies or that a user acts is    *)
(* never required.                                                            *)
FairSpec ==
  /\ Spec
  /\ \A r \in Resumes : WF_vars(UploadStep(r))
  /\ \A d \in Deleters : WF_vars(DeleteStep(d))
  /\ \A w \in Workers : WF_vars(WorkerStep(w))

-----------------------------------------------------------------------------
(* Properties. *)

Uploading == {"stored", "inserted", "parsed", "unparsed", "queued"}

TypeOK ==
  /\ configured \in BOOLEAN
  /\ file \in [Resumes -> BOOLEAN]
  /\ keyed \in [Resumes -> BOOLEAN]
  /\ status \in [Resumes -> ResumeStatus]
  /\ upload \in [Resumes -> Uploading \cup {"idle", "over"}]
  /\ deleter \in [Deleters -> [pc : {"idle", "loaded", "erased"},
                               resume : Resumes \cup {None}]]
  /\ queue \in [Resumes -> [Tries -> Nat]]
  /\ worker \in [Workers -> [pc : {"idle", "start", "started", "parsing", "failing",
                                   "raised", "ack"},
                             job : Resumes \cup {None}, tries : Tries]]
  /\ crashes \in 0 .. MaxCrashes
  /\ abandoned \subseteq Resumes
  /\ halfDeleted \subseteq Resumes
  /\ refused \subseteq Resumes
  /\ dropped \subseteq Resumes
  /\ dead \subseteq Resumes
  /\ rejected \subseteq Resumes
  /\ unheard \subseteq Resumes

(* A row that names a file has it, except while a delete is between the two   *)
(* removals or after one that stopped there: nothing else in uploads, parses  *)
(* and deletes of the same resume leaves a row whose file is missing.         *)
RowHasFile ==
  \A r \in Resumes :
    (RowExists(r) /\ keyed[r] /\ ~file[r]) =>
      \/ r \in halfDeleted
      \/ \E d \in Deleters : deleter[d].pc = "erased" /\ deleter[d].resume = r

(* A file without a row belongs to an upload under way or to one that failed  *)
(* with its file stored; a delete, even two of them at once, never leaves the *)
(* file of a deleted resume behind.                                           *)
FileHasRow ==
  \A r \in Resumes :
    (file[r] /\ ~RowExists(r)) => upload[r] \in Uploading \/ r \in abandoned

Busy == {"start", "started", "parsing", "failing", "raised"}

Working(r) ==
  \/ \E k \in Tries : queue[r][k] > 0
  \/ \E w \in Workers : worker[w].job = r /\ worker[w].pc \in Busy

(* A resume that shows "pending" or "processing" is being worked on, or it is *)
(* recorded why it never will be: the worker looked before the upload had     *)
(* committed, the retries ran out, or the broker refused a retry.  One cause  *)
(* is silent, the broker that refused the first message (the bare pass after  *)
(* "will retry via Celery"); it leaves the resume "pending" and nothing else. *)
StallsHaveCauses ==
  \A r \in Resumes :
    status[r] \in {"pending", "processing"} =>
      \/ Working(r)
      \/ r \in dropped \cup dead \cup rejected
      \/ status[r] = "pending" /\ r \in refused

(* While no worker has been lost, and no commit for it has gone unheard, a    *)
(* parsed resume stays parsed until it is deleted: what was built is never    *)
(* parsed, and no retry runs after a success.                                 *)
DoneIsStable ==
  [][\A r \in Resumes :
       (status[r] = "done" /\ crashes' = 0 /\ r \notin unheard')
         => status'[r] \in {"done", "absent"}]_vars

(* What storage and table show is a behaviour of ResumeStore: file before     *)
(* row, erased before removed, no parse that falls back to waiting, and what  *)
(* was deleted stays so, whatever workers and other deletes have it in hand.  *)
Store == INSTANCE ResumeStore WITH used <- {r \in Resumes : upload[r] # "idle"},
                                   named <- keyed

ImplementsStore == Store!Spec

(* A stored resume that a worker has in hand reaches a final status, or is    *)
(* deleted, or its retries are reported exhausted or refused.                 *)
ParseSettles ==
  \A r \in Resumes :
    (status[r] \in {"pending", "processing"} /\ Working(r))
      ~> (status[r] \in {"done", "failed", "absent"} \/ r \in dead \cup rejected)
=============================================================================
