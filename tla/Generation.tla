----------------------------- MODULE Generation -----------------------------
(***************************************************************************)
(* Portfolio generation for one user: the POST /portfolio/generate handler *)
(* inside its database transaction, the Celery broker, the workers that    *)
(* run generate_portfolio_task, and the deletes that race them.  Every     *)
(* commit, read and broker call of the code is a step of its own.          *)
(*                                                                         *)
(* PostgreSQL runs READ COMMITTED: a handler's insert is invisible to      *)
(* others until its commit, and a second insert of the same slug waits for *)
(* it.  Celery runs with acks_late, so a message whose worker dies is      *)
(* delivered again.                                                        *)
(***************************************************************************)
EXTENDS Integers, FiniteSets

CONSTANTS
  Resumes,           \* resumes of the user
  Portfolios,        \* portfolio ids the handlers may draw
  Requests,          \* concurrent POST /portfolio/generate requests
  Workers,           \* Celery worker slots (prefetch 1: one task each)
  Templates,         \* what the request schema accepts as template_id
  FreeTemplates,     \* FREE_TEMPLATES
  StoredTemplates,   \* the rows of the templates table (foreign key)
  SlugOf,            \* SlugOf[r]: _slugify of the name parsed from resume r,
                     \* None when the parser found no name
  FreeLimit,         \* FREE_PORTFOLIO_LIMIT
  MaxRetries,        \* max_retries of the task
  MaxCrashes,        \* bound: workers lost in a behaviour
  MaxPlanChanges,    \* bound: upgrades and downgrades in a behaviour
  None

ASSUME ConstantsAssumption ==
  /\ FreeLimit \in Nat
  /\ MaxRetries \in Nat
  /\ MaxCrashes \in Nat
  /\ MaxPlanChanges \in Nat
  /\ FreeTemplates \subseteq Templates
  /\ None \notin Resumes \cup Portfolios

(* The limit allows a portfolio, and there are finitely many to count. *)
ASSUME LimitAssumption ==
  FreeLimit > 0 /\ IsFiniteSet(Requests) /\ IsFiniteSet(Portfolios)

VARIABLES
  plan,         \* users.plan, written by the billing webhook
  planChanges,
  resume,       \* resumes.status, with "deleted" for no row
  status,       \* portfolios.status as committed, "absent" for no row
  source,       \* portfolios.resume_id as committed
  slug,         \* portfolios.slug as committed
  req,          \* the generate handlers
  used,         \* ids already drawn (uuid4: never drawn twice)
  queue,        \* queue[p][k]: messages for p on retry k in the broker
  worker,       \* the worker slots
  crashes,
  unqueued,     \* log: "Failed to enqueue generation task"
  dropped,      \* log: "Portfolio %s not found"
  dead,         \* audit event TASK_DEAD_LETTER
  rejected,     \* Celery gave the job up: the broker refused its retry
  unheard       \* a commit for it took effect, its answer was lost

rowVars == <<status, source, slug>>
userVars == <<plan, planChanges, resume>>
apiVars == <<req, used, unqueued>>
logVars == <<crashes, dropped, dead, rejected, unheard>>
taskVars == <<worker, crashes, dropped, dead, rejected, unheard>>
vars == <<plan, planChanges, resume, status, source, slug, req, used, queue,
          worker, crashes, unqueued, dropped, dead, rejected, unheard>>

Tries == 0 .. MaxRetries

IdleRequest == [pc |-> "idle", resume |-> None, id |-> None]
IdleWorker == [pc |-> "idle", job |-> None, tries |-> 0, resume |-> None]

(* PortfolioStatus and ResumeStatus as far as this part writes or reads them. *)
PortfolioStatus == {"absent", "queued", "generating", "published", "failed"}
ResumeStatus == {"pending", "done", "deleted"}

Request == [pc : {"idle", "admitted", "inserted", "enqueued"},
            resume : Resumes \cup {None}, id : Portfolios \cup {None}]

Worker == [pc : {"idle", "start", "started", "render", "failing", "raised", "ack"},
           job : Portfolios \cup {None}, tries : Tries,
           resume : Resumes \cup {None}]

Init ==
  /\ plan \in {"free", "pro"}
  /\ planChanges = 0
  /\ resume \in [Resumes -> {"pending", "done"}]
  /\ status = [p \in Portfolios |-> "absent"]
  /\ source = [p \in Portfolios |-> None]
  /\ slug = [p \in Portfolios |-> None]
  /\ req = [q \in Requests |-> IdleRequest]
  /\ used = {}
  /\ queue = [p \in Portfolios |-> [k \in Tries |-> 0]]
  /\ worker = [w \in Workers |-> IdleWorker]
  /\ crashes = 0
  /\ unqueued = {}
  /\ dropped = {}
  /\ dead = {}
  /\ rejected = {}
  /\ unheard = {}

-----------------------------------------------------------------------------
(* Faulty variants: each replaces the definition it is named after in one     *)
(* check, which shows that the property checked there can fail.               *)

InitialStatus_ColumnDefault == "draft"
UnderLimit_NeverChecked == TRUE
RowExists_Upsert(p) == p \in Portfolios
Send_Lost(p, k) == UNCHANGED queue
Send_Twice(p, k) == queue' = [queue EXCEPT ![p][k] = @ + 2]
NextTry_NotCounted(k) == k
AfterFailure_Swallowed == "ack"

-----------------------------------------------------------------------------
(* The generate handler. *)

RowExists(p) == status[p] # "absent"

InitialStatus == "queued"

(* A message for p, on its retry k, enters the broker. *)
Send(p, k) == queue' = [queue EXCEPT ![p][k] = @ + 1]

Rows == {p \in Portfolios : RowExists(p)}

(* Plan and count are read in one place, the insert comes later. *)
UnderLimit == plan = "free" => Cardinality(Rows) < FreeLimit

TemplateAllowed(t) ==
  /\ plan = "free" => t \in FreeTemplates
  /\ t \in StoredTemplates

(* The limit and template checks.  A refused request leaves no trace. *)
Admit(q) ==
  /\ req[q].pc = "idle"
  /\ UnderLimit
  /\ \E t \in Templates : TemplateAllowed(t)
  /\ \E r \in Resumes, p \in Portfolios \ used :
       /\ req' = [req EXCEPT ![q] = [pc |-> "admitted", resume |-> r, id |-> p]]
       /\ used' = used \cup {p}
  /\ UNCHANGED <<userVars, rowVars, queue, taskVars, unqueued>>

SlugTaken(s) == \E p \in Rows : slug[p] = s

(* Another transaction holds an uncommitted row with this slug. *)
SlugLocked(q, s) ==
  \E o \in Requests \ {q} : /\ req[o].pc \in {"inserted", "enqueued"}
                            /\ SlugOf[req[o].resume] = s

(* The resume is owned and parsed; db.flush() inserts the row, uncommitted. *)
Insert(q) ==
  /\ req[q].pc = "admitted"
  /\ resume[req[q].resume] = "done"
  /\ SlugOf[req[q].resume] # None
  /\ ~SlugTaken(SlugOf[req[q].resume])
  /\ ~SlugLocked(q, SlugOf[req[q].resume])
  /\ req' = [req EXCEPT ![q].pc = "inserted"]
  /\ UNCHANGED <<userVars, rowVars, queue, taskVars, used, unqueued>>

(* 404 or 422; or 500, when the name was not parsed (None has no lower())     *)
(* or the unique index refuses the slug.                                      *)
Refuse(q) ==
  /\ req[q].pc = "admitted"
  /\ \/ resume[req[q].resume] # "done"
     \/ SlugOf[req[q].resume] = None
     \/ SlugTaken(SlugOf[req[q].resume])
  /\ req' = [req EXCEPT ![q] = IdleRequest]
  /\ UNCHANGED <<userVars, rowVars, queue, taskVars, used, unqueued>>

(* generate_portfolio_task.delay(): the message leaves before the commit. *)
Enqueue(q) ==
  /\ req[q].pc = "inserted"
  /\ Send(req[q].id, 0)
  /\ req' = [req EXCEPT ![q].pc = "enqueued"]
  /\ UNCHANGED <<userVars, rowVars, taskVars, used, unqueued>>

(* The broker is unreachable: the exception is logged and swallowed. *)
EnqueueFails(q) ==
  /\ req[q].pc = "inserted"
  /\ unqueued' = unqueued \cup {req[q].id}
  /\ req' = [req EXCEPT ![q].pc = "enqueued"]
  /\ UNCHANGED <<userVars, rowVars, queue, taskVars, used>>

(* get_db commits once the handler has returned, whether or not the answer of  *)
(* the commit is heard.                                                       *)
Commit(q) ==
  /\ req[q].pc = "enqueued"
  /\ LET p == req[q].id
         r == req[q].resume
     IN /\ status' = [status EXCEPT ![p] = InitialStatus]
        /\ source' = [source EXCEPT ![p] = r]
        /\ slug' = [slug EXCEPT ![p] = SlugOf[r]]
  /\ req' = [req EXCEPT ![q] = IdleRequest]
  /\ UNCHANGED <<userVars, queue, taskVars, used, unqueued>>

(* The request dies, or its commit does: the transaction is rolled back. *)
Rollback(q) ==
  /\ req[q].pc \in {"inserted", "enqueued"}
  /\ req' = [req EXCEPT ![q] = IdleRequest]
  /\ UNCHANGED <<userVars, rowVars, queue, taskVars, used, unqueued>>

-----------------------------------------------------------------------------
(* generate_portfolio_task in a worker. *)

(* The except branch ends with raise. *)
AfterFailure == "raised"

NextTry(k) == k + 1

SetPc(w, pc) == worker' = [worker EXCEPT ![w].pc = pc]

Take(w) ==
  /\ worker[w].pc = "idle"
  /\ \E p \in Portfolios, k \in Tries :
       /\ queue[p][k] > 0
       /\ queue' = [queue EXCEPT ![p][k] = @ - 1]
       /\ worker' = [worker EXCEPT ![w] = [pc |-> "start", job |-> p, tries |-> k,
                                           resume |-> None]]
  /\ UNCHANGED <<userVars, rowVars, apiVars, logVars>>

(* db.get found nothing: the task logs it and returns, successfully. *)
NotFound(w) ==
  /\ worker[w].pc = "start"
  /\ ~RowExists(worker[w].job)
  /\ dropped' = dropped \cup {worker[w].job}
  /\ SetPc(w, "ack")
  /\ UNCHANGED <<userVars, rowVars, apiVars, queue, crashes, dead, rejected, unheard>>

(* The row is loaded, resume_id with it, and committed as generating. *)
Begin(w) ==
  /\ worker[w].pc = "start"
  /\ LET p == worker[w].job
     IN /\ RowExists(p)
        /\ status' = [status EXCEPT ![p] = "generating"]
        /\ worker' = [worker EXCEPT ![w].pc = "started", ![w].resume = source[p]]
  /\ UNCHANGED <<userVars, source, slug, apiVars, queue, logVars>>

HasParsedData(r) == r # None /\ resume[r] = "done"

(* The resume is read again; rendering happens in memory. *)
ReadResume(w) ==
  /\ worker[w].pc = "started"
  /\ IF HasParsedData(worker[w].resume) THEN SetPc(w, "render") ELSE SetPc(w, "failing")
  /\ UNCHANGED <<userVars, rowVars, apiVars, queue, logVars>>

RenderFails(w) ==
  /\ worker[w].pc = "render"
  /\ SetPc(w, "failing")
  /\ UNCHANGED <<userVars, rowVars, apiVars, queue, logVars>>

(* The rendered page and its status are committed together. *)
Publish(w) ==
  /\ worker[w].pc = "render"
  /\ LET p == worker[w].job
     IN /\ RowExists(p)
        /\ status' = [status EXCEPT ![p] = "published"]
  /\ SetPc(w, "ack")
  /\ UNCHANGED <<userVars, source, slug, apiVars, queue, logVars>>

(* The except branch commits the failure, heard or not, and raises. *)
Fail(w) ==
  /\ worker[w].pc = "failing"
  /\ RowExists(worker[w].job)
  /\ status' = [status EXCEPT ![worker[w].job] = "failed"]
  /\ SetPc(w, AfterFailure)
  /\ UNCHANGED <<userVars, source, slug, apiVars, queue, logVars>>

(* The row was deleted: the update matches nothing, in either branch. *)
RowGone(w) ==
  /\ worker[w].pc \in {"render", "failing"}
  /\ ~RowExists(worker[w].job)
  /\ SetPc(w, "raised")
  /\ UNCHANGED <<userVars, rowVars, apiVars, queue, logVars>>

(* A read or a commit fails without effect: the connection is lost, or the row *)
(* is deleted between db.get and the first commit.                            *)
DbError(w) ==
  /\ worker[w].pc \in {"start", "started", "render", "failing"}
  /\ SetPc(w, "raised")
  /\ UNCHANGED <<userVars, rowVars, apiVars, queue, logVars>>

(* A commit takes effect and its answer is lost: the task does not know, the  *)
(* except branch's own commit finds the transaction dead, and both raise.     *)
CommitUnheard(w) ==
  /\ worker[w].pc \in {"start", "render"}
  /\ LET p == worker[w].job
     IN /\ RowExists(p)
        /\ status' = [status EXCEPT ![p] = IF worker[w].pc = "start" THEN "generating"
                                           ELSE "published"]
        /\ unheard' = unheard \cup {p}
  /\ SetPc(w, "raised")
  /\ UNCHANGED <<userVars, source, slug, apiVars, queue, crashes, dropped, dead,
                 rejected>>

(* autoretry_for publishes the next try; the message is acknowledged after. *)
Retry(w) ==
  /\ worker[w].pc = "raised"
  /\ worker[w].tries < MaxRetries
  /\ Send(worker[w].job, NextTry(worker[w].tries))
  /\ SetPc(w, "ack")
  /\ UNCHANGED <<userVars, rowVars, apiVars, logVars>>

(* The broker refuses the retry: Task.retry raises Reject without requeue,    *)
(* and the message is given up.                                               *)
RetryRefused(w) ==
  /\ worker[w].pc = "raised"
  /\ worker[w].tries < MaxRetries
  /\ rejected' = rejected \cup {worker[w].job}
  /\ SetPc(w, "ack")
  /\ UNCHANGED <<userVars, rowVars, apiVars, queue, crashes, dropped, dead, unheard>>

(* All retries exhausted: the dead-letter event, and a normal return. *)
DeadLetter(w) ==
  /\ worker[w].pc = "raised"
  /\ worker[w].tries >= MaxRetries
  /\ dead' = dead \cup {worker[w].job}
  /\ SetPc(w, "ack")
  /\ UNCHANGED <<userVars, rowVars, apiVars, queue, crashes, dropped, rejected, unheard>>

Ack(w) ==
  /\ worker[w].pc = "ack"
  /\ worker' = [worker EXCEPT ![w] = IdleWorker]
  /\ UNCHANGED <<userVars, rowVars, apiVars, queue, logVars>>

(* reject_on_worker_lost: the unacknowledged message is queued again. *)
WorkerLost(w) ==
  /\ worker[w].pc # "idle"
  /\ crashes < MaxCrashes
  /\ crashes' = crashes + 1
  /\ Send(worker[w].job, worker[w].tries)
  /\ worker' = [worker EXCEPT ![w] = IdleWorker]
  /\ UNCHANGED <<userVars, rowVars, apiVars, dropped, dead, rejected, unheard>>

-----------------------------------------------------------------------------
(* The rest of the system, as far as generation sees it. *)

DeletePortfolio(p) ==
  /\ RowExists(p)
  /\ status' = [status EXCEPT ![p] = "absent"]
  /\ source' = [source EXCEPT ![p] = None]
  /\ slug' = [slug EXCEPT ![p] = None]
  /\ UNCHANGED <<userVars, apiVars, queue, taskVars>>

(* The uncommitted rows that refer to r keep its row locked. *)
DeleteResume(r) ==
  /\ resume[r] # "deleted"
  /\ \A q \in Requests : req[q].resume = r => req[q].pc \notin {"inserted", "enqueued"}
  /\ resume' = [resume EXCEPT ![r] = "deleted"]
  /\ source' = [p \in Portfolios |-> IF source[p] = r THEN None ELSE source[p]]
  /\ UNCHANGED <<plan, planChanges, status, slug, apiVars, queue, taskVars>>

ResumeParsed(r) ==
  /\ resume[r] = "pending"
  /\ resume' = [resume EXCEPT ![r] = "done"]
  /\ UNCHANGED <<plan, planChanges, rowVars, apiVars, queue, taskVars>>

ChangePlan ==
  /\ planChanges < MaxPlanChanges
  /\ planChanges' = planChanges + 1
  /\ plan' = IF plan = "free" THEN "pro" ELSE "free"
  /\ UNCHANGED <<resume, rowVars, apiVars, queue, taskVars>>

(* Nothing in flight: the system waits for its users. *)
Rest ==
  /\ \A q \in Requests : req[q].pc = "idle"
  /\ \A w \in Workers : worker[w].pc = "idle"
  /\ \A p \in Portfolios, k \in Tries : queue[p][k] = 0
  /\ UNCHANGED vars

-----------------------------------------------------------------------------
HandlerStep(q) == Insert(q) \/ Refuse(q) \/ Enqueue(q) \/ Commit(q)

WorkerStep(w) ==
  \/ Take(w) \/ NotFound(w) \/ Begin(w) \/ ReadResume(w) \/ Publish(w) \/ Fail(w)
  \/ RowGone(w) \/ Retry(w) \/ DeadLetter(w) \/ Ack(w)

WorkerFault(w) ==
  \/ RenderFails(w) \/ DbError(w) \/ CommitUnheard(w) \/ RetryRefused(w) \/ WorkerLost(w)

Next ==
  \/ \E q \in Requests : HandlerStep(q) \/ Admit(q) \/ EnqueueFails(q) \/ Rollback(q)
  \/ \E w \in Workers : WorkerStep(w) \/ WorkerFault(w)
  \/ \E p \in Portfolios : DeletePortfolio(p)
  \/ \E r \in Resumes : DeleteResume(r) \/ ResumeParsed(r)
  \/ ChangePlan
  \/ Rest

Spec == Init /\ [][Next]_vars

(* Requests run to their end and workers keep consuming; that a broker or the *)
(* database fails, that a worker dies or that a user acts is never required.  *)
FairSpec ==
  /\ Spec
  /\ \A q \in Requests : WF_vars(HandlerStep(q))
  /\ \A w \in Workers : WF_vars(WorkerStep(w))

-----------------------------------------------------------------------------
(* Properties. *)

TypeOK ==
  /\ plan \in {"free", "pro"}
  /\ planChanges \in 0 .. MaxPlanChanges
  /\ resume \in [Resumes -> ResumeStatus]
  /\ status \in [Portfolios -> PortfolioStatus]
  /\ source \in [Portfolios -> Resumes \cup {None}]
  /\ slug \in [Portfolios -> {SlugOf[r] : r \in Resumes} \cup {None}]
  /\ req \in [Requests -> Request]
  /\ used \subseteq Portfolios
  /\ queue \in [Portfolios -> [Tries -> Nat]]
  /\ worker \in [Workers -> Worker]
  /\ crashes \in 0 .. MaxCrashes
  /\ unqueued \subseteq Portfolios
  /\ dropped \subseteq Portfolios
  /\ dead \subseteq Portfolios
  /\ rejected \subseteq Portfolios
  /\ unheard \subseteq Portfolios

Busy == {"start", "started", "render", "failing", "raised"}

(* Somebody still has to work on p: a message in the broker, or a worker that *)
(* has not finished with it.                                                  *)
Working(p) ==
  \/ \E k \in Tries : queue[p][k] > 0
  \/ \E w \in Workers : worker[w].job = p /\ worker[w].pc \in Busy

(* A portfolio that still shows "queued" or "generating" either has a job on  *)
(* its way, or one of four recorded events tells why it never will: the       *)
(* enqueue failed, the worker looked before the commit, the retries ran out,  *)
(* or the broker refused a retry.  No message is lost without a trace.        *)
NoSilentStall ==
  \A p \in Portfolios :
    status[p] \in {"queued", "generating"} =>
      Working(p) \/ p \in unqueued \cup dropped \cup dead \cup rejected

(* "failed" is not the end while tries are left: a portfolio that shows as    *)
(* failed is being worked on, or its retries ran out, or one was refused.  No *)
(* failure, delete or second copy of the job makes a first failure final.     *)
FailedIsTriedAgain ==
  \A p \in Portfolios :
    status[p] = "failed" => Working(p) \/ p \in dead \cup rejected

(* The messages for p in the broker, and the workers busy with it. *)
Messages(p) == UNION {{k} \X (1 .. queue[p][k]) : k \in Tries}
BusyWith(p) == {w \in Workers : worker[w].job = p /\ worker[w].pc \in Busy}

Copies(p) == Cardinality(Messages(p)) + Cardinality(BusyWith(p))

(* A worker lost is the only thing that multiplies a job: the copies of a job *)
(* in the broker and in the workers exceed one by at most the workers lost.   *)
(* Without one, no two workers ever run the same portfolio.                   *)
BoundedCopies == \A p \in Portfolios : Copies(p) <= 1 + crashes

(* While no worker has been lost, and no commit for it has gone unheard, a    *)
(* published portfolio stays published until its owner deletes it: no retry   *)
(* sends a finished page back to "generating" or "failed".                    *)
PublishedIsStable ==
  [][\A p \in Portfolios :
       (status[p] = "published" /\ crashes' = 0 /\ p \notin unheard')
         => status'[p] \in {"published", "absent"}]_vars

(* How far the free limit can be overrun: a user who has never been on Pro    *)
(* holds at most as many portfolios beyond the limit as there are requests    *)
(* racing each other, minus one.                                              *)
OverrunBound ==
  (plan = "free" /\ planChanges = 0) =>
    Cardinality(Rows) <= FreeLimit + Cardinality(Requests) - 1

(* What the limit promises: "Free plan allows {FREE_PORTFOLIO_LIMIT} portfolios". *)
FreeLimitHolds ==
  (plan = "free" /\ planChanges = 0) => Cardinality(Rows) <= FreeLimit

(* A stored portfolio that has a job on its way reaches a final status, or is *)
(* deleted, or its retries are reported exhausted or refused.                 *)
JobsSettle ==
  \A p \in Portfolios :
    (status[p] \in {"queued", "generating"} /\ Working(p))
      ~> (status[p] \in {"published", "failed", "absent"} \/ p \in dead \cup rejected)

(* What a poll of the status shows is a behaviour of PortfolioLifecycle.      *)
Held == {req[q].id : q \in Requests}

Lifecycle == INSTANCE PortfolioLifecycle
               WITH retired <- {p \in used : status[p] = "absent" /\ p \notin Held}

ImplementsLifecycle == Lifecycle!Spec
=============================================================================
