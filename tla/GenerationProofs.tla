-------------------------- MODULE GenerationProofs ---------------------------
(* Proofs about Generation, for all values of its constants.                  *)
EXTENDS Generation, FiniteSetTheorems, TLAPS

(* Who is active holds something: a request its resume and its id, a worker   *)
(* its job.                                                                   *)
RequestsHold ==
  \A q \in Requests :
    req[q].pc # "idle" => req[q].resume \in Resumes /\ req[q].id \in used

WorkersHold == \A w \in Workers : worker[w].pc # "idle" => worker[w].job \in Portfolios

Typed == TypeOK /\ RequestsHold /\ WorkersHold

(* The steps of a worker that is not lost. *)
Steady(w) ==
  WorkerStep(w) \/ RenderFails(w) \/ DbError(w) \/ CommitUnheard(w) \/ RetryRefused(w)

-----------------------------------------------------------------------------
(* Sending touches the count of one message only. *)
LEMMA SendLemma ==
  ASSUME TypeOK, NEW p \in Portfolios, NEW k \in Tries, Send(p, k)
  PROVE  /\ queue' \in [Portfolios -> [Tries -> Nat]]
         /\ queue'[p][k] = queue[p][k] + 1
         /\ \A o \in Portfolios, j \in Tries : queue'[o][j] >= queue[o][j]
<1>1. queue \in [Portfolios -> [Tries -> Nat]]
  BY DEF TypeOK
<1>2. queue' = [queue EXCEPT ![p] = [queue[p] EXCEPT ![k] = queue[p][k] + 1]]
  BY DEF Send
<1>3. [queue[p] EXCEPT ![k] = queue[p][k] + 1] \in [Tries -> Nat]
  BY <1>1
<1>4. queue' \in [Portfolios -> [Tries -> Nat]]
  BY <1>1, <1>2, <1>3
<1>5. queue'[p][k] = queue[p][k] + 1
  BY <1>1, <1>2
<1>6. ASSUME NEW o \in Portfolios, NEW j \in Tries
      PROVE  queue'[o][j] >= queue[o][j]
  <2>1. CASE o = p
    BY <1>1, <1>2, <2>1
  <2>2. CASE o # p
    BY <1>1, <1>2, <2>2
  <2> QED
    BY <2>1, <2>2
<1> QED
  BY <1>4, <1>5, <1>6

(* The steps of the generate handlers keep the types.                         *)
LEMMA HandlersTyped ==
  ASSUME Typed, NEW q \in Requests,
         HandlerStep(q) \/ Admit(q) \/ EnqueueFails(q) \/ Rollback(q)
  PROVE  Typed'
<1> USE ConstantsAssumption DEF Typed, TypeOK, RequestsHold, WorkersHold
<1>1. CASE Admit(q)
  BY <1>1 DEF Admit, Request, userVars, rowVars, taskVars
<1>2. CASE Insert(q)
  BY <1>2 DEF Insert, Request, userVars, rowVars, taskVars
<1>3. CASE Refuse(q)
  BY <1>3 DEF Refuse, Request, IdleRequest, userVars, rowVars, taskVars
<1>4. CASE Enqueue(q)
  <2>0. req[q].id \in Portfolios /\ 0 \in Tries
    BY <1>4 DEF Enqueue, Tries
  <2>1. queue' \in [Portfolios -> [Tries -> Nat]]
    BY <1>4, <2>0, SendLemma DEF Enqueue
  <2>2. req' \in [Requests -> Request]
    <3>1. req' = [req EXCEPT ![q] = [req[q] EXCEPT !.pc = "enqueued"]]
      BY <1>4 DEF Enqueue
    <3>2. [req[q] EXCEPT !.pc = "enqueued"] \in Request
      BY DEF Request
    <3> QED
      BY <3>1, <3>2
  <2>3. RequestsHold'
    BY <1>4 DEF Enqueue, Request
  <2> QED
    BY <1>4, <2>1, <2>2, <2>3 DEF Enqueue, userVars, rowVars, taskVars
<1>5. CASE EnqueueFails(q)
  BY <1>5 DEF EnqueueFails, Request, userVars, rowVars, taskVars
<1>6. CASE Commit(q)
  <2>1. /\ req[q].id \in Portfolios
        /\ req[q].resume \in Resumes
        /\ req' = [req EXCEPT ![q] = IdleRequest]
    BY <1>6 DEF Commit
  <2>2. /\ status' \in [Portfolios -> PortfolioStatus]
        /\ source' \in [Portfolios -> Resumes \cup {None}]
        /\ slug' \in [Portfolios -> {SlugOf[r] : r \in Resumes} \cup {None}]
    BY <1>6, <2>1 DEF Commit, InitialStatus, PortfolioStatus
  <2> QED
    BY <1>6, <2>1, <2>2 DEF Commit, Request, IdleRequest, userVars, taskVars
<1>7. CASE Rollback(q)
  BY <1>7 DEF Rollback, Request, IdleRequest, userVars, rowVars, taskVars
<1> QED
  BY <1>1, <1>2, <1>3, <1>4, <1>5, <1>6, <1>7 DEF HandlerStep

\* A worker that moves on keeps the job it has.
LEMMA PcTyped ==
  ASSUME worker \in [Workers -> Worker], WorkersHold, NEW w \in Workers, worker[w].pc # "idle",
         NEW pc \in {"start", "started", "render", "failing", "raised", "ack"}, SetPc(w, pc)
  PROVE  worker' \in [Workers -> Worker] /\ WorkersHold'
<1> DEFINE new == [worker[w] EXCEPT !.pc = pc]
<1>1. new \in Worker /\ new.job = worker[w].job
  BY DEF Worker
<1>2. worker' = [worker EXCEPT ![w] = new]
  BY DEF SetPc
<1>3. worker[w].job \in Portfolios
  BY DEF WorkersHold
<1> HIDE DEF new
<1> QED
  BY <1>1, <1>2, <1>3 DEF WorkersHold

(* The steps of the workers keep the types.                                   *)
LEMMA WorkersTyped ==
  ASSUME Typed, NEW w \in Workers,
         WorkerStep(w) \/ WorkerFault(w)
  PROVE  Typed'
<1> USE ConstantsAssumption DEF Typed, TypeOK, RequestsHold, WorkersHold
<1>1. CASE Take(w)
  <2>1. PICK p \in Portfolios, k \in Tries :
          /\ queue[p][k] > 0
          /\ queue' = [queue EXCEPT ![p][k] = @ - 1]
          /\ worker' = [worker EXCEPT ![w] = [pc |-> "start", job |-> p, tries |-> k,
                                              resume |-> None]]
    BY <1>1 DEF Take
  <2>2. queue' \in [Portfolios -> [Tries -> Nat]]
    BY <2>1
  <2> QED
    BY <1>1, <2>1, <2>2 DEF Take, Worker, userVars, rowVars, apiVars, logVars
<1>2. CASE NotFound(w)
  <2>1. worker' \in [Workers -> Worker] /\ WorkersHold'
    BY <1>2, PcTyped DEF NotFound
  <2> QED
    BY <1>2, <2>1 DEF NotFound, userVars, rowVars, apiVars
<1>3. CASE Begin(w)
  <2>1. /\ worker[w].pc = "start"
        /\ worker[w].job \in Portfolios
        /\ source[worker[w].job] \in Resumes \cup {None}
    BY <1>3 DEF Begin
  <2> DEFINE new == [worker[w] EXCEPT !.pc = "started", !.resume = source[worker[w].job]]
  <2>2. worker' = [worker EXCEPT ![w] = new]
    BY <1>3 DEF Begin
  <2>3. new \in Worker /\ new.job = worker[w].job
    BY <2>1 DEF Worker
  <2> HIDE DEF new
  <2>4. worker' \in [Workers -> Worker] /\ WorkersHold'
    BY <2>1, <2>2, <2>3
  <2>5. status' \in [Portfolios -> PortfolioStatus]
    BY <1>3, <2>1 DEF Begin, PortfolioStatus
  <2>6. UNCHANGED <<userVars, source, slug, apiVars, queue, logVars>>
    BY <1>3 DEF Begin
  <2> QED
    BY <2>4, <2>5, <2>6 DEF userVars, apiVars, logVars
<1>4. CASE ReadResume(w)
  <2>1. PICK pc \in {"render", "failing"} : SetPc(w, pc)
    BY <1>4 DEF ReadResume
  <2>2. worker' \in [Workers -> Worker] /\ WorkersHold'
    BY <1>4, <2>1, PcTyped DEF ReadResume
  <2>3. UNCHANGED <<userVars, rowVars, apiVars, queue, logVars>>
    BY <1>4 DEF ReadResume
  <2> QED
    BY <2>2, <2>3 DEF userVars, rowVars, apiVars, logVars
<1>5. CASE RenderFails(w)
  <2>1. worker' \in [Workers -> Worker] /\ WorkersHold'
    BY <1>5, PcTyped DEF RenderFails
  <2>2. UNCHANGED <<userVars, rowVars, apiVars, queue, logVars>>
    BY <1>5 DEF RenderFails
  <2> QED
    BY <2>1, <2>2 DEF userVars, rowVars, apiVars, logVars
<1>6. CASE Publish(w)
  <2>1. status' \in [Portfolios -> PortfolioStatus]
    BY <1>6 DEF Publish, PortfolioStatus
  <2>2. worker' \in [Workers -> Worker] /\ WorkersHold'
    BY <1>6, PcTyped DEF Publish
  <2>3. UNCHANGED <<userVars, source, slug, apiVars, queue, logVars>>
    BY <1>6 DEF Publish
  <2> QED
    BY <2>1, <2>2, <2>3 DEF userVars, apiVars, logVars
<1>7. CASE Fail(w)
  <2>1. status' \in [Portfolios -> PortfolioStatus]
    BY <1>7 DEF Fail, AfterFailure, PortfolioStatus
  <2>2. worker' \in [Workers -> Worker] /\ WorkersHold'
    BY <1>7, PcTyped DEF Fail, AfterFailure
  <2>3. UNCHANGED <<userVars, source, slug, apiVars, queue, logVars>>
    BY <1>7 DEF Fail, AfterFailure
  <2> QED
    BY <2>1, <2>2, <2>3 DEF userVars, apiVars, logVars
<1>8. CASE RowGone(w)
  <2>1. worker' \in [Workers -> Worker] /\ WorkersHold'
    BY <1>8, PcTyped DEF RowGone
  <2>2. UNCHANGED <<userVars, rowVars, apiVars, queue, logVars>>
    BY <1>8 DEF RowGone
  <2> QED
    BY <2>1, <2>2 DEF userVars, rowVars, apiVars, logVars
<1>9. CASE DbError(w)
  <2>1. worker' \in [Workers -> Worker] /\ WorkersHold'
    BY <1>9, PcTyped DEF DbError
  <2>2. UNCHANGED <<userVars, rowVars, apiVars, queue, logVars>>
    BY <1>9 DEF DbError
  <2> QED
    BY <2>1, <2>2 DEF userVars, rowVars, apiVars, logVars
<1>10. CASE Retry(w)
  <2>1. /\ worker[w].job \in Portfolios
        /\ NextTry(worker[w].tries) \in Tries
    BY <1>10 DEF Retry, NextTry, Tries, Worker
  <2>2. queue' \in [Portfolios -> [Tries -> Nat]]
    BY <1>10, <2>1, SendLemma DEF Retry
  <2>3. worker' \in [Workers -> Worker] /\ WorkersHold'
    BY <1>10, PcTyped DEF Retry
  <2> QED
    BY <1>10, <2>2, <2>3 DEF Retry, userVars, rowVars, apiVars, logVars
<1>11. CASE DeadLetter(w)
  <2>1. worker' \in [Workers -> Worker] /\ WorkersHold'
    BY <1>11, PcTyped DEF DeadLetter
  <2> QED
    BY <1>11, <2>1 DEF DeadLetter, userVars, rowVars, apiVars
<1>12. CASE Ack(w)
  BY <1>12 DEF Ack, Worker, IdleWorker, Tries, userVars, rowVars, apiVars, logVars
<1>13. CASE WorkerLost(w)
  <2>1. worker[w].job \in Portfolios /\ worker[w].tries \in Tries
    BY <1>13 DEF WorkerLost, Worker
  <2>2. queue' \in [Portfolios -> [Tries -> Nat]]
    BY <1>13, <2>1, SendLemma DEF WorkerLost
  <2>3. crashes' \in 0 .. MaxCrashes
    BY <1>13 DEF WorkerLost
  <2> QED
    BY <1>13, <2>2, <2>3 DEF WorkerLost, Worker, IdleWorker, Tries, userVars,
       rowVars, apiVars
<1>14. CASE CommitUnheard(w)
  <2>1. /\ status' \in [Portfolios -> PortfolioStatus]
        /\ unheard' \subseteq Portfolios
    BY <1>14 DEF CommitUnheard, PortfolioStatus
  <2>2. worker' \in [Workers -> Worker] /\ WorkersHold'
    BY <1>14, PcTyped DEF CommitUnheard
  <2> QED
    BY <1>14, <2>1, <2>2 DEF CommitUnheard, userVars, apiVars
<1>15. CASE RetryRefused(w)
  <2>1. worker' \in [Workers -> Worker] /\ WorkersHold'
    BY <1>15, PcTyped DEF RetryRefused
  <2> QED
    BY <1>15, <2>1 DEF RetryRefused, userVars, rowVars, apiVars
<1> QED
  BY <1>1, <1>2, <1>3, <1>4, <1>5, <1>6, <1>7, <1>8, <1>9, <1>10, <1>11, <1>12,
     <1>13, <1>14, <1>15 DEF WorkerStep, WorkerFault

(* The deletes, the parser, the webhook and the pauses keep the types.        *)
LEMMA OthersTyped ==
  ASSUME Typed,
         \/ \E p \in Portfolios : DeletePortfolio(p)
         \/ \E r \in Resumes : DeleteResume(r) \/ ResumeParsed(r)
         \/ ChangePlan
         \/ UNCHANGED vars
  PROVE  Typed'
<1> USE ConstantsAssumption DEF Typed, TypeOK, RequestsHold, WorkersHold
<1>1. ASSUME NEW p \in Portfolios, DeletePortfolio(p)
      PROVE  Typed'
  BY <1>1 DEF DeletePortfolio, PortfolioStatus, userVars, apiVars, taskVars
<1>2. ASSUME NEW r \in Resumes, DeleteResume(r)
      PROVE  Typed'
  BY <1>2 DEF DeleteResume, ResumeStatus, apiVars, taskVars
<1>3. ASSUME NEW r \in Resumes, ResumeParsed(r)
      PROVE  Typed'
  BY <1>3 DEF ResumeParsed, ResumeStatus, rowVars, apiVars, taskVars
<1>4. CASE ChangePlan
  <2>1. plan' \in {"free", "pro"} /\ planChanges' \in 0 .. MaxPlanChanges
    BY <1>4 DEF ChangePlan
  <2> QED
    BY <1>4, <2>1 DEF ChangePlan, rowVars, apiVars, taskVars
<1>5. CASE UNCHANGED vars
  BY <1>5 DEF vars
<1> QED
  BY <1>1, <1>2, <1>3, <1>4, <1>5

(* The first state has its types.                                             *)
LEMMA InitTyped ==
  ASSUME Init
  PROVE  Typed
<1> USE ConstantsAssumption DEF Init, IdleRequest, IdleWorker
<1>1. RequestsHold /\ WorkersHold
  BY DEF RequestsHold, WorkersHold
<1>2. TypeOK
  BY DEF TypeOK, Request, Worker, Tries, PortfolioStatus, ResumeStatus
<1> QED
  BY <1>1, <1>2 DEF Typed

(* Every step keeps the types.                                                *)
LEMMA StepTyped ==
  ASSUME Typed, [Next]_vars
  PROVE  Typed'
<1>1. CASE \E q \in Requests : HandlerStep(q) \/ Admit(q) \/ EnqueueFails(q) \/ Rollback(q)
  BY <1>1, HandlersTyped
<1>2. CASE \E w \in Workers : WorkerStep(w) \/ WorkerFault(w)
  BY <1>2, WorkersTyped
<1>3. CASE \/ \E p \in Portfolios : DeletePortfolio(p)
           \/ \E r \in Resumes : DeleteResume(r) \/ ResumeParsed(r)
           \/ ChangePlan
           \/ Rest
           \/ UNCHANGED vars
  BY <1>3, OthersTyped DEF Rest
<1> QED
  BY <1>1, <1>2, <1>3 DEF Next

(* Every variable keeps its type, in every behaviour and for all constants.   *)
THEOREM TypeCorrect == Spec => []TypeOK
<1>1. Spec => []Typed
  BY InitTyped, StepTyped, PTL DEF Spec
<1>2. Typed => TypeOK
  BY DEF Typed
<1> QED
  BY <1>1, <1>2, PTL

-----------------------------------------------------------------------------
(* No message is lost without a trace.  The invariant speaks of the promise a *)
(* handler makes before its commit, so that the row it stores is accounted    *)
(* for from its first instant; and the promise survives only because nobody   *)
(* else can store, publish or hold that id.                                   *)

Active(q) == req[q].pc # "idle"

Fresh ==
  \A q, o \in Requests : Active(q) /\ Active(o) /\ req[q].id = req[o].id => q = o

Uncommitted == \A q \in Requests : Active(q) => ~RowExists(req[q].id)

RowsUsed == \A p \in Portfolios : RowExists(p) => p \in used

Ids == Fresh /\ Uncommitted /\ RowsUsed

Accounted(p) == Working(p) \/ p \in unqueued \cup dropped \cup dead \cup rejected

Promised == \A q \in Requests : req[q].pc = "enqueued" => Accounted(req[q].id)

StallInv == Typed /\ Ids /\ Promised /\ NoSilentStall

(* No worker stores a row or touches a request, and no other step but a       *)
(* commit creates one.                                                        *)
LEMMA WorkersKeepRows ==
  ASSUME Typed, NEW w \in Workers,
         WorkerStep(w) \/ WorkerFault(w)
  PROVE  /\ UNCHANGED apiVars
         /\ \A p \in Portfolios : ~RowExists(p) => status'[p] = status[p]
<1> USE DEF Typed, TypeOK, RowExists
<1>1. CASE Begin(w) \/ Publish(w) \/ Fail(w) \/ CommitUnheard(w)
  BY <1>1 DEF Begin, Publish, Fail, AfterFailure, CommitUnheard, apiVars
<1>2. CASE ~(Begin(w) \/ Publish(w) \/ Fail(w) \/ CommitUnheard(w))
  BY <1>2 DEF WorkerStep, Take, NotFound, ReadResume, RowGone, Retry, DeadLetter, Ack,
     RenderFails, DbError, CommitUnheard, RetryRefused, WorkerLost,
     WorkerFault, rowVars, apiVars
<1> QED
  BY <1>1, <1>2

(* Deletes, the parser, the webhook and the pauses touch no request and store *)
(* no row: a portfolio keeps its status or loses its row.                     *)
LEMMA OthersKeepRows ==
  ASSUME Typed,
         \/ \E p \in Portfolios : DeletePortfolio(p)
         \/ \E r \in Resumes : DeleteResume(r) \/ ResumeParsed(r)
         \/ ChangePlan
         \/ UNCHANGED vars
  PROVE  /\ UNCHANGED apiVars
         /\ \A p \in Portfolios : status'[p] \in {status[p], "absent"}
  BY DEF Typed, TypeOK, DeletePortfolio, DeleteResume, ResumeParsed, ChangePlan, vars,
     rowVars, apiVars

(* Ids stay apart: a handler draws a fresh one, and no row appears under it   *)
(* before its commit.                                                         *)
LEMMA StepIds ==
  ASSUME Typed, Typed', Ids, [Next]_vars
  PROVE  Ids'
<1> USE DEF Ids, Fresh, Uncommitted, RowsUsed, Active, RowExists
<1>1. ASSUME NEW w \in Workers,
             WorkerStep(w) \/ WorkerFault(w)
      PROVE  Ids'
  BY <1>1, WorkersKeepRows DEF apiVars, Typed, TypeOK, RequestsHold
<1>2. CASE \/ \E p \in Portfolios : DeletePortfolio(p)
           \/ \E r \in Resumes : DeleteResume(r) \/ ResumeParsed(r)
           \/ ChangePlan
           \/ UNCHANGED vars
  BY <1>2, OthersKeepRows DEF apiVars, Typed, TypeOK, RequestsHold
<1>3. ASSUME NEW q \in Requests, Admit(q)
      PROVE  Ids'
  BY <1>3 DEF Admit, Typed, TypeOK, RequestsHold, Request, rowVars
<1>4. ASSUME NEW q \in Requests, Commit(q)
      PROVE  Ids'
  BY <1>4 DEF Commit, Typed, TypeOK, RequestsHold, Request, IdleRequest, InitialStatus
<1>5. ASSUME NEW q \in Requests,
             Insert(q) \/ Refuse(q) \/ Enqueue(q) \/ EnqueueFails(q) \/ Rollback(q)
      PROVE  Ids'
  <2>1. UNCHANGED <<status, used>>
    BY <1>5 DEF Insert, Refuse, Enqueue, EnqueueFails, Rollback, rowVars
  <2>2. \A o \in Requests : Active(o)' => Active(o) /\ req'[o].id = req[o].id
    BY <1>5 DEF Insert, Refuse, Enqueue, EnqueueFails, Rollback, IdleRequest, Typed,
       TypeOK, Request
  <2> QED
    BY <2>1, <2>2
<1> QED
  BY <1>1, <1>2, <1>3, <1>4, <1>5 DEF Next, HandlerStep, Rest

(* A job that is pursued stays so, except that its worker may be done: then   *)
(* the row has just been published, or there is none and the log says so.     *)
Pursued(p) == Working(p) \/ p \in dead \cup rejected

LEMMA PursuitIsNotLost ==
  ASSUME Typed, Typed', [Next]_vars, NEW p \in Portfolios, Pursued(p)
  PROVE  \/ Pursued(p)'
         \/ RowExists(p) /\ status'[p] = "published"
         \/ status'[p] = "absent" /\ p \in dropped'
<1> DEFINE Goal == \/ Pursued(p)'
                   \/ RowExists(p) /\ status'[p] = "published"
                   \/ status'[p] = "absent" /\ p \in dropped'
<1> USE DEF Pursued, Working, Busy
<1>1. CASE UNCHANGED <<queue, worker, dead, rejected>>
  BY <1>1
<1>2. ASSUME NEW q \in Requests, Enqueue(q)
      PROVE  Goal
  <2>1. req[q].id \in Portfolios /\ 0 \in Tries
    BY <1>2, ConstantsAssumption DEF Enqueue, Typed, TypeOK, RequestsHold, Tries
  <2>2. \A k \in Tries : queue'[p][k] >= queue[p][k]
    BY <1>2, <2>1, SendLemma DEF Enqueue, Typed
  <2> QED
    BY <1>2, <2>2 DEF Enqueue, taskVars, Typed, TypeOK
<1>3. ASSUME NEW q \in Requests, EnqueueFails(q)
      PROVE  Goal
  BY <1>3 DEF EnqueueFails, taskVars
<1>4. ASSUME NEW w \in Workers, Take(w)
      PROVE  Goal
  BY <1>4 DEF Take, Typed, TypeOK, Worker, apiVars, logVars
<1>5. ASSUME NEW w \in Workers, NotFound(w)
      PROVE  Goal
  BY <1>5 DEF NotFound, RowExists, SetPc, Typed, TypeOK, Worker, rowVars
<1>6. ASSUME NEW w \in Workers, Begin(w)
      PROVE  Goal
  BY <1>6 DEF Begin, Typed, TypeOK, Worker, apiVars, logVars
<1>7. ASSUME NEW w \in Workers,
             ReadResume(w) \/ RenderFails(w) \/ Fail(w) \/ RowGone(w) \/ DbError(w)
               \/ CommitUnheard(w)
      PROVE  Goal
  <2>1. /\ worker[w].pc \in Busy
        /\ \E pc \in Busy : SetPc(w, pc)
        /\ UNCHANGED <<queue, dead, rejected>>
    BY <1>7 DEF ReadResume, RenderFails, Fail, AfterFailure, RowGone, DbError, CommitUnheard,
       apiVars, logVars
  <2>2. \A v \in Workers : worker[v].pc \in Busy =>
          worker'[v].pc \in Busy /\ worker'[v].job = worker[v].job
    BY <2>1 DEF SetPc, Typed, TypeOK, Worker
  <2> QED
    BY <2>1, <2>2
<1>8. ASSUME NEW w \in Workers, Publish(w)
      PROVE  Goal
  BY <1>8 DEF Publish, SetPc, Typed, TypeOK, Worker, apiVars, logVars
<1>9. ASSUME NEW w \in Workers, Retry(w)
      PROVE  Goal
  <2> DEFINE j == worker[w].job
             k == worker[w].tries + 1
  <2>1. j \in Portfolios /\ k \in Tries
    <3>1. worker[w] \in Worker /\ worker[w].pc = "raised" /\ worker[w].tries < MaxRetries
      BY <1>9 DEF Retry, Typed, TypeOK
    <3>2. worker[w].tries \in 0 .. MaxRetries
      BY <3>1 DEF Worker, Tries
    <3> QED
      BY <3>1, <3>2, ConstantsAssumption DEF Typed, WorkersHold, Tries
  <2>2. Send(j, k)
    BY <1>9 DEF Retry, NextTry
  <2>3. /\ queue'[j][k] = queue[j][k] + 1
        /\ \A i \in Tries : queue'[p][i] >= queue[p][i]
    BY <2>1, <2>2, SendLemma DEF Typed
  <2> QED
    BY <1>9, <2>1, <2>3 DEF Retry, SetPc, Typed, TypeOK, Worker, apiVars, logVars
<1>10. ASSUME NEW w \in Workers, DeadLetter(w)
       PROVE  Goal
  BY <1>10 DEF DeadLetter, SetPc, Typed, TypeOK, Worker, apiVars, logVars
<1>11. ASSUME NEW w \in Workers, Ack(w)
       PROVE  Goal
  BY <1>11 DEF Ack, IdleWorker, Typed, TypeOK, Worker, apiVars, logVars
<1>12. ASSUME NEW w \in Workers, WorkerLost(w)
       PROVE  Goal
  <2> DEFINE j == worker[w].job
             k == worker[w].tries
  <2>1. j \in Portfolios /\ k \in Tries
    BY <1>12 DEF WorkerLost, Typed, TypeOK, WorkersHold, Worker
  <2>2. /\ queue'[j][k] = queue[j][k] + 1
        /\ \A i \in Tries : queue'[p][i] >= queue[p][i]
    BY <1>12, <2>1, SendLemma DEF WorkerLost, Typed
  <2> QED
    BY <1>12, <2>1, <2>2 DEF WorkerLost, IdleWorker, Typed, TypeOK, Worker, apiVars, logVars
<1>13. ASSUME NEW q \in Requests,
              Admit(q) \/ Insert(q) \/ Refuse(q) \/ Commit(q) \/ Rollback(q)
       PROVE  UNCHANGED <<queue, worker, dead, rejected>>
  BY <1>13 DEF Admit, Insert, Refuse, Commit, Rollback, taskVars
<1>14. ASSUME \/ \E o \in Portfolios : DeletePortfolio(o)
              \/ \E r \in Resumes : DeleteResume(r) \/ ResumeParsed(r)
              \/ ChangePlan
              \/ UNCHANGED vars
       PROVE  UNCHANGED <<queue, worker, dead, rejected>>
  BY <1>14 DEF DeletePortfolio, DeleteResume, ResumeParsed, ChangePlan, vars, apiVars,
     taskVars
<1>15. ASSUME NEW w \in Workers, RetryRefused(w)
       PROVE  Goal
  BY <1>15 DEF RetryRefused, SetPc, Typed, TypeOK, Worker, apiVars
<1> QED
  BY <1>1, <1>2, <1>3, <1>4, <1>5, <1>6, <1>7, <1>8, <1>9, <1>10, <1>11, <1>12, <1>13,
     <1>14, <1>15 DEF Next, HandlerStep, WorkerStep, WorkerFault, Rest

(* Log lines are not taken back. *)
LEMMA LogsGrow ==
  ASSUME [Next]_vars
  PROVE  unqueued \subseteq unqueued' /\ dropped \subseteq dropped'
<1>1. ASSUME NEW q \in Requests,
             HandlerStep(q) \/ Admit(q) \/ EnqueueFails(q) \/ Rollback(q)
      PROVE  unqueued \subseteq unqueued' /\ dropped' = dropped
  BY <1>1 DEF HandlerStep, Admit, Insert, Refuse, Enqueue, EnqueueFails, Commit, Rollback,
     taskVars
<1>2. ASSUME NEW w \in Workers, WorkerStep(w) \/ WorkerFault(w)
      PROVE  unqueued' = unqueued /\ dropped \subseteq dropped'
  BY <1>2 DEF WorkerStep, WorkerFault, Take, NotFound, Begin, ReadResume, Publish, Fail, RowGone,
     Retry, DeadLetter, Ack, RenderFails, DbError, CommitUnheard, RetryRefused, WorkerLost,
     apiVars, logVars
<1>3. CASE \/ \E p \in Portfolios : DeletePortfolio(p)
           \/ \E r \in Resumes : DeleteResume(r) \/ ResumeParsed(r)
           \/ ChangePlan
           \/ UNCHANGED vars
  BY <1>3 DEF DeletePortfolio, DeleteResume, ResumeParsed, ChangePlan, vars, apiVars, taskVars
<1> QED
  BY <1>1, <1>2, <1>3 DEF Next, Rest

(* Whoever is accounted for stays so until the row is published.              *)
LEMMA WorkIsNotLost ==
  ASSUME Typed, Typed', [Next]_vars, NEW p \in Portfolios, Accounted(p)
  PROVE  Accounted(p)' \/ (RowExists(p) /\ status'[p] = "published")
BY PursuitIsNotLost, LogsGrow DEF Accounted, Pursued

(* A row comes to "queued" by the commit of its handler and to "generating"   *)
(* by the worker that begins with it.                                         *)
LEMMA StallBegins ==
  ASSUME Typed, [Next]_vars, NEW p \in Portfolios,
         status'[p] \in {"queued", "generating"}, status'[p] # status[p]
  PROVE  \/ \E q \in Requests : Commit(q) /\ req[q].id = p
         \/ \E w \in Workers : (Begin(w) \/ CommitUnheard(w)) /\ worker[w].job = p
<1> USE DEF Typed, TypeOK
<1>1. ASSUME NEW q \in Requests,
             HandlerStep(q) \/ Admit(q) \/ EnqueueFails(q) \/ Rollback(q)
      PROVE  Commit(q) /\ req[q].id = p
  BY <1>1 DEF HandlerStep, Admit, Insert, Refuse, Enqueue, EnqueueFails, Commit,
     Rollback, rowVars
<1>2. ASSUME NEW w \in Workers,
             WorkerStep(w) \/ WorkerFault(w)
      PROVE  (Begin(w) \/ CommitUnheard(w)) /\ worker[w].job = p
  <2>1. CASE Begin(w) \/ CommitUnheard(w)
    BY <2>1 DEF Begin, CommitUnheard
  <2>2. CASE Publish(w) \/ Fail(w)
    BY <2>2 DEF Publish, Fail, AfterFailure
  <2>3. CASE ~(Begin(w) \/ Publish(w) \/ Fail(w) \/ CommitUnheard(w))
    BY <1>2, <2>3 DEF WorkerStep, Take, NotFound, ReadResume, RowGone, Retry,
       DeadLetter, Ack, RenderFails, DbError, CommitUnheard, RetryRefused, WorkerLost,
     WorkerFault, rowVars
  <2> QED
    BY <2>1, <2>2, <2>3
<1>3. CASE \/ \E o \in Portfolios : DeletePortfolio(o)
           \/ \E r \in Resumes : DeleteResume(r) \/ ResumeParsed(r)
           \/ ChangePlan
           \/ UNCHANGED vars
  BY <1>3, OthersKeepRows
<1> QED
  BY <1>1, <1>2, <1>3 DEF Next, Rest

(* A handler that has passed the enqueue is accounted for until it commits:   *)
(* its message travels, a worker has it, or a log line says what happened.    *)
LEMMA StepPromised ==
  ASSUME Typed, Typed', Ids, Promised, [Next]_vars
  PROVE  Promised'
<1> SUFFICES ASSUME NEW q \in Requests, NEW p \in Portfolios,
                    req'[q].pc = "enqueued", req'[q].id = p
             PROVE  Accounted(p)'
  BY DEF Promised, Typed, TypeOK, RequestsHold
<1>1. CASE Enqueue(q)
  <2>1. req[q].id = p /\ 0 \in Tries
    BY <1>1, ConstantsAssumption DEF Enqueue, Typed, TypeOK, Request, Tries
  <2>2. queue'[p][0] = queue[p][0] + 1 /\ queue[p][0] \in Nat
    BY <1>1, <2>1, SendLemma DEF Enqueue, Typed, TypeOK
  <2> QED
    BY <2>1, <2>2 DEF Accounted, Working
<1>2. CASE EnqueueFails(q)
  <2>1. req[q].id = p
    BY <1>2 DEF EnqueueFails, Typed, TypeOK, Request
  <2> QED
    BY <1>2, <2>1 DEF EnqueueFails, Accounted
<1>3. CASE ~Enqueue(q) /\ ~EnqueueFails(q)
  <2>1. req'[q] = req[q]
    <3>1. ASSUME NEW o \in Requests,
                 HandlerStep(o) \/ Admit(o) \/ EnqueueFails(o) \/ Rollback(o)
          PROVE  req'[q] = req[q]
      BY <1>3, <3>1 DEF HandlerStep, Admit, Insert, Refuse, Enqueue, EnqueueFails, Commit,
         Rollback, IdleRequest, Typed, TypeOK, Request
    <3>2. CASE UNCHANGED req
      BY <3>2
    <3> QED
      BY <3>1, <3>2, WorkersKeepRows, OthersKeepRows DEF Next, Rest, apiVars
  <2>2. Accounted(p) /\ ~RowExists(p)
    BY <2>1 DEF Promised, Ids, Uncommitted, Active
  <2> QED
    BY <2>2, WorkIsNotLost
<1> QED
  BY <1>1, <1>2, <1>3

(* No step leaves a portfolio unfinished with nobody to work on it and no     *)
(* log line.                                                                  *)
LEMMA StepNoSilentStall ==
  ASSUME StallInv, Typed', [Next]_vars
  PROVE  NoSilentStall'
<1> SUFFICES ASSUME NEW p \in Portfolios, status'[p] \in {"queued", "generating"}
             PROVE  Accounted(p)'
  BY DEF NoSilentStall, Accounted
<1>1. CASE status'[p] = status[p]
  <2>1. Accounted(p)
    BY <1>1 DEF StallInv, NoSilentStall, Accounted
  <2> QED
    BY <2>1, WorkIsNotLost DEF StallInv
<1>2. ASSUME NEW q \in Requests, Commit(q), req[q].id = p
      PROVE  Accounted(p)'
  <2>1. Accounted(p)
    BY <1>2 DEF Commit, StallInv, Promised
  <2> QED
    BY <2>1, WorkIsNotLost DEF StallInv
<1>3. ASSUME NEW w \in Workers, Begin(w) \/ CommitUnheard(w), worker[w].job = p
      PROVE  Accounted(p)'
  BY <1>3 DEF Begin, CommitUnheard, SetPc, Accounted, Working, Busy, StallInv, Typed, TypeOK,
     Worker
<1> QED
  BY <1>1, <1>2, <1>3, StallBegins DEF StallInv

(* A portfolio that shows "queued" or "generating" has a job on its way, or a *)
(* log line that tells why it has none.                                       *)
THEOREM NoSilentStallAlways == Spec => []NoSilentStall
<1>1. Init => StallInv
  BY InitTyped
  DEF Init, StallInv, Ids, Fresh, Uncommitted, RowsUsed, Active, Promised, NoSilentStall,
      RowExists, IdleRequest
<1>2. StallInv /\ [Next]_vars => StallInv'
  BY StepTyped, StepIds, StepPromised, StepNoSilentStall DEF StallInv
<1>3. StallInv => NoSilentStall
  BY DEF StallInv
<1> QED
  BY <1>1, <1>2, <1>3, PTL DEF Spec

-----------------------------------------------------------------------------
(* A first failure is not the end: whoever fails raises, and whoever raised   *)
(* sends the next try or records why there is none.                           *)
LEMMA FailureBegins ==
  ASSUME Typed, [Next]_vars, NEW p \in Portfolios,
         status'[p] = "failed", status[p] # "failed"
  PROVE  \E w \in Workers : Fail(w) /\ worker[w].job = p
<1> USE DEF Typed, TypeOK
<1>1. ASSUME NEW q \in Requests,
             HandlerStep(q) \/ Admit(q) \/ EnqueueFails(q) \/ Rollback(q)
      PROVE  FALSE
  BY <1>1 DEF HandlerStep, Admit, Insert, Refuse, Enqueue, EnqueueFails, Commit, Rollback,
     InitialStatus, rowVars
<1>2. ASSUME NEW w \in Workers, WorkerStep(w) \/ WorkerFault(w)
      PROVE  Fail(w) /\ worker[w].job = p
  <2>1. CASE Begin(w) \/ Publish(w) \/ CommitUnheard(w)
    BY <2>1 DEF Begin, Publish, CommitUnheard
  <2>2. CASE Fail(w)
    BY <2>2 DEF Fail
  <2>3. CASE ~(Begin(w) \/ Publish(w) \/ Fail(w) \/ CommitUnheard(w))
    BY <1>2, <2>3 DEF WorkerStep, WorkerFault, Take, NotFound, ReadResume, RowGone, Retry,
       DeadLetter, Ack, RenderFails, DbError, RetryRefused, WorkerLost, rowVars
  <2> QED
    BY <2>1, <2>2, <2>3
<1> QED
  BY <1>1, <1>2, OthersKeepRows DEF Next, Rest

(* "failed" is not the end while tries are left: whoever shows as failed is   *)
(* being worked on, has used up its retries, or had one refused.              *)
THEOREM FailedIsTriedAgainAlways == Spec => []FailedIsTriedAgain
<1>1. Init => FailedIsTriedAgain
  BY DEF Init, FailedIsTriedAgain
<1>2. Typed /\ FailedIsTriedAgain /\ [Next]_vars => Typed' /\ FailedIsTriedAgain'
  <2> SUFFICES ASSUME Typed, Typed', FailedIsTriedAgain, [Next]_vars,
                      NEW p \in Portfolios, status'[p] = "failed"
               PROVE  Pursued(p)'
    BY StepTyped DEF FailedIsTriedAgain, Pursued
  <2>1. CASE status[p] = "failed"
    BY <2>1, PursuitIsNotLost DEF FailedIsTriedAgain, Pursued
  <2>2. ASSUME NEW w \in Workers, Fail(w), worker[w].job = p
        PROVE  Pursued(p)'
    BY <2>2 DEF Fail, AfterFailure, SetPc, Pursued, Working, Busy, Typed, TypeOK, Worker
  <2> QED
    BY <2>1, <2>2, FailureBegins
<1> QED
  BY <1>1, <1>2, InitTyped, PTL DEF Spec

-----------------------------------------------------------------------------
(* The race for the free limit.  A request that was admitted will add a row   *)
(* at most; whoever is admitted has counted fewer rows than the limit, and    *)
(* all the others together are the requests that race it.                     *)
Racing == {q \in Requests : Active(q)}

OverrunInv ==
  (plan = "free" /\ planChanges = 0) =>
    Cardinality(Rows) + Cardinality(Racing) <= FreeLimit + Cardinality(Requests) - 1

LEMMA CountsTyped ==
  /\ IsFiniteSet(Rows) /\ Cardinality(Rows) \in Nat
  /\ IsFiniteSet(Racing) /\ Cardinality(Racing) \in Nat
  /\ Cardinality(Racing) <= Cardinality(Requests)
  /\ Cardinality(Requests) \in Nat /\ FreeLimit \in Nat \ {0}
BY LimitAssumption, ConstantsAssumption, FS_Subset, FS_CardinalityType DEF Rows, Racing

(* Without a new row and a new request the count does not rise. *)
LEMMA OverrunFalls ==
  ASSUME Rows' \subseteq Rows, Racing' \subseteq Racing, OverrunInv,
         UNCHANGED <<plan, planChanges>>
  PROVE  OverrunInv'
<1>1. /\ Cardinality(Rows') \in Nat /\ Cardinality(Rows') <= Cardinality(Rows)
      /\ Cardinality(Racing') \in Nat /\ Cardinality(Racing') <= Cardinality(Racing)
  BY CountsTyped, FS_Subset, FS_CardinalityType
<1> QED
  BY <1>1, CountsTyped DEF OverrunInv

LEMMA OverrunStep ==
  ASSUME Typed, Typed', Ids, OverrunInv, [Next]_vars
  PROVE  OverrunInv'
<1> USE DEF Typed, TypeOK
<1>1. ASSUME NEW w \in Workers,
             WorkerStep(w) \/ WorkerFault(w)
      PROVE  OverrunInv'
  <2>1. Rows' \subseteq Rows /\ Racing' = Racing
    BY <1>1, WorkersKeepRows DEF Rows, RowExists, Racing, Active, apiVars
  <2>2. UNCHANGED <<plan, planChanges>>
    BY <1>1 DEF WorkerStep, Take, NotFound, Begin, ReadResume, Publish, Fail, AfterFailure,
       RowGone, Retry,
       DeadLetter, Ack, RenderFails, DbError, CommitUnheard, RetryRefused, WorkerLost,
     WorkerFault, userVars
  <2> QED
    BY <2>1, <2>2, OverrunFalls
<1>2. CASE \/ \E p \in Portfolios : DeletePortfolio(p)
           \/ \E r \in Resumes : DeleteResume(r) \/ ResumeParsed(r)
           \/ UNCHANGED vars
  <2>1. Rows' \subseteq Rows /\ Racing' = Racing
    BY <1>2, OthersKeepRows DEF Rows, RowExists, Racing, Active, apiVars
  <2>2. UNCHANGED <<plan, planChanges>>
    BY <1>2 DEF DeletePortfolio, DeleteResume, ResumeParsed, vars, userVars
  <2> QED
    BY <2>1, <2>2, OverrunFalls
<1>3. CASE ChangePlan
  BY <1>3 DEF ChangePlan, OverrunInv
<1>4. ASSUME NEW q \in Requests,
             Insert(q) \/ Refuse(q) \/ Enqueue(q) \/ EnqueueFails(q) \/ Rollback(q)
      PROVE  OverrunInv'
  <2>1. UNCHANGED <<status, plan, planChanges>>
    BY <1>4 DEF Insert, Refuse, Enqueue, EnqueueFails, Rollback, rowVars, userVars
  <2>2. Racing' \subseteq Racing
    BY <1>4 DEF Insert, Refuse, Enqueue, EnqueueFails, Rollback, IdleRequest, Racing, Active
  <2>3. Rows' = Rows
    BY <2>1 DEF Rows, RowExists
  <2> QED
    BY <2>1, <2>2, <2>3, OverrunFalls
<1>5. ASSUME NEW q \in Requests, Admit(q)
      PROVE  OverrunInv'
  <2>1. Rows' = Rows /\ UNCHANGED <<plan, planChanges>>
    BY <1>5 DEF Admit, Rows, RowExists, rowVars, userVars
  <2>2. plan = "free" => Cardinality(Rows) < FreeLimit
    BY <1>5 DEF Admit, UnderLimit
  <2>3. Cardinality(Racing') \in Nat /\ Cardinality(Racing') <= Cardinality(Requests)
    BY LimitAssumption, FS_Subset, FS_CardinalityType DEF Racing
  <2> QED
    BY <2>1, <2>2, <2>3, CountsTyped DEF OverrunInv
<1>6. ASSUME NEW q \in Requests, Commit(q)
      PROVE  OverrunInv'
  <2>1. UNCHANGED <<plan, planChanges>> /\ req[q].id \in Portfolios
    BY <1>6 DEF Commit, userVars, RequestsHold
  <2>2. Rows' \subseteq Rows \cup {req[q].id}
    BY <1>6 DEF Commit, Rows, RowExists
  <2>3. q \in Racing /\ Racing' \subseteq Racing \ {q}
    BY <1>6 DEF Commit, IdleRequest, Racing, Active
  <2>4. Cardinality(Rows') \in Nat /\ Cardinality(Rows') <= Cardinality(Rows) + 1
    <3>1. /\ IsFiniteSet(Rows \cup {req[q].id})
          /\ Cardinality(Rows \cup {req[q].id}) \in {Cardinality(Rows), Cardinality(Rows) + 1}
      BY CountsTyped, FS_AddElement
    <3> QED
      BY <2>2, <3>1, CountsTyped, FS_Subset, FS_CardinalityType
  <2>5. Cardinality(Racing') \in Nat /\ Cardinality(Racing') + 1 <= Cardinality(Racing)
    <3>1. IsFiniteSet(Racing \ {q}) /\ Cardinality(Racing \ {q}) = Cardinality(Racing) - 1
      BY <2>3, CountsTyped, FS_RemoveElement
    <3> QED
      BY <2>3, <3>1, CountsTyped, FS_Subset, FS_CardinalityType
  <2> QED
    BY <2>1, <2>4, <2>5, CountsTyped DEF OverrunInv
<1> QED
  BY <1>1, <1>2, <1>3, <1>4, <1>5, <1>6 DEF Next, HandlerStep, Rest

(* A user who has never been on Pro exceeds the free limit by no more than    *)
(* the requests that race each other, minus one.                              *)
THEOREM OverrunBoundAlways == Spec => []OverrunBound
<1>1. Init => Typed /\ Ids /\ OverrunInv
  <2> SUFFICES ASSUME Init PROVE Typed /\ Ids /\ OverrunInv
    OBVIOUS
  <2>1. Rows = {} /\ Racing = {}
    BY DEF Init, Rows, RowExists, Racing, Active, IdleRequest
  <2>2. OverrunInv
    BY <2>1, CountsTyped, FS_EmptySet DEF OverrunInv
  <2>3. Ids
    BY DEF Init, Ids, Fresh, Uncommitted, RowsUsed, Active, RowExists, IdleRequest
  <2> QED
    BY <2>2, <2>3, InitTyped
<1>2. Typed /\ Ids /\ OverrunInv /\ [Next]_vars => Typed' /\ Ids' /\ OverrunInv'
  BY StepTyped, StepIds, OverrunStep
<1>3. OverrunInv => OverrunBound
  BY CountsTyped DEF OverrunInv, OverrunBound
<1> QED
  BY <1>1, <1>2, <1>3, PTL DEF Spec

(* With no second request to race, the free limit holds: the overrun that     *)
(* FreeLimitHolds shows is the race between a count and an insert, no other.  *)
COROLLARY FreeLimitWithoutRaces == Spec => [](Cardinality(Requests) = 1 => FreeLimitHolds)
<1>1. OverrunBound => (Cardinality(Requests) = 1 => FreeLimitHolds)
  <2> SUFFICES ASSUME OverrunBound, Cardinality(Requests) = 1, plan = "free", planChanges = 0
               PROVE  Cardinality(Rows) <= FreeLimit
    BY DEF FreeLimitHolds
  <2>1. Cardinality(Rows) <= FreeLimit + 1 - 1
    BY DEF OverrunBound
  <2>2. FreeLimit + 1 - 1 = FreeLimit
    BY ConstantsAssumption
  <2> QED
    BY <2>1, <2>2
<1> QED
  BY <1>1, OverrunBoundAlways, PTL

-----------------------------------------------------------------------------
(* While no worker has been lost, a job is in one place only: one message in  *)
(* the broker or one worker that is busy with it, and none before its enqueue *)
(* or after a publication that was heard.                                     *)
OnePlace(p) ==
  /\ \A k \in Tries : queue[p][k] <= 1
  /\ \A j, k \in Tries : queue[p][j] > 0 /\ queue[p][k] > 0 => j = k
  /\ \A v, w \in Workers :
       worker[v].pc \in Busy /\ worker[w].pc \in Busy /\ worker[v].job = p /\ worker[w].job = p
         => v = w
  /\ \A k \in Tries, w \in Workers :
       ~(queue[p][k] > 0 /\ worker[w].pc \in Busy /\ worker[w].job = p)

Unsent ==
  /\ \A p \in Portfolios \ used : ~Working(p)
  /\ \A q \in Requests : req[q].pc \in {"admitted", "inserted"} => ~Working(req[q].id)

SoloInv ==
  crashes = 0 =>
    /\ \A p \in Portfolios : OnePlace(p)
    /\ \A p \in Portfolios \ unheard : status[p] = "published" => ~Working(p)
    /\ Unsent

\* What the broker and the workers hold of p may come to nothing; it never grows.
LEMMA SoloShrinks ==
  ASSUME Typed, Typed', NEW p \in Portfolios, OnePlace(p),
         \A k \in Tries : queue'[p][k] <= queue[p][k],
         \A w \in Workers :
           worker'[w].pc \in Busy /\ worker'[w].job = p => worker[w].pc \in Busy /\ worker[w].job = p
  PROVE  OnePlace(p)' /\ (~Working(p) => ~Working(p)')
<1>1. \A k \in Tries : queue[p][k] \in Nat /\ queue'[p][k] \in Nat
  BY DEF Typed, TypeOK
<1>2. OnePlace(p)'
  BY <1>1 DEF OnePlace
<1>3. ~Working(p) => ~Working(p)'
  BY <1>1 DEF Working
<1> QED
  BY <1>2, <1>3

\* A busy worker hands its message back, and is busy no more.
LEMMA SoloReturns ==
  ASSUME Typed, NEW p \in Portfolios, OnePlace(p),
         NEW w \in Workers, worker[w].pc \in Busy, worker[w].job = p,
         NEW k \in Tries, Send(p, k), SetPc(w, "ack")
  PROVE  OnePlace(p)'
<1>1. queue \in [Portfolios -> [Tries -> Nat]] /\ worker \in [Workers -> Worker]
  BY DEF Typed, TypeOK
<1>2. \A j \in Tries : queue[p][j] = 0
  BY <1>1 DEF OnePlace
<1>3. \A v \in Workers : ~(worker'[v].pc \in Busy /\ worker'[v].job = p)
  BY <1>1 DEF OnePlace, SetPc, Worker, Busy
<1>4. \A j \in Tries : queue'[p][j] = IF j = k THEN 1 ELSE 0
  BY <1>1, <1>2 DEF Send
<1> QED
  BY <1>3, <1>4 DEF OnePlace

\* A message is taken: what was in the broker is with the worker.
LEMMA SoloTaken ==
  ASSUME Typed, Typed', NEW p \in Portfolios, OnePlace(p), NEW w \in Workers, Take(w)
  PROVE  OnePlace(p)' /\ (~Working(p) => ~Working(p)')
<1>1. PICK o \in Portfolios, k \in Tries :
        /\ queue[o][k] > 0
        /\ queue' = [queue EXCEPT ![o][k] = @ - 1]
        /\ worker' = [worker EXCEPT ![w] = [pc |-> "start", job |-> o, tries |-> k,
                                            resume |-> None]]
  BY DEF Take
<1>2. queue \in [Portfolios -> [Tries -> Nat]] /\ worker \in [Workers -> Worker]
  BY DEF Typed, TypeOK
<1>3. CASE o # p
  <2>1. queue'[p] = queue[p]
    BY <1>1, <1>2, <1>3
  <2>2. \A v \in Workers : worker'[v].job = p =>
          worker'[v].pc = worker[v].pc /\ worker'[v].job = worker[v].job
    BY <1>1, <1>2, <1>3
  <2> QED
    BY <1>2, <2>1, <2>2, SoloShrinks
<1>4. CASE o = p
  <2>1. \A v \in Workers : ~(worker[v].pc \in Busy /\ worker[v].job = p)
    BY <1>1, <1>4 DEF OnePlace
  <2>2. \A v \in Workers : worker'[v].pc \in Busy /\ worker'[v].job = p => v = w
    BY <1>1, <1>2, <2>1
  <2>3. \A j \in Tries : j # k => queue'[p][j] = queue[p][j]
    BY <1>1, <1>2, <1>4
  <2>4. queue'[p][k] = queue[p][k] - 1 /\ queue[p][k] \in Nat
    BY <1>1, <1>2, <1>4
  <2>5. \A j \in Tries : queue'[p][j] = 0
    BY <1>1, <1>2, <1>4, <2>3, <2>4 DEF OnePlace
  <2>6. OnePlace(p)'
    BY <2>2, <2>5 DEF OnePlace
  <2>7. Working(p)
    BY <1>1, <1>4 DEF Working
  <2> QED
    BY <2>6, <2>7
<1> QED
  BY <1>3, <1>4

\* The first message for p.
LEMMA SoloSent ==
  ASSUME Typed, NEW p \in Portfolios, ~Working(p), Send(p, 0), UNCHANGED worker
  PROVE  OnePlace(p)'
<1>1. queue \in [Portfolios -> [Tries -> Nat]] /\ 0 \in Tries
  BY ConstantsAssumption DEF Typed, TypeOK, Tries
<1>2. \A j \in Tries : queue[p][j] = 0
  BY <1>1 DEF Working
<1>3. \A j \in Tries : queue'[p][j] = IF j = 0 THEN 1 ELSE 0
  BY <1>1, <1>2 DEF Send
<1>4. \A v \in Workers : ~(worker'[v].pc \in Busy /\ worker'[v].job = p)
  BY DEF Working
<1> QED
  BY <1>3, <1>4 DEF OnePlace
-----------------------------------------------------------------------------
\* The steps of a worker that is not lost: OnePlace stays, and nobody starts to
\* work on a portfolio nobody worked on.
LEMMA SoloWorkers ==
  ASSUME Typed, Typed', NEW p \in Portfolios, OnePlace(p),
         NEW w \in Workers, Steady(w)
  PROVE  OnePlace(p)' /\ (~Working(p) => ~Working(p)')
<1>1. /\ queue \in [Portfolios -> [Tries -> Nat]] /\ worker \in [Workers -> Worker]
      /\ \A k \in Tries : queue[p][k] \in Nat
  BY DEF Typed, TypeOK
<1>2. CASE Take(w)
  BY <1>2, SoloTaken
<1>3. CASE Retry(w)
  <2> DEFINE o == worker[w].job
  <2>1. /\ o \in Portfolios /\ worker[w].pc = "raised" /\ worker[w].tries + 1 \in Tries
        /\ Send(o, worker[w].tries + 1) /\ SetPc(w, "ack")
    BY <1>1, <1>3, ConstantsAssumption DEF Retry, NextTry, Worker, Tries, Typed, WorkersHold
  <2>2. CASE o = p
    <3>1. OnePlace(p)'
      BY <2>1, <2>2, SoloReturns DEF Busy
    <3>2. Working(p)
      BY <2>1, <2>2 DEF Working, Busy
    <3> QED
      BY <3>1, <3>2
  <2>3. CASE o # p
    <3>1. queue'[p] = queue[p]
      BY <1>1, <2>1, <2>3 DEF Send
    <3>2. \A v \in Workers :
            worker'[v].job = worker[v].job /\ (worker'[v].pc \in Busy => worker[v].pc \in Busy)
      BY <1>1, <2>1 DEF SetPc, Busy, Worker
    <3> QED
      BY <1>1, <3>1, <3>2, SoloShrinks
  <2> QED
    BY <2>2, <2>3
<1>4. CASE ~Take(w) /\ ~Retry(w)
  <2>1. queue' = queue
    BY <1>4 DEF WorkerStep, NotFound, Begin, ReadResume, Publish, Fail, AfterFailure, RowGone,
       DeadLetter,
       Ack, RenderFails, DbError, CommitUnheard, RetryRefused, Steady
  <2>2. \A v \in Workers :
          worker'[v].pc \in Busy => worker[v].pc \in Busy /\ worker'[v].job = worker[v].job
    <3>1. CASE Ack(w)
      BY <1>1, <3>1 DEF Ack, IdleWorker, Busy, Worker
    <3>2. CASE Begin(w)
      BY <1>1, <3>2 DEF Begin, Busy, Worker
    <3>3. CASE ~Ack(w) /\ ~Begin(w)
      <4>1. PICK pc \in Busy \cup {"ack"} : SetPc(w, pc)
        BY <1>4, <3>3 DEF WorkerStep, NotFound, ReadResume, Publish, Fail, AfterFailure, RowGone,
           DeadLetter,
           RenderFails, DbError, CommitUnheard, RetryRefused, Steady, Busy
      <4>2. worker[w].pc \in Busy
        BY <1>4, <3>3 DEF WorkerStep, NotFound, ReadResume, Publish, Fail, AfterFailure, RowGone,
           DeadLetter,
           RenderFails, DbError, CommitUnheard, RetryRefused, Steady, Busy
      <4> QED
        BY <1>1, <4>1, <4>2 DEF SetPc, Worker
    <3> QED
      BY <3>1, <3>2, <3>3
  <2> QED
    BY <1>1, <2>1, <2>2, SoloShrinks
<1> QED
  BY <1>2, <1>3, <1>4
-----------------------------------------------------------------------------
\* An unheard commit is not forgotten.
LEMMA UnheardGrows ==
  ASSUME \/ \E q \in Requests : HandlerStep(q) \/ Admit(q) \/ EnqueueFails(q) \/ Rollback(q)
         \/ \E w \in Workers : Steady(w)
         \/ \E p \in Portfolios : DeletePortfolio(p)
         \/ \E r \in Resumes : DeleteResume(r) \/ ResumeParsed(r)
         \/ ChangePlan
         \/ UNCHANGED vars
         \/ [Next]_vars
  PROVE  unheard \subseteq unheard'
<1>1. ASSUME NEW q \in Requests,
             HandlerStep(q) \/ Admit(q) \/ EnqueueFails(q) \/ Rollback(q)
      PROVE  unheard' = unheard
  BY <1>1 DEF HandlerStep, Admit, Insert, Refuse, Enqueue, EnqueueFails, Commit, Rollback,
     taskVars
<1>2. ASSUME NEW w \in Workers, WorkerStep(w) \/ WorkerFault(w) \/ Steady(w)
      PROVE  unheard \subseteq unheard'
  BY <1>2 DEF WorkerStep, WorkerFault, Steady, Take, NotFound, Begin, ReadResume, Publish, Fail,
     RowGone, Retry, DeadLetter, Ack, RenderFails, DbError, CommitUnheard, RetryRefused,
     WorkerLost, logVars
<1>3. CASE \/ \E p \in Portfolios : DeletePortfolio(p)
           \/ \E r \in Resumes : DeleteResume(r) \/ ResumeParsed(r)
           \/ ChangePlan
           \/ UNCHANGED vars
  BY <1>3 DEF DeletePortfolio, DeleteResume, ResumeParsed, ChangePlan, vars, taskVars
<1> QED
  BY <1>1, <1>2, <1>3 DEF Next, Rest

\* Who publishes: a worker that is busy with the portfolio, and is not any more.
LEMMA PublishedBy ==
  ASSUME Typed, NEW w \in Workers, Steady(w),
         NEW p \in Portfolios, status'[p] = "published", status[p] # "published", OnePlace(p),
         p \notin unheard'
  PROVE  ~Working(p)'
<1>1. /\ worker \in [Workers -> Worker] /\ status \in [Portfolios -> PortfolioStatus]
      /\ queue \in [Portfolios -> [Tries -> Nat]]
  BY DEF Typed, TypeOK
<1>2. Publish(w) /\ worker[w].job = p
  <2>1. CASE Begin(w) \/ Publish(w) \/ Fail(w) \/ CommitUnheard(w)
    BY <1>1, <2>1 DEF Begin, Publish, Fail, AfterFailure, CommitUnheard
  <2>2. CASE ~(Begin(w) \/ Publish(w) \/ Fail(w) \/ CommitUnheard(w))
    BY <1>1, <2>2 DEF WorkerStep, Take, NotFound, ReadResume, RowGone, Retry, DeadLetter, Ack,
       RenderFails, DbError, CommitUnheard, RetryRefused, Steady, rowVars
  <2> QED
    BY <2>1, <2>2
<1>3. worker[w].pc = "render" /\ SetPc(w, "ack") /\ queue' = queue
  BY <1>2 DEF Publish
<1>4. \A k \in Tries : ~(queue'[p][k] > 0)
  BY <1>2, <1>3 DEF OnePlace, Busy
<1>5. \A v \in Workers : ~(worker'[v].job = p /\ worker'[v].pc \in Busy)
  BY <1>1, <1>2, <1>3 DEF OnePlace, SetPc, Busy, Worker
<1> QED
  BY <1>4, <1>5 DEF Working

\* The steps that neither send nor take: they touch no message and no worker.
LEMMA SoloUntouched ==
  ASSUME NEW p \in Portfolios, UNCHANGED <<queue, worker>>
  PROVE  (OnePlace(p)' <=> OnePlace(p)) /\ (Working(p)' <=> Working(p))
BY DEF OnePlace, Working

LEMMA SoloWorkerStep ==
  ASSUME Typed, Typed', SoloInv, crashes = 0,
         NEW w \in Workers, Steady(w)
  PROVE  SoloInv'
<1>1. ASSUME NEW p \in Portfolios
      PROVE  OnePlace(p)' /\ (~Working(p) => ~Working(p)')
  BY SoloWorkers DEF SoloInv
<1>2. ASSUME NEW p \in Portfolios \ unheard', status'[p] = "published"
      PROVE  ~Working(p)'
  <2>0. p \notin unheard
    BY <1>2, UnheardGrows
  <2>1. CASE status[p] = "published"
    BY <1>1, <2>0, <2>1 DEF SoloInv
  <2>2. CASE status[p] # "published"
    BY <1>2, <2>2, PublishedBy DEF SoloInv
  <2> QED
    BY <2>1, <2>2
<1>3. UNCHANGED apiVars
  BY WorkersKeepRows DEF Steady, WorkerFault
<1>4. Unsent'
  <2>1. \A q \in Requests : req[q].pc \in {"admitted", "inserted"} => req[q].id \in Portfolios
    BY DEF Typed, TypeOK, RequestsHold
  <2> QED
    BY <1>1, <1>3, <2>1 DEF SoloInv, Unsent, apiVars
<1> QED
  BY <1>1, <1>2, <1>4 DEF SoloInv

LEMMA SoloHandlerStep ==
  ASSUME Typed, Typed', Ids, SoloInv, crashes = 0, NEW q \in Requests,
         HandlerStep(q) \/ Admit(q) \/ EnqueueFails(q) \/ Rollback(q)
  PROVE  SoloInv'
<1>1. /\ req \in [Requests -> Request] /\ used \subseteq Portfolios
      /\ status \in [Portfolios -> PortfolioStatus]
      /\ \A o \in Requests : Active(o) => req[o].id \in used
  BY DEF Typed, TypeOK, RequestsHold, Active
<1>2. CASE Enqueue(q)
  <2>0. PICK p \in Portfolios : p = req[q].id
    BY <1>1, <1>2 DEF Enqueue, Active
  <2>1. /\ ~Working(p) /\ ~RowExists(p) /\ Active(q) /\ p \in used
        /\ Send(p, 0) /\ UNCHANGED <<worker, status, used>>
        /\ req' = [req EXCEPT ![q].pc = "enqueued"]
    BY <1>1, <1>2, <2>0 DEF Enqueue, SoloInv, Unsent, Ids, Uncommitted, Active, rowVars, taskVars
  <2>2. OnePlace(p)'
    BY <2>1, SoloSent
  <2>3. ASSUME NEW o \in Portfolios, o # p
        PROVE  (OnePlace(o)' <=> OnePlace(o)) /\ (Working(o)' <=> Working(o))
    <3>1. queue'[o] = queue[o]
      BY <2>1, <2>3 DEF Send, Typed, TypeOK
    <3> QED
      BY <2>1, <3>1 DEF OnePlace, Working
  <2>4. status'[p] # "published"
    BY <2>1 DEF RowExists
  <2>5. Unsent'
    <3>1. \A o \in Requests : req'[o].pc \in {"admitted", "inserted"} =>
            o # q /\ req'[o] = req[o] /\ req[o].id # p /\ Active(o)
      BY <1>1, <2>0, <2>1 DEF Ids, Fresh, Active
    <3> QED
      BY <1>1, <2>1, <2>3, <3>1 DEF SoloInv, Unsent
  <2> QED
    BY <2>1, <2>2, <2>3, <2>4, <2>5, UnheardGrows DEF SoloInv
<1>3. CASE ~Enqueue(q)
  <2>1. UNCHANGED <<queue, worker>>
    BY <1>3 DEF HandlerStep, Admit, Insert, Refuse, EnqueueFails, Commit, Rollback, taskVars
  <2>2. \A p \in Portfolios : status'[p] = "published" => status[p] = "published"
    BY <1>1, <1>3 DEF HandlerStep, Admit, Insert, Refuse, EnqueueFails, Commit, Rollback, rowVars,
       InitialStatus
  <2>3. used \subseteq used' /\ used' \subseteq Portfolios
    BY <1>1, <1>3 DEF HandlerStep, Admit, Insert, Refuse, EnqueueFails, Commit, Rollback
  <2>4. ASSUME NEW o \in Requests, req'[o].pc \in {"admitted", "inserted"}
        PROVE  req'[o].id \in Portfolios /\ ~Working(req'[o].id)
    <3>1. CASE Admit(q) /\ o = q
      BY <1>1, <2>4, <3>1 DEF Admit, SoloInv, Unsent
    <3>2. CASE ~(Admit(q) /\ o = q)
      <4>1. req[o].pc \in {"admitted", "inserted"} /\ req'[o].id = req[o].id
        <5>1. CASE o # q
          BY <1>1, <1>3, <2>4, <5>1 DEF HandlerStep, Admit, Insert, Refuse, EnqueueFails,
             Commit, Rollback
        <5>2. CASE o = q
          <6>1. Insert(q)
            <7>1. ~(Refuse(q) \/ Commit(q) \/ Rollback(q))
              BY <1>1, <2>4, <5>2 DEF Refuse, Commit, Rollback, IdleRequest
            <7>2. ~EnqueueFails(q)
              BY <1>1, <2>4, <5>2 DEF EnqueueFails, Request
            <7> QED
              BY <1>3, <3>2, <5>2, <7>1, <7>2 DEF HandlerStep
          <6> QED
            BY <1>1, <5>2, <6>1 DEF Insert, Request
        <5> QED
          BY <5>1, <5>2
      <4> QED
        BY <1>1, <4>1 DEF SoloInv, Unsent, Active
    <3> QED
      BY <3>1, <3>2
  <2>5. \A p \in Portfolios : (OnePlace(p)' <=> OnePlace(p)) /\ (Working(p)' <=> Working(p))
    BY <2>1, SoloUntouched
  <2>6. Unsent'
    BY <2>3, <2>4, <2>1 DEF SoloInv, Unsent, Working
  <2> QED
    BY <2>2, <2>5, <2>6, UnheardGrows DEF SoloInv
<1> QED
  BY <1>2, <1>3

LEMMA SoloOthers ==
  ASSUME Typed, Typed', SoloInv, crashes = 0,
         \/ \E p \in Portfolios : DeletePortfolio(p)
         \/ \E r \in Resumes : DeleteResume(r) \/ ResumeParsed(r)
         \/ ChangePlan
         \/ UNCHANGED vars
  PROVE  SoloInv'
<1>1. UNCHANGED <<queue, worker>>
  BY DEF DeletePortfolio, DeleteResume, ResumeParsed, ChangePlan, vars, taskVars
<1>2. UNCHANGED apiVars /\ \A p \in Portfolios : status'[p] \in {status[p], "absent"}
  BY OthersKeepRows
<1>3. \A p \in Portfolios : (OnePlace(p)' <=> OnePlace(p)) /\ (Working(p)' <=> Working(p))
  BY <1>1, SoloUntouched
<1>4. Unsent'
  BY <1>1, <1>2 DEF SoloInv, Unsent, Working, apiVars
<1> QED
  BY <1>2, <1>3, <1>4, UnheardGrows DEF SoloInv

LEMMA SoloStep ==
  ASSUME Typed, Typed', Ids, SoloInv, [Next]_vars
  PROVE  SoloInv'
<1>1. ASSUME NEW w \in Workers, WorkerLost(w)
      PROVE  crashes' # 0
  BY <1>1 DEF WorkerLost, Typed, TypeOK
<1>2. CASE crashes' = crashes
  <2>1. CASE crashes = 0
    <3>1. \A w \in Workers : ~WorkerLost(w)
      BY <1>1, <1>2, <2>1
    <3> QED
      BY <2>1, <3>1, SoloWorkerStep, SoloHandlerStep, SoloOthers
         DEF Next, Rest, WorkerFault, Steady
  <2>2. CASE crashes # 0
    BY <1>2, <2>2 DEF SoloInv
  <2> QED
    BY <2>1, <2>2
<1>3. CASE crashes' # crashes
  <2>1. \E w \in Workers : WorkerLost(w)
    <3>1. ASSUME NEW q \in Requests,
                 HandlerStep(q) \/ Admit(q) \/ EnqueueFails(q) \/ Rollback(q)
          PROVE  UNCHANGED crashes
      BY <3>1 DEF HandlerStep, Admit, Insert, Refuse, Enqueue, EnqueueFails, Commit, Rollback,
         taskVars
    <3>2. ASSUME NEW w \in Workers, Steady(w)
          PROVE  UNCHANGED crashes
      BY <3>2 DEF WorkerStep, Take, NotFound, Begin, ReadResume, Publish, Fail, AfterFailure,
         RowGone, Retry,
         DeadLetter, Ack, RenderFails, DbError, CommitUnheard, RetryRefused, Steady, logVars
    <3>3. ASSUME \/ \E p \in Portfolios : DeletePortfolio(p)
                 \/ \E r \in Resumes : DeleteResume(r) \/ ResumeParsed(r)
                 \/ ChangePlan
                 \/ UNCHANGED vars
          PROVE  UNCHANGED crashes
      BY <3>3 DEF DeletePortfolio, DeleteResume, ResumeParsed, ChangePlan, vars, taskVars
    <3> QED
      BY <1>3, <3>1, <3>2, <3>3 DEF Next, Rest, WorkerFault, Steady
  <2> QED
    BY <1>1, <2>1 DEF SoloInv
<1> QED
  BY <1>2, <1>3

\* Nobody works on a published portfolio, so no step sends it back.
LEMMA StepPublishedIsStable ==
  ASSUME Typed, Typed', Ids, SoloInv, [Next]_vars, NEW p \in Portfolios,
         status[p] = "published", crashes' = 0, p \notin unheard'
  PROVE  status'[p] \in {"published", "absent"}
<1>1. /\ status \in [Portfolios -> PortfolioStatus] /\ req \in [Requests -> Request]
      /\ crashes \in Nat
  BY ConstantsAssumption DEF Typed, TypeOK
<1>2. CASE UNCHANGED status
  BY <1>2
<1>3. ASSUME NEW w \in Workers, Steady(w)
      PROVE  status'[p] = "published"
  <2>0. p \notin unheard
    BY UnheardGrows
  <2>1. CASE Begin(w) \/ Publish(w) \/ Fail(w) \/ CommitUnheard(w)
    <3>1. worker[w].pc \in Busy /\ UNCHANGED crashes
      BY <2>1 DEF Begin, Publish, Fail, CommitUnheard, Busy, logVars
    <3>2. worker[w].job # p
      BY <2>0, <3>1 DEF SoloInv, Working
    <3> QED
      BY <1>1, <2>1, <3>2 DEF Begin, Publish, Fail, AfterFailure, CommitUnheard
  <2>2. CASE ~(Begin(w) \/ Publish(w) \/ Fail(w) \/ CommitUnheard(w))
    BY <1>3, <2>2 DEF WorkerStep, Take, NotFound, ReadResume, RowGone, Retry, DeadLetter, Ack,
       RenderFails, DbError, CommitUnheard, RetryRefused, Steady, rowVars
  <2> QED
    BY <2>1, <2>2
<1>4. ASSUME NEW w \in Workers, WorkerLost(w)
      PROVE  UNCHANGED status
  BY <1>4 DEF WorkerLost, rowVars
<1>5. ASSUME NEW q \in Requests, Commit(q)
      PROVE  status'[p] = "published"
  <2>1. req[q].id # p
    BY <1>5 DEF Commit, Ids, Uncommitted, Active, RowExists
  <2> QED
    BY <1>1, <1>5, <2>1 DEF Commit
<1>6. ASSUME NEW q \in Requests,
             Admit(q) \/ Insert(q) \/ Refuse(q) \/ Enqueue(q) \/ EnqueueFails(q) \/ Rollback(q)
      PROVE  UNCHANGED status
  BY <1>6 DEF Admit, Insert, Refuse, Enqueue, EnqueueFails, Rollback, rowVars
<1>7. CASE \/ \E o \in Portfolios : DeletePortfolio(o)
           \/ \E r \in Resumes : DeleteResume(r) \/ ResumeParsed(r)
           \/ ChangePlan
           \/ UNCHANGED vars
  BY <1>7, OthersKeepRows
<1> QED
  BY <1>2, <1>3, <1>4, <1>5, <1>6, <1>7 DEF Next, HandlerStep, Rest,
     WorkerFault, Steady

(* While no worker has been lost, and no commit for it has gone unheard, a    *)
(* published portfolio stays published until its owner deletes it.            *)
THEOREM PublishedIsStableAlways == Spec => PublishedIsStable
<1> DEFINE Inv == Typed /\ Ids /\ SoloInv
           Stays == \A p \in Portfolios :
                      (status[p] = "published" /\ crashes' = 0 /\ p \notin unheard')
                        => status'[p] \in {"published", "absent"}
<1>1. Init => Inv
  <2> SUFFICES ASSUME Init PROVE Inv
    OBVIOUS
  <2>1. Ids
    BY DEF Init, Ids, Fresh, Uncommitted, RowsUsed, Active, RowExists, IdleRequest
  <2>2. SoloInv
    BY DEF Init, SoloInv, OnePlace, Unsent, Working, Busy, IdleRequest, IdleWorker
  <2> QED
    BY <2>1, <2>2, InitTyped
<1>2. Inv /\ [Next]_vars => Inv'
  BY StepTyped, StepIds, SoloStep
<1>3. Inv /\ Inv' /\ [Next]_vars => [Stays]_vars
  <2> SUFFICES ASSUME Inv, Inv', [Next]_vars PROVE Stays
    OBVIOUS
  <2> QED
    BY StepPublishedIsStable
<1> HIDE DEF Inv
<1>4. Spec => [][Stays]_vars
  BY <1>1, <1>2, <1>3, PTL DEF Spec
<1> QED
  BY <1>4 DEF PublishedIsStable

-----------------------------------------------------------------------------
(* Generation implements PortfolioLifecycle: an id that was drawn is given up *)
(* by the request that refuses or rolls back, or by the delete of its row.    *)
GivenUp == {p \in used : status[p] = "absent" /\ p \notin Held}

LifecycleStep == Lifecycle!Next \/ UNCHANGED <<status, GivenUp>>

\* Steps that draw and release no id leave the given-up ids alone, when the rows do.
LEMMA SameGivenUp ==
  ASSUME Typed, UNCHANGED <<used, req>>,
         \A p \in Portfolios : status'[p] = "absent" <=> status[p] = "absent"
  PROVE  GivenUp' = GivenUp
BY DEF Typed, TypeOK, GivenUp, Held

(* A request that is over holds no id; what a worker has begun with was       *)
(* stored once, so nobody draws or stores it again, and it is not "queued".   *)
IdleHoldsNone == \A q \in Requests : ~Active(q) => req[q].id = None

Begun ==
  \A w \in Workers : worker[w].pc \in {"started", "render", "failing"} =>
    /\ worker[w].job \in used /\ status[worker[w].job] # "queued"
    /\ \A q \in Requests : Active(q) => req[q].id # worker[w].job

LifecycleInv == Typed /\ Ids /\ IdleHoldsNone /\ Begun

LEMMA StepIdleHoldsNone ==
  ASSUME Typed, Typed', IdleHoldsNone, [Next]_vars
  PROVE  IdleHoldsNone'
<1>1. CASE UNCHANGED req
  BY <1>1 DEF IdleHoldsNone, Active
<1>2. ASSUME NEW q \in Requests,
             HandlerStep(q) \/ Admit(q) \/ EnqueueFails(q) \/ Rollback(q)
      PROVE  IdleHoldsNone'
  <2>1. req \in [Requests -> Request]
    BY DEF Typed, TypeOK
  <2>2. CASE Refuse(q) \/ Commit(q) \/ Rollback(q)
    BY <2>1, <2>2 DEF Refuse, Commit, Rollback, IdleRequest, IdleHoldsNone, Active
  <2>3. CASE Admit(q) \/ Insert(q) \/ Enqueue(q) \/ EnqueueFails(q)
    BY <2>1, <2>3 DEF Admit, Insert, Enqueue, EnqueueFails, Request, IdleHoldsNone, Active
  <2> QED
    BY <1>2, <2>2, <2>3 DEF HandlerStep
<1> QED
  BY <1>1, <1>2, WorkersKeepRows, OthersKeepRows DEF Next, Rest, apiVars

LEMMA StepBegun ==
  ASSUME Typed, Typed', Ids, Ids', Begun, [Next]_vars
  PROVE  Begun'
<1>1. /\ worker \in [Workers -> Worker] /\ status \in [Portfolios -> PortfolioStatus]
      /\ req \in [Requests -> Request]
      /\ \A w \in Workers : worker[w].pc # "idle" => worker[w].job \in Portfolios
  BY DEF Typed, TypeOK, WorkersHold
<1>2. ASSUME NEW w \in Workers,
             WorkerStep(w) \/ WorkerFault(w)
      PROVE  Begun'
  <2>1. UNCHANGED <<req, used>>
    BY <1>2, WorkersKeepRows DEF apiVars
  <2>2. \A p \in Portfolios : status[p] # "queued" => status'[p] # "queued"
    <3>1. CASE Begin(w) \/ Publish(w) \/ Fail(w) \/ CommitUnheard(w)
      BY <1>1, <3>1 DEF Begin, Publish, Fail, AfterFailure, CommitUnheard
    <3>2. CASE ~(Begin(w) \/ Publish(w) \/ Fail(w) \/ CommitUnheard(w))
      BY <1>2, <3>2 DEF WorkerStep, Take, NotFound, ReadResume, RowGone, Retry, DeadLetter, Ack,
         RenderFails, DbError, CommitUnheard, RetryRefused, WorkerLost,
     WorkerFault, rowVars
    <3> QED
      BY <3>1, <3>2
  <2>3. CASE Begin(w)
    <3>1. /\ RowExists(worker[w].job) /\ worker[w].job \in Portfolios
          /\ status'[worker[w].job] = "generating"
          /\ \A v \in Workers : worker'[v].job = worker[v].job
          /\ \A v \in Workers : v # w => worker'[v] = worker[v]
      BY <1>1, <2>3 DEF Begin, Worker
    <3>2. worker[w].job \in used /\ \A q \in Requests : Active(q) => req[q].id # worker[w].job
      BY <3>1 DEF Ids, RowsUsed, Uncommitted
    <3> QED
      BY <1>1, <2>1, <2>2, <3>1, <3>2 DEF Begun, Active
  <2>4. CASE ~Begin(w)
    <3>1. \A v \in Workers : worker'[v].pc \in {"started", "render", "failing"} =>
            worker[v].pc \in {"started", "render", "failing"} /\ worker'[v].job = worker[v].job
      <4>1. CASE Take(w) \/ Ack(w) \/ WorkerLost(w)
        BY <1>1, <4>1 DEF Take, Ack, WorkerLost, IdleWorker
      <4>2. CASE ReadResume(w) \/ RenderFails(w)
        BY <1>1, <4>2 DEF ReadResume, RenderFails, SetPc, Worker
      <4>3. CASE NotFound(w) \/ Publish(w) \/ Fail(w) \/ RowGone(w) \/ DbError(w)
                  \/ CommitUnheard(w) \/ Retry(w) \/ RetryRefused(w) \/ DeadLetter(w)
        <5>1. SetPc(w, "ack") \/ SetPc(w, "raised")
          BY <4>3 DEF NotFound, Publish, Fail, AfterFailure, RowGone, DbError, CommitUnheard, Retry,
             RetryRefused, DeadLetter
        <5> QED
          BY <1>1, <5>1 DEF SetPc, Worker
      <4> QED
        BY <1>2, <2>4, <4>1, <4>2, <4>3 DEF WorkerStep, WorkerFault
    <3> QED
      BY <1>1, <2>1, <2>2, <3>1 DEF Begun, Active
  <2> QED
    BY <2>3, <2>4
<1>3. ASSUME NEW q \in Requests,
             HandlerStep(q) \/ Admit(q) \/ EnqueueFails(q) \/ Rollback(q)
      PROVE  Begun'
  <2>1. UNCHANGED worker
    BY <1>3 DEF HandlerStep, Admit, Insert, Refuse, Enqueue, EnqueueFails, Commit, Rollback,
       taskVars
  <2>2. CASE Admit(q)
    BY <1>1, <2>1, <2>2 DEF Admit, Begun, Active, rowVars
  <2>3. CASE Commit(q)
    BY <1>1, <2>1, <2>3 DEF Commit, Begun, Active, IdleRequest
  <2>4. CASE Insert(q) \/ Refuse(q) \/ Enqueue(q) \/ EnqueueFails(q) \/ Rollback(q)
    <3>1. UNCHANGED <<status, used>>
      BY <2>4 DEF Insert, Refuse, Enqueue, EnqueueFails, Rollback, rowVars
    <3>2. \A o \in Requests : Active(o)' => Active(o) /\ req'[o].id = req[o].id
      BY <1>1, <2>4 DEF Insert, Refuse, Enqueue, EnqueueFails, Rollback, IdleRequest, Request,
         Active
    <3> QED
      BY <2>1, <3>1, <3>2 DEF Begun
  <2> QED
    BY <1>3, <2>2, <2>3, <2>4 DEF HandlerStep
<1>4. CASE \/ \E p \in Portfolios : DeletePortfolio(p)
           \/ \E r \in Resumes : DeleteResume(r) \/ ResumeParsed(r)
           \/ ChangePlan
           \/ UNCHANGED vars
  <2>1. UNCHANGED worker
    BY <1>4 DEF DeletePortfolio, DeleteResume, ResumeParsed, ChangePlan, vars, taskVars
  <2> QED
    BY <1>1, <1>4, <2>1, OthersKeepRows DEF Begun, Active, apiVars
<1> QED
  BY <1>2, <1>3, <1>4 DEF Next, Rest

\* A worker starts or finishes a portfolio, or shows nothing of what it does.
LEMMA WorkersImplement ==
  ASSUME LifecycleInv, NEW w \in Workers,
         WorkerStep(w) \/ WorkerFault(w)
  PROVE  LifecycleStep
<1>1. /\ UNCHANGED <<used, req>> /\ status \in [Portfolios -> PortfolioStatus] /\ Typed
      /\ worker[w].pc # "idle" => worker[w].job \in Portfolios
  BY WorkersKeepRows DEF LifecycleInv, apiVars, Typed, TypeOK, WorkersHold
<1>2. CASE Begin(w) \/ (CommitUnheard(w) /\ worker[w].pc = "start")
  <2>1. PICK p \in Portfolios :
          status[p] # "absent" /\ status' = [status EXCEPT ![p] = "generating"]
    BY <1>1, <1>2 DEF Begin, CommitUnheard, RowExists
  <2>2. GivenUp' = GivenUp
    BY <1>1, <2>1, SameGivenUp
  <2>3. Lifecycle!Start(p)
    BY <2>1, <2>2 DEF Lifecycle!Start, Lifecycle!SetStatus, GivenUp
  <2> QED
    BY <2>3 DEF LifecycleStep, Lifecycle!Next
<1>3. CASE Publish(w) \/ Fail(w) \/ (CommitUnheard(w) /\ worker[w].pc # "start")
  <2>1. PICK p \in Portfolios, s \in {"published", "failed"} :
          p = worker[w].job /\ status[p] # "absent" /\ status' = [status EXCEPT ![p] = s]
    BY <1>1, <1>3 DEF Publish, Fail, CommitUnheard, RowExists
  <2>2. status[p] \in {"generating", "published", "failed"}
    BY <1>1, <1>3, <2>1 DEF LifecycleInv, Begun, Publish, Fail, CommitUnheard, PortfolioStatus
  <2>3. GivenUp' = GivenUp
    BY <1>1, <2>1, SameGivenUp
  <2>4. Lifecycle!Finish(p)
    BY <2>1, <2>2, <2>3 DEF Lifecycle!Finish, Lifecycle!Started, Lifecycle!SetStatus, GivenUp
  <2> QED
    BY <2>4 DEF LifecycleStep, Lifecycle!Next
<1>4. CASE ~Begin(w) /\ ~Publish(w) /\ ~Fail(w) /\ ~CommitUnheard(w)
  <2>1. UNCHANGED status
    BY <1>4 DEF WorkerStep, Take, NotFound, ReadResume, RowGone, Retry, DeadLetter, Ack,
       RenderFails, DbError, CommitUnheard, RetryRefused, WorkerLost,
     WorkerFault, rowVars
  <2> QED
    BY <1>1, <2>1, SameGivenUp DEF LifecycleStep
<1> QED
  BY <1>2, <1>3, <1>4

\* A request accepts its id or gives it up; until then it shows nothing.
LEMMA HandlersImplement ==
  ASSUME LifecycleInv, NEW q \in Requests,
         HandlerStep(q) \/ Admit(q) \/ EnqueueFails(q) \/ Rollback(q)
  PROVE  LifecycleStep
<1>1. /\ req \in [Requests -> Request] /\ status \in [Portfolios -> PortfolioStatus]
      /\ used \subseteq Portfolios /\ None \notin Portfolios
      /\ \A o \in Requests : Active(o) => req[o].id \in used /\ status[req[o].id] = "absent"
      /\ \A o \in Requests : ~Active(o) => req[o].id = None
      /\ \A o, r \in Requests : Active(o) /\ Active(r) /\ req[o].id = req[r].id => o = r
  BY ConstantsAssumption DEF LifecycleInv, Typed, TypeOK, RequestsHold, Ids, Fresh, Uncommitted,
     RowExists, IdleHoldsNone, Active
<1>2. CASE Admit(q)
  <2>1. PICK p \in Portfolios \ used :
          /\ used' = used \cup {p} /\ UNCHANGED status
          /\ \A o \in Requests : req'[o].id = IF o = q THEN p ELSE req[o].id
    BY <1>1, <1>2 DEF Admit, rowVars
  <2>2. req[q].id = None
    BY <1>1, <1>2 DEF Admit, Active
  <2>3. GivenUp' = GivenUp
    BY <1>1, <2>1, <2>2 DEF GivenUp, Held
  <2> QED
    BY <2>1, <2>3 DEF LifecycleStep
<1>3. CASE Insert(q) \/ Enqueue(q) \/ EnqueueFails(q)
  <2>1. UNCHANGED <<status, used>> /\ \A o \in Requests : req'[o].id = req[o].id
    BY <1>1, <1>3 DEF Insert, Enqueue, EnqueueFails, Request, rowVars
  <2>2. GivenUp' = GivenUp
    BY <2>1 DEF GivenUp, Held
  <2> QED
    BY <2>1, <2>2 DEF LifecycleStep
<1>4. CASE Refuse(q) \/ Rollback(q)
  <2>1. PICK p \in used : p = req[q].id
    BY <1>1, <1>4 DEF Refuse, Rollback, Active
  <2>2. /\ Active(q) /\ UNCHANGED <<status, used>>
        /\ \A o \in Requests : req'[o].id = IF o = q THEN None ELSE req[o].id
    BY <1>1, <1>4 DEF Refuse, Rollback, IdleRequest, Active, rowVars
  <2>3. \A o \in Requests : o # q => req[o].id # p
    BY <1>1, <2>1, <2>2
  <2>4. p \notin GivenUp /\ GivenUp' = GivenUp \cup {p}
    BY <1>1, <2>1, <2>2, <2>3 DEF GivenUp, Held
  <2>5. status' = [status EXCEPT ![p] = "absent"]
    BY <1>1, <2>1, <2>2
  <2>6. Lifecycle!Retire(p) /\ p \in Portfolios
    BY <1>1, <2>4, <2>5 DEF Lifecycle!Retire, GivenUp
  <2> QED
    BY <2>6 DEF LifecycleStep, Lifecycle!Next
<1>5. CASE Commit(q)
  <2>1. PICK p \in used : p = req[q].id
    BY <1>1, <1>5 DEF Commit, Active
  <2>2. /\ Active(q) /\ UNCHANGED used /\ status' = [status EXCEPT ![p] = "queued"]
        /\ \A o \in Requests : req'[o].id = IF o = q THEN None ELSE req[o].id
    BY <1>1, <1>5, <2>1 DEF Commit, IdleRequest, InitialStatus, Active
  <2>3. p \notin GivenUp /\ GivenUp' = GivenUp
    BY <1>1, <2>1, <2>2 DEF GivenUp, Held
  <2>4. Lifecycle!Accept(p) /\ p \in Portfolios
    BY <1>1, <2>1, <2>2, <2>3 DEF Lifecycle!Accept, Lifecycle!SetStatus, GivenUp
  <2> QED
    BY <2>4 DEF LifecycleStep, Lifecycle!Next
<1> QED
  BY <1>2, <1>3, <1>4, <1>5 DEF HandlerStep

\* A delete gives the id of its row up.
LEMMA OthersImplement ==
  ASSUME LifecycleInv,
         \/ \E p \in Portfolios : DeletePortfolio(p)
         \/ \E r \in Resumes : DeleteResume(r) \/ ResumeParsed(r)
         \/ ChangePlan
         \/ UNCHANGED vars
  PROVE  LifecycleStep
<1>1. UNCHANGED <<used, req>> /\ Typed /\ None \notin Portfolios
      /\ status \in [Portfolios -> PortfolioStatus]
  BY OthersKeepRows, ConstantsAssumption DEF LifecycleInv, apiVars, Typed, TypeOK
<1>2. ASSUME NEW p \in Portfolios, DeletePortfolio(p)
      PROVE  LifecycleStep
  <2>1. status[p] # "absent" /\ status' = [status EXCEPT ![p] = "absent"]
    BY <1>2 DEF DeletePortfolio, RowExists
  <2>2. p \in used /\ p \notin Held
    BY <1>1, <2>1 DEF LifecycleInv, Ids, RowsUsed, Uncommitted, RowExists, IdleHoldsNone, Held
  <2>3. p \notin GivenUp /\ GivenUp' = GivenUp \cup {p}
    BY <1>1, <2>1, <2>2 DEF GivenUp, Held
  <2>4. Lifecycle!Retire(p)
    BY <2>1, <2>3 DEF Lifecycle!Retire, GivenUp
  <2> QED
    BY <2>4 DEF LifecycleStep, Lifecycle!Next
<1>3. CASE \/ \E r \in Resumes : DeleteResume(r) \/ ResumeParsed(r)
           \/ ChangePlan
           \/ UNCHANGED vars
  <2>1. UNCHANGED status
    BY <1>3 DEF DeleteResume, ResumeParsed, ChangePlan, vars, rowVars
  <2> QED
    BY <1>1, <2>1, SameGivenUp DEF LifecycleStep
<1> QED
  BY <1>2, <1>3

(* What a poll of the status shows is a behaviour of PortfolioLifecycle: each *)
(* step of handlers, workers and deletes is a step of it, or shows nothing.   *)
THEOREM LifecycleIsImplemented == Spec => ImplementsLifecycle
<1>1. Init => LifecycleInv /\ Lifecycle!Init
  <2> SUFFICES ASSUME Init PROVE LifecycleInv /\ Lifecycle!Init
    OBVIOUS
  <2>1. Ids /\ IdleHoldsNone /\ Begun
    BY DEF Init, Ids, Fresh, Uncommitted, RowsUsed, Active, RowExists, IdleRequest, IdleWorker,
       IdleHoldsNone, Begun
  <2>2. Lifecycle!Init
    BY DEF Init, Lifecycle!Init
  <2> QED
    BY <2>1, <2>2, InitTyped DEF LifecycleInv
<1>2. LifecycleInv /\ [Next]_vars => LifecycleInv'
  BY StepTyped, StepIds, StepIdleHoldsNone, StepBegun DEF LifecycleInv
<1>3. LifecycleInv /\ [Next]_vars => [Lifecycle!Next]_(Lifecycle!vars)
  <2> SUFFICES ASSUME LifecycleInv, [Next]_vars PROVE [Lifecycle!Next]_(Lifecycle!vars)
    OBVIOUS
  <2>1. LifecycleStep
    BY WorkersImplement, HandlersImplement, OthersImplement DEF Next, Rest
  <2> QED
    BY <2>1 DEF LifecycleStep, Lifecycle!vars, GivenUp
<1> QED
  BY <1>1, <1>2, <1>3, PTL DEF Spec, ImplementsLifecycle, Lifecycle!Spec

-----------------------------------------------------------------------------
(* A worker lost is the only thing that multiplies a job.  The inductive      *)
(* invariant counts messages and busy workers, finitely many of each, and     *)
(* says whose job does not exist yet: not in the broker, and not even with a  *)
(* worker that is done and may still be lost before it acknowledges.          *)
NotSent(p) ==
  /\ \A k \in Tries : queue[p][k] = 0
  /\ \A w \in Workers : worker[w].pc # "idle" => worker[w].job # p

Unborn(p) ==
  \/ p \notin used
  \/ \E q \in Requests : req[q].pc \in {"admitted", "inserted"} /\ req[q].id = p

NothingBeforeEnqueue == \A p \in Portfolios : Unborn(p) => NotSent(p)

Counted(p) ==
  /\ IsFiniteSet(Messages(p)) /\ IsFiniteSet(BusyWith(p))
  /\ Copies(p) <= 1 + crashes

CopiesInv == NothingBeforeEnqueue /\ \A p \in Portfolios : Counted(p)

\* A message is a retry number and a place among those with the same number.
LEMMA MessagesAre ==
  ASSUME NEW p \in Portfolios, NEW m
  PROVE  m \in Messages(p) <=> \E k \in Tries : \E i \in 1 .. queue[p][k] : m = <<k, i>>
BY DEF Messages

LEMMA MessagesWillBe ==
  ASSUME NEW p \in Portfolios, NEW m
  PROVE  m \in Messages(p)' <=> \E k \in Tries : \E i \in 1 .. queue'[p][k] : m = <<k, i>>
BY DEF Messages

\* One more message on retry k.
LEMMA MessageAdded ==
  ASSUME Typed, NEW p \in Portfolios, NEW k \in Tries, Send(p, k)
  PROVE  \E m : m \notin Messages(p) /\ Messages(p)' = Messages(p) \cup {m}
<1> DEFINE n == queue[p][k]
           m == <<k, n + 1>>
<1>1. queue \in [Portfolios -> [Tries -> Nat]] /\ n \in Nat
  BY DEF Typed, TypeOK
<1>2. queue'[p][k] = n + 1 /\ \A j \in Tries : j # k => queue'[p][j] = queue[p][j]
  BY <1>1 DEF Send
<1>3. m \notin Messages(p)
  BY <1>1, MessagesAre
<1>4. ASSUME NEW x
      PROVE  x \in Messages(p)' <=> x \in Messages(p) \/ x = m
  <2>1. ASSUME x \in Messages(p)'
        PROVE  x \in Messages(p) \/ x = m
    <3>1. PICK j \in Tries : \E i \in 1 .. queue'[p][j] : x = <<j, i>>
      BY <2>1, MessagesWillBe
    <3>2. PICK i \in 1 .. queue'[p][j] : x = <<j, i>>
      BY <3>1
    <3>3. CASE j # k \/ i <= n
      <4>1. i \in 1 .. queue[p][j]
        BY <1>1, <1>2, <3>2, <3>3
      <4> QED
        BY <3>2, <4>1, MessagesAre
    <3>4. CASE j = k /\ ~(i <= n)
      <4>1. i \in 1 .. n + 1
        BY <1>2, <3>2, <3>4
      <4>2. i = n + 1
        BY <1>1, <3>4, <4>1
      <4> QED
        BY <3>2, <3>4, <4>2
    <3> QED
      BY <3>3, <3>4
  <2>2. ASSUME x \in Messages(p)
        PROVE  x \in Messages(p)'
    <3>1. PICK j \in Tries : \E i \in 1 .. queue[p][j] : x = <<j, i>>
      BY <2>2, MessagesAre
    <3>2. PICK i \in 1 .. queue[p][j] : x = <<j, i>>
      BY <3>1
    <3>3. i \in 1 .. queue'[p][j]
      BY <1>1, <1>2, <3>2
    <3> QED
      BY <3>2, <3>3, MessagesWillBe
  <2>3. m \in Messages(p)'
    <3>1. n + 1 \in 1 .. queue'[p][k]
      BY <1>1, <1>2
    <3> QED
      BY <3>1, MessagesWillBe
  <2> QED
    BY <2>1, <2>2, <2>3
<1> QED
  BY <1>3, <1>4

\* One message less on retry k.
LEMMA MessageRemoved ==
  ASSUME Typed, NEW p \in Portfolios, NEW k \in Tries, queue[p][k] > 0,
         queue' = [queue EXCEPT ![p][k] = @ - 1]
  PROVE  \E m : m \in Messages(p) /\ Messages(p)' = Messages(p) \ {m}
<1> DEFINE n == queue[p][k]
           m == <<k, n>>
<1>1. queue \in [Portfolios -> [Tries -> Nat]] /\ n \in Nat /\ n > 0
  BY DEF Typed, TypeOK
<1>2. queue'[p][k] = n - 1 /\ \A j \in Tries : j # k => queue'[p][j] = queue[p][j]
  BY <1>1
<1>3. m \in Messages(p)
  <2>1. n \in 1 .. queue[p][k]
    BY <1>1
  <2> QED
    BY <2>1, MessagesAre
<1>4. ASSUME NEW x
      PROVE  x \in Messages(p)' <=> x \in Messages(p) /\ x # m
  <2>1. ASSUME x \in Messages(p), x # m
        PROVE  x \in Messages(p)'
    <3>1. PICK j \in Tries : \E i \in 1 .. queue[p][j] : x = <<j, i>>
      BY <2>1, MessagesAre
    <3>2. PICK i \in 1 .. queue[p][j] : x = <<j, i>>
      BY <3>1
    <3>3. i \in 1 .. queue'[p][j]
      BY <1>1, <1>2, <2>1, <3>2
    <3> QED
      BY <3>2, <3>3, MessagesWillBe
  <2>2. ASSUME x \in Messages(p)'
        PROVE  x \in Messages(p) /\ x # m
    <3>1. PICK j \in Tries : \E i \in 1 .. queue'[p][j] : x = <<j, i>>
      BY <2>2, MessagesWillBe
    <3>2. PICK i \in 1 .. queue'[p][j] : x = <<j, i>>
      BY <3>1
    <3>3. i \in 1 .. queue[p][j] /\ (j = k => i # n)
      BY <1>1, <1>2, <3>2
    <3> QED
      BY <3>2, <3>3, MessagesAre
  <2> QED
    BY <2>1, <2>2
<1> QED
  BY <1>3, <1>4

\* No new message and nobody new at work.
LEMMA CountShrinks ==
  ASSUME Typed, NEW p \in Portfolios, Counted(p), crashes' \in {crashes, crashes + 1},
         queue'[p] = queue[p], BusyWith(p)' \subseteq BusyWith(p)
  PROVE  Counted(p)'
<1>1. Messages(p)' = Messages(p)
  BY DEF Messages
<1>2. /\ IsFiniteSet(BusyWith(p)')
      /\ Cardinality(BusyWith(p)') <= Cardinality(BusyWith(p))
  BY FS_Subset DEF Counted
<1>3. Cardinality(Messages(p)) \in Nat /\ Cardinality(BusyWith(p)) \in Nat
      /\ Cardinality(BusyWith(p)') \in Nat
  BY <1>2, FS_CardinalityType DEF Counted
<1>4. Cardinality(Messages(p)') + Cardinality(BusyWith(p)') <= 1 + crashes'
  BY <1>1, <1>2, <1>3 DEF Counted, Copies, Typed, TypeOK
<1> QED
  BY <1>1, <1>2, <1>4 DEF Counted, Copies

\* One more message, for a worker less or for a crash more.
LEMMA CountSent ==
  ASSUME Typed, Typed', NEW p \in Portfolios, Counted(p), NEW k \in Tries, Send(p, k),
         BusyWith(p)' \subseteq BusyWith(p),
         \/ crashes' = crashes /\ \E w \in BusyWith(p) : w \notin BusyWith(p)'
         \/ crashes' = crashes + 1
  PROVE  Counted(p)'
<1>1. PICK m : m \notin Messages(p) /\ Messages(p)' = Messages(p) \cup {m}
  BY MessageAdded
<1>2. /\ IsFiniteSet(Messages(p)')
      /\ Cardinality(Messages(p)') = Cardinality(Messages(p)) + 1
  BY <1>1, FS_AddElement DEF Counted
<1>3. /\ IsFiniteSet(BusyWith(p)')
      /\ Cardinality(BusyWith(p)') <= Cardinality(BusyWith(p))
      /\ Cardinality(BusyWith(p)') = Cardinality(BusyWith(p)) => BusyWith(p)' = BusyWith(p)
  BY FS_Subset DEF Counted
<1>4. Cardinality(Messages(p)) \in Nat /\ Cardinality(BusyWith(p)) \in Nat
      /\ Cardinality(BusyWith(p)') \in Nat /\ crashes \in Nat
  BY <1>3, FS_CardinalityType DEF Counted, Typed, TypeOK
<1>5. CASE crashes' = crashes /\ BusyWith(p)' # BusyWith(p)
  <2>1. Cardinality(Messages(p)') + Cardinality(BusyWith(p)') <= 1 + crashes'
    BY <1>2, <1>3, <1>4, <1>5 DEF Counted, Copies
  <2> QED
    BY <1>2, <1>3, <2>1 DEF Counted, Copies
<1>6. CASE crashes' = crashes + 1
  <2>1. Cardinality(Messages(p)') + Cardinality(BusyWith(p)') <= 1 + crashes'
    BY <1>2, <1>3, <1>4, <1>6 DEF Counted, Copies
  <2> QED
    BY <1>2, <1>3, <2>1 DEF Counted, Copies
<1> QED
  BY <1>5, <1>6

\* A message goes to a worker.
LEMMA CountTaken ==
  ASSUME Typed, Typed', NEW p \in Portfolios, Counted(p), NEW w \in Workers, Take(w)
  PROVE  Counted(p)'
<1>1. PICK o \in Portfolios, k \in Tries :
        /\ queue[o][k] > 0
        /\ queue' = [queue EXCEPT ![o][k] = @ - 1]
        /\ worker' = [worker EXCEPT ![w] = [pc |-> "start", job |-> o, tries |-> k,
                                            resume |-> None]]
  BY DEF Take
<1>2. /\ queue \in [Portfolios -> [Tries -> Nat]] /\ worker \in [Workers -> Worker]
      /\ crashes' = crashes /\ worker[w].pc = "idle" /\ crashes \in Nat
  BY DEF Take, Typed, TypeOK, logVars
<1>3. /\ worker'[w].pc = "start" /\ worker'[w].job = o
      /\ \A v \in Workers : v # w => worker'[v] = worker[v]
  BY <1>1, <1>2
<1>4. CASE o # p
  <2>1. queue'[p] = queue[p]
    BY <1>1, <1>2, <1>4
  <2>2. BusyWith(p)' \subseteq BusyWith(p)
    BY <1>3, <1>4 DEF BusyWith
  <2> QED
    BY <1>2, <2>1, <2>2, CountShrinks
<1>5. CASE o = p
  <2>1. PICK m : m \in Messages(p) /\ Messages(p)' = Messages(p) \ {m}
    BY <1>1, <1>5, MessageRemoved
  <2>2. w \notin BusyWith(p) /\ BusyWith(p)' = BusyWith(p) \cup {w}
    BY <1>2, <1>3, <1>5 DEF BusyWith, Busy
  <2>3. /\ IsFiniteSet(Messages(p)')
        /\ Cardinality(Messages(p)') = Cardinality(Messages(p)) - 1
    BY <2>1, FS_RemoveElement DEF Counted
  <2>4. /\ IsFiniteSet(BusyWith(p)')
        /\ Cardinality(BusyWith(p)') = Cardinality(BusyWith(p)) + 1
    BY <2>2, FS_AddElement DEF Counted
  <2>5. Cardinality(Messages(p)) \in Nat /\ Cardinality(BusyWith(p)) \in Nat
    BY FS_CardinalityType DEF Counted
  <2>6. Cardinality(Messages(p)') + Cardinality(BusyWith(p)') <= 1 + crashes'
    BY <1>2, <2>3, <2>4, <2>5 DEF Counted, Copies
  <2> QED
    BY <2>3, <2>4, <2>6 DEF Counted, Copies
<1> QED
  BY <1>4, <1>5

\* A worker that neither takes nor returns a message goes on with its job.
LEMMA SameWorkers ==
  ASSUME Typed, NEW w \in Workers, Steady(w),
         ~Take(w), ~Retry(w)
  PROVE  \A v \in Workers :
           /\ worker'[v].pc # "idle" =>
                worker[v].pc # "idle" /\ worker'[v].job = worker[v].job
           /\ worker'[v].pc \in Busy => worker[v].pc \in Busy
<1>1. worker \in [Workers -> Worker]
  BY DEF Typed, TypeOK
<1>2. CASE Ack(w)
  BY <1>1, <1>2 DEF Ack, IdleWorker, Busy
<1>3. CASE Begin(w)
  BY <1>1, <1>3 DEF Begin, Busy, Worker
<1>4. CASE ~Ack(w) /\ ~Begin(w)
  <2>1. PICK pc \in Busy \cup {"ack"} : SetPc(w, pc)
    BY <1>4 DEF WorkerStep, NotFound, ReadResume, Publish, Fail, AfterFailure, RowGone, DeadLetter,
       RenderFails, DbError, CommitUnheard, RetryRefused, Steady, Busy
  <2>2. worker[w].pc \in Busy
    BY <1>4 DEF WorkerStep, NotFound, ReadResume, Publish, Fail, AfterFailure, RowGone, DeadLetter,
       RenderFails, DbError, CommitUnheard, RetryRefused, Steady, Busy
  <2> QED
    BY <1>1, <2>1, <2>2 DEF SetPc, Worker, Busy
<1> QED
  BY <1>2, <1>3, <1>4

\* The first message.
LEMMA CountFirst ==
  ASSUME Typed, NEW p \in Portfolios, NotSent(p), Send(p, 0), UNCHANGED <<worker, crashes>>
  PROVE  Counted(p)'
<1>1. /\ queue \in [Portfolios -> [Tries -> Nat]] /\ 0 \in Tries /\ crashes \in Nat
  BY ConstantsAssumption DEF Typed, TypeOK, Tries
<1>2. Messages(p) = {}
  BY <1>1 DEF NotSent, Messages
<1>3. BusyWith(p)' = {}
  BY DEF NotSent, BusyWith, Busy
<1>4. PICK m : Messages(p)' = {m}
  BY <1>1, <1>2, MessageAdded
<1>5. /\ IsFiniteSet(Messages(p)') /\ Cardinality(Messages(p)') = 1
      /\ IsFiniteSet(BusyWith(p)') /\ Cardinality(BusyWith(p)') = 0
  BY <1>3, <1>4, FS_EmptySet, FS_Singleton
<1> QED
  BY <1>1, <1>5 DEF Counted, Copies

\* What the steps of a worker do to the messages and the workers of p.
LEMMA WorkersCount ==
  ASSUME Typed, Typed', NEW p \in Portfolios, Counted(p), NEW w \in Workers,
         WorkerStep(w) \/ WorkerFault(w)
  PROVE  Counted(p)'
<1>1. /\ queue \in [Portfolios -> [Tries -> Nat]] /\ worker \in [Workers -> Worker]
      /\ worker[w].pc # "idle" => worker[w].job \in Portfolios /\ worker[w].tries \in Tries
  BY DEF Typed, TypeOK, WorkersHold, Worker
<1>2. CASE Take(w)
  BY <1>2, CountTaken
<1>3. CASE Retry(w)
  <2> DEFINE o == worker[w].job
  <2>1. /\ o \in Portfolios /\ worker[w].pc = "raised" /\ worker[w].tries + 1 \in Tries
        /\ Send(o, worker[w].tries + 1) /\ SetPc(w, "ack") /\ crashes' = crashes
    BY <1>1, <1>3, ConstantsAssumption DEF Retry, NextTry, Tries, logVars
  <2>2. /\ BusyWith(p)' \subseteq BusyWith(p) /\ w \notin BusyWith(p)'
        /\ o = p => w \in BusyWith(p)
    BY <1>1, <2>1 DEF SetPc, BusyWith, Busy, Worker
  <2>3. CASE o = p
    BY <2>1, <2>2, <2>3, CountSent
  <2>4. CASE o # p
    <3>1. queue'[p] = queue[p]
      BY <1>1, <2>1, <2>4 DEF Send
    <3> QED
      BY <2>1, <2>2, <3>1, CountShrinks
  <2> QED
    BY <2>3, <2>4
<1>4. CASE WorkerLost(w)
  <2> DEFINE o == worker[w].job
  <2>1. /\ o \in Portfolios /\ worker[w].tries \in Tries
        /\ Send(o, worker[w].tries) /\ crashes' = crashes + 1
        /\ worker' = [worker EXCEPT ![w] = IdleWorker]
    BY <1>1, <1>4 DEF WorkerLost
  <2>2. BusyWith(p)' \subseteq BusyWith(p)
    BY <1>1, <2>1 DEF IdleWorker, BusyWith, Busy
  <2>3. CASE o = p
    BY <2>1, <2>2, <2>3, CountSent
  <2>4. CASE o # p
    <3>1. queue'[p] = queue[p]
      BY <1>1, <2>1, <2>4 DEF Send
    <3> QED
      BY <2>1, <2>2, <3>1, CountShrinks
  <2> QED
    BY <2>3, <2>4
<1>5. CASE ~Take(w) /\ ~Retry(w) /\ ~WorkerLost(w)
  <2>1. queue' = queue /\ crashes' = crashes
    BY <1>5 DEF WorkerStep, NotFound, Begin, ReadResume, Publish, Fail, AfterFailure, RowGone,
       DeadLetter,
       Ack, RenderFails, DbError, CommitUnheard, RetryRefused, WorkerFault, logVars
  <2>2. BusyWith(p)' \subseteq BusyWith(p)
    BY <1>1, <1>5, SameWorkers DEF BusyWith, Busy, WorkerFault, Steady
  <2> QED
    BY <2>1, <2>2, CountShrinks
<1> QED
  BY <1>2, <1>3, <1>4, <1>5

\* A job that does not exist is not sent by a worker.
LEMMA WorkersSendTheirs ==
  ASSUME Typed, NEW p \in Portfolios, NotSent(p), NEW w \in Workers,
         WorkerStep(w) \/ WorkerFault(w)
  PROVE  NotSent(p)'
<1>1. /\ queue \in [Portfolios -> [Tries -> Nat]] /\ worker \in [Workers -> Worker]
      /\ worker[w].pc # "idle" =>
           worker[w].job \in Portfolios /\ worker[w].tries \in Tries /\ worker[w].job # p
  BY DEF Typed, TypeOK, WorkersHold, Worker, NotSent
<1>2. CASE Take(w)
  <2>1. PICK o \in Portfolios, k \in Tries :
          /\ queue[o][k] > 0
          /\ queue' = [queue EXCEPT ![o][k] = @ - 1]
          /\ worker' = [worker EXCEPT ![w] = [pc |-> "start", job |-> o, tries |-> k,
                                              resume |-> None]]
    BY <1>2 DEF Take
  <2>2. o # p
    BY <2>1 DEF NotSent
  <2>3. queue'[p] = queue[p] /\ \A v \in Workers : worker'[v].job = p =>
          worker'[v] = worker[v]
    BY <1>1, <2>1, <2>2
  <2> QED
    BY <2>3 DEF NotSent
<1>3. CASE Retry(w) \/ WorkerLost(w)
  <2>1. queue'[p] = queue[p]
    BY <1>1, <1>3 DEF Retry, WorkerLost, Send
  <2>2. \A v \in Workers : worker'[v].pc # "idle" =>
          worker[v].pc # "idle" /\ worker'[v].job = worker[v].job
    <3>1. CASE Retry(w)
      BY <1>1, <3>1 DEF Retry, SetPc, Worker
    <3>2. CASE WorkerLost(w)
      BY <1>1, <3>2 DEF WorkerLost, IdleWorker
    <3> QED
      BY <1>3, <3>1, <3>2
  <2> QED
    BY <2>1, <2>2 DEF NotSent
<1>4. CASE ~Take(w) /\ ~Retry(w) /\ ~WorkerLost(w)
  <2>1. queue' = queue
    BY <1>4 DEF WorkerStep, NotFound, Begin, ReadResume, Publish, Fail, AfterFailure, RowGone,
       DeadLetter,
       Ack, RenderFails, DbError, CommitUnheard, RetryRefused, WorkerFault
  <2>2. \A v \in Workers : worker'[v].pc # "idle" =>
          worker[v].pc # "idle" /\ worker'[v].job = worker[v].job
    BY <1>1, <1>4, SameWorkers DEF WorkerFault, Steady
  <2> QED
    BY <2>1, <2>2 DEF NotSent
<1> QED
  BY <1>2, <1>3, <1>4

\* Only its own request's enqueue sends the first message of a job.
LEMMA HandlersCount ==
  ASSUME Typed, Typed', Ids, CopiesInv, NEW q \in Requests,
         HandlerStep(q) \/ Admit(q) \/ EnqueueFails(q) \/ Rollback(q)
  PROVE  CopiesInv'
<1>1. /\ req \in [Requests -> Request] /\ used \subseteq Portfolios
      /\ queue \in [Portfolios -> [Tries -> Nat]]
      /\ \A o \in Requests : Active(o) => req[o].id \in used
  BY DEF Typed, TypeOK, RequestsHold, Active
<1>2. UNCHANGED <<worker, crashes>>
  BY DEF HandlerStep, Admit, Insert, Refuse, Enqueue, EnqueueFails, Commit, Rollback, taskVars
<1>3. CASE Enqueue(q)
  <2>1. PICK p \in Portfolios : p = req[q].id
    BY <1>1, <1>3 DEF Enqueue, Active
  <2>2. /\ Unborn(p) /\ p \in used /\ Send(p, 0) /\ used' = used
        /\ req' = [req EXCEPT ![q].pc = "enqueued"] /\ Active(q)
    BY <1>1, <1>3, <2>1 DEF Enqueue, Unborn, Active
  <2>3. NotSent(p)
    BY <2>2 DEF CopiesInv, NothingBeforeEnqueue
  <2>4. ASSUME NEW o \in Portfolios
        PROVE  Counted(o)'
    <3>1. CASE o = p
      BY <1>2, <2>2, <2>3, <3>1, CountFirst
    <3>2. CASE o # p
      <4>1. queue'[o] = queue[o]
        BY <1>1, <2>2, <3>2 DEF Send
      <4> QED
        BY <1>2, <4>1, CountShrinks DEF CopiesInv, BusyWith
    <3> QED
      BY <3>1, <3>2
  <2>5. ASSUME NEW o \in Portfolios, Unborn(o)'
        PROVE  NotSent(o)'
    <3>1. Unborn(o) /\ o # p
      <4>1. CASE o \notin used'
        BY <2>2, <4>1 DEF Unborn
      <4>2. ASSUME NEW r \in Requests, req'[r].pc \in {"admitted", "inserted"},
                   req'[r].id = o
            PROVE  Unborn(o) /\ o # p
        <5>1. r # q /\ req'[r] = req[r] /\ Active(r)
          BY <1>1, <2>2, <4>2 DEF Active
        <5> QED
          BY <2>1, <2>2, <4>2, <5>1 DEF Ids, Fresh, Unborn
      <4> QED
        BY <2>5, <4>1, <4>2 DEF Unborn
    <3>2. queue'[o] = queue[o]
      BY <1>1, <2>2, <3>1 DEF Send
    <3> QED
      BY <1>2, <3>1, <3>2 DEF CopiesInv, NothingBeforeEnqueue, NotSent
  <2> QED
    BY <2>4, <2>5 DEF CopiesInv, NothingBeforeEnqueue
<1>4. CASE ~Enqueue(q)
  <2>1. queue' = queue
    BY <1>4 DEF HandlerStep, Admit, Insert, Refuse, EnqueueFails, Commit, Rollback
  <2>2. ASSUME NEW o \in Portfolios
        PROVE  Counted(o)'
    BY <1>2, <2>1, CountShrinks DEF CopiesInv, BusyWith
  <2>3. ASSUME NEW o \in Portfolios, Unborn(o)'
        PROVE  Unborn(o)
    <3>1. used \subseteq used'
      BY <1>4 DEF HandlerStep, Admit, Insert, Refuse, EnqueueFails, Commit, Rollback
    <3>2. ASSUME NEW r \in Requests, req'[r].pc \in {"admitted", "inserted"}, req'[r].id = o
          PROVE  Unborn(o)
      <4>1. CASE r # q
        <5>1. req'[r] = req[r]
          BY <1>1, <1>4, <4>1 DEF HandlerStep, Admit, Insert, Refuse, EnqueueFails, Commit,
             Rollback
        <5> QED
          BY <3>2, <5>1 DEF Unborn
      <4>2. CASE r = q /\ Admit(q)
        <5>1. req'[q].id \notin used
          BY <1>1, <4>2 DEF Admit
        <5> QED
          BY <3>2, <4>2, <5>1 DEF Unborn
      <4>3. CASE r = q /\ ~Admit(q)
        <5>1. ~(Refuse(q) \/ Commit(q) \/ Rollback(q))
          BY <1>1, <3>2, <4>3 DEF Refuse, Commit, Rollback, IdleRequest
        <5>2. ~EnqueueFails(q)
          BY <1>1, <3>2, <4>3 DEF EnqueueFails, Request
        <5>3. Insert(q)
          BY <1>4, <4>3, <5>1, <5>2 DEF HandlerStep
        <5>4. req[q].pc = "admitted" /\ req'[q].id = req[q].id
          BY <1>1, <5>3 DEF Insert, Request
        <5> QED
          BY <3>2, <4>3, <5>4 DEF Unborn
      <4> QED
        BY <4>1, <4>2, <4>3
    <3> QED
      BY <2>3, <3>1, <3>2 DEF Unborn
  <2> QED
    BY <1>2, <2>1, <2>2, <2>3 DEF CopiesInv, NothingBeforeEnqueue, NotSent
<1> QED
  BY <1>3, <1>4

LEMMA StepCopies ==
  ASSUME Typed, Typed', Ids, CopiesInv, [Next]_vars
  PROVE  CopiesInv'
<1>1. ASSUME NEW w \in Workers,
             WorkerStep(w) \/ WorkerFault(w)
      PROVE  CopiesInv'
  <2>1. \A p \in Portfolios : Counted(p)'
    BY <1>1, WorkersCount DEF CopiesInv
  <2>2. UNCHANGED <<req, used>>
    BY <1>1, WorkersKeepRows DEF WorkerLost, apiVars
  <2>3. \A p \in Portfolios : Unborn(p)' => NotSent(p)'
    BY <1>1, <2>2, WorkersSendTheirs DEF CopiesInv, NothingBeforeEnqueue, Unborn
  <2> QED
    BY <2>1, <2>3 DEF CopiesInv, NothingBeforeEnqueue
<1>2. CASE \/ \E p \in Portfolios : DeletePortfolio(p)
           \/ \E r \in Resumes : DeleteResume(r) \/ ResumeParsed(r)
           \/ ChangePlan
           \/ UNCHANGED vars
  <2>1. UNCHANGED <<req, used, queue, worker, crashes>>
    BY <1>2 DEF DeletePortfolio, DeleteResume, ResumeParsed, ChangePlan, vars, taskVars, apiVars
  <2>2. \A p \in Portfolios : Counted(p)'
    BY <2>1, CountShrinks DEF CopiesInv, BusyWith
  <2> QED
    BY <2>1, <2>2 DEF CopiesInv, NothingBeforeEnqueue, Unborn, NotSent
<1> QED
  BY <1>1, <1>2, HandlersCount DEF Next, Rest

(* The copies of a job, messages and busy workers together, exceed one by at  *)
(* most the workers lost: no retry, no failure and no delete multiplies a     *)
(* job, so without a lost worker no two ever run the same portfolio.          *)
THEOREM BoundedCopiesAlways == Spec => []BoundedCopies
<1>1. Init => Typed /\ Ids /\ CopiesInv
  <2> SUFFICES ASSUME Init
               PROVE  Typed /\ Ids /\ CopiesInv
    OBVIOUS
  <2>1. Ids
    BY DEF Init, Ids, Fresh, Uncommitted, RowsUsed, Active, RowExists, IdleRequest
  <2>2. ASSUME NEW p \in Portfolios
        PROVE  NotSent(p) /\ Counted(p)
    <3>1. NotSent(p) /\ crashes = 0
      BY <2>2 DEF Init, NotSent, IdleWorker
    <3>2. Messages(p) = {} /\ BusyWith(p) = {}
      BY <3>1 DEF NotSent, Messages, BusyWith, Busy
    <3> QED
      BY <3>1, <3>2, FS_EmptySet DEF Counted, Copies
  <2> QED
    BY <2>1, <2>2, InitTyped DEF CopiesInv, NothingBeforeEnqueue
<1>2. Typed /\ Ids /\ CopiesInv /\ [Next]_vars => Typed' /\ Ids' /\ CopiesInv'
  BY StepTyped, StepIds, StepCopies
<1>3. CopiesInv => BoundedCopies
  BY DEF CopiesInv, Counted, BoundedCopies
<1> QED
  BY <1>1, <1>2, <1>3, PTL DEF Spec
=============================================================================
