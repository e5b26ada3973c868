------------------------- MODULE ResumeUploadProofs -------------------------
(* Proofs about ResumeUpload, for all values of its constants.                *)
EXTENDS ResumeUpload, TLAPS

(* Who is active holds a resume.                                              *)
WorkersHold == \A w \in Workers : worker[w].pc # "idle" => worker[w].job \in Resumes

DeletersHold ==
  \A d \in Deleters : deleter[d].pc # "idle" => deleter[d].resume \in Resumes

Typed == TypeOK /\ WorkersHold /\ DeletersHold

UploadAction(r) ==
  UploadStep(r) \/ Put(r) \/ PutFails(r) \/ EnqueueFails(r) \/ Abort(r) \/ Build(r)

DeleteAction(d) == DeleteStep(d) \/ Load(d) \/ DeleteFails(d)

WorkerAction(w) == WorkerStep(w) \/ WorkerFault(w)

(* The steps of a worker that is not lost. *)
Steady(w) == WorkerStep(w) \/ DbError(w) \/ CommitUnheard(w) \/ RetryRefused(w)

-----------------------------------------------------------------------------
(* Sending touches the count of one message only.                             *)
LEMMA SendLemma ==
  ASSUME TypeOK, NEW r \in Resumes, NEW k \in Tries, Send(r, k)
  PROVE  /\ queue' \in [Resumes -> [Tries -> Nat]]
         /\ queue'[r][k] = queue[r][k] + 1
         /\ \A o \in Resumes, j \in Tries : queue'[o][j] >= queue[o][j]
<1>1. queue \in [Resumes -> [Tries -> Nat]]
  BY DEF TypeOK
<1>2. queue' = [queue EXCEPT ![r] = [queue[r] EXCEPT ![k] = queue[r][k] + 1]]
  BY DEF Send
<1>3. [queue[r] EXCEPT ![k] = queue[r][k] + 1] \in [Tries -> Nat]
  BY <1>1
<1>4. queue' \in [Resumes -> [Tries -> Nat]] /\ queue'[r][k] = queue[r][k] + 1
  BY <1>1, <1>2, <1>3
<1>5. ASSUME NEW o \in Resumes, NEW j \in Tries
      PROVE  queue'[o][j] >= queue[o][j]
  <2>1. CASE o = r
    BY <1>1, <1>2, <2>1
  <2>2. CASE o # r
    BY <1>1, <1>2, <2>2
  <2> QED
    BY <2>1, <2>2
<1> QED
  BY <1>4, <1>5

(* The steps of an upload or build request keep the types.                    *)
LEMMA UploadsTyped ==
  ASSUME Typed, NEW r \in Resumes, UploadAction(r)
  PROVE  Typed'
<1> USE ConstantsAssumption
    DEF Typed, TypeOK, WorkersHold, DeletersHold, Uploading, rowVars, ghostVars, taskVars
<1>1. upload' \in [Resumes -> Uploading \cup {"idle", "over"}]
  <2>1. \E pc \in Uploading \cup {"idle", "over"} : SetUpload(r, pc)
    BY DEF UploadAction, UploadStep, Put, PutFails, Insert, ParseInline, Enqueue, EnqueueFails,
       Commit, Abort, ResponseFails, GiveUp, Build, AfterPutFailure
  <2> QED
    BY <2>1 DEF SetUpload
<1>2. CASE Put(r) \/ Insert(r) \/ ParseInline(r) \/ EnqueueFails(r)
  <2>1. CASE Put(r)
    BY <1>1, <2>1 DEF Put
  <2>2. CASE Insert(r) \/ ParseInline(r)
    BY <1>1, <2>2 DEF Insert, ParseInline
  <2>3. CASE EnqueueFails(r)
    BY <1>1, <2>3 DEF EnqueueFails
  <2> QED
    BY <1>2, <2>1, <2>2, <2>3
<1>3. CASE PutFails(r)
  <2>1. file' \in [Resumes -> BOOLEAN] /\ abandoned' \subseteq Resumes
    BY <1>3 DEF PutFails
  <2> QED
    BY <1>3, <1>1, <2>1 DEF PutFails
<1>4. CASE Enqueue(r)
  <2>1. Send(r, 0) /\ 0 \in Tries
    BY <1>4 DEF Enqueue, Tries
  <2>2. queue' \in [Resumes -> [Tries -> Nat]]
    BY <2>1, SendLemma
  <2> QED
    BY <1>4, <1>1, <2>2 DEF Enqueue
<1>5. CASE Commit(r)
  <2>1. status' \in [Resumes -> ResumeStatus]
    BY <1>5 DEF Commit, InitialStatus, ResumeStatus
  <2> QED
    BY <1>5, <1>1, <2>1 DEF Commit
<1>6. CASE Abort(r) \/ ResponseFails(r)
  <2>1. abandoned' \subseteq Resumes
    BY <1>6 DEF Abort, ResponseFails, GiveUp
  <2> QED
    BY <1>6, <1>1, <2>1 DEF Abort, ResponseFails, GiveUp
<1>7. CASE Build(r)
  <2>1. status' \in [Resumes -> ResumeStatus]
    BY <1>7 DEF Build, ResumeStatus
  <2> QED
    BY <1>7, <1>1, <2>1 DEF Build
<1> QED
  BY <1>2, <1>3, <1>4, <1>5, <1>6, <1>7 DEF UploadAction, UploadStep

(* The steps of a delete request keep the types.                              *)
LEMMA DeletesTyped ==
  ASSUME Typed, NEW d \in Deleters, DeleteAction(d)
  PROVE  Typed'
<1> USE ConstantsAssumption
    DEF Typed, TypeOK, WorkersHold, DeletersHold, IdleDeleter, rowVars, ghostVars, taskVars
<1>1. CASE Load(d)
  BY <1>1 DEF Load
<1>2. CASE Erase(d)
  BY <1>2 DEF Erase
<1>3. CASE EraseFails(d)
  <2>1. file' \in [Resumes -> BOOLEAN] /\ halfDeleted' \subseteq Resumes
    BY <1>3 DEF EraseFails
  <2> QED
    BY <1>3, <2>1 DEF EraseFails, AfterEraseFailure
<1>4. CASE DeleteCommit(d)
  <2>1. status' \in [Resumes -> ResumeStatus]
    BY <1>4 DEF DeleteCommit, ResumeStatus
  <2> QED
    BY <1>4, <2>1 DEF DeleteCommit
<1>5. CASE DeleteFails(d)
  <2>1. halfDeleted' \subseteq Resumes
    BY <1>5 DEF DeleteFails
  <2> QED
    BY <1>5, <2>1 DEF DeleteFails
<1> QED
  BY <1>1, <1>2, <1>3, <1>4, <1>5 DEF DeleteAction, DeleteStep

Slots == [pc : {"idle", "start", "started", "parsing", "failing", "raised", "ack"},
          job : Resumes \cup {None}, tries : Tries]

\* A worker that moves on keeps the job it has.
LEMMA PcTyped ==
  ASSUME worker \in [Workers -> Slots], WorkersHold, NEW w \in Workers, worker[w].pc # "idle",
         NEW pc \in {"start", "started", "parsing", "failing", "raised", "ack"}, SetPc(w, pc)
  PROVE  worker' \in [Workers -> Slots] /\ WorkersHold'
<1> DEFINE new == [worker[w] EXCEPT !.pc = pc]
<1>1. new \in Slots /\ new.job = worker[w].job
  BY DEF Slots
<1>2. worker' = [worker EXCEPT ![w] = new]
  BY DEF SetPc
<1>3. worker[w].job \in Resumes
  BY DEF WorkersHold
<1> HIDE DEF new
<1> QED
  BY <1>1, <1>2, <1>3 DEF WorkersHold

(* The steps of a worker keep the types.                                      *)
LEMMA WorkersTyped ==
  ASSUME Typed, NEW w \in Workers, WorkerAction(w)
  PROVE  Typed'
<1> USE ConstantsAssumption
    DEF Typed, TypeOK, WorkersHold, DeletersHold, IdleWorker, requestVars, ghostVars, logVars
<1>1. CASE Take(w)
  <2>1. PICK r \in Resumes, k \in Tries :
          /\ queue[r][k] > 0
          /\ queue' = [queue EXCEPT ![r][k] = @ - 1]
          /\ worker' = [worker EXCEPT ![w] = [pc |-> "start", job |-> r, tries |-> k]]
    BY <1>1 DEF Take
  <2>2. queue' \in [Resumes -> [Tries -> Nat]]
    BY <2>1
  <2> QED
    BY <1>1, <2>1, <2>2 DEF Take
<1>2. CASE Begin(w) \/ Save(w) \/ Fail(w) \/ CommitUnheard(w)
  <2>1. status' \in [Resumes -> ResumeStatus]
    BY <1>2 DEF Begin, Save, Fail, CommitUnheard, ResumeStatus
  <2>2. PICK pc \in {"started", "ack", "raised"} : SetPc(w, pc) /\ worker[w].pc # "idle"
    BY <1>2 DEF Begin, Save, Fail, CommitUnheard
  <2>3. UNCHANGED <<requestVars, queue, crashes, dropped, dead, rejected>>
        /\ unheard' \subseteq Resumes
    BY <1>2 DEF Begin, Save, Fail, CommitUnheard
  <2>4. worker' \in [Workers -> Slots] /\ WorkersHold'
    BY <2>2, PcTyped DEF Slots
  <2> QED
    BY <2>1, <2>3, <2>4 DEF Slots
<1>3. CASE \/ NotFound(w) \/ Download(w) \/ ParseFails(w) \/ RowGone(w) \/ DbError(w)
           \/ DeadLetter(w) \/ RetryRefused(w)
  <2>1. PICK pc \in {"ack", "parsing", "failing", "raised"} :
          SetPc(w, pc) /\ worker[w].pc # "idle"
    BY <1>3 DEF NotFound, Download, ParseFails, RowGone, DbError, DeadLetter, RetryRefused
  <2>2. /\ dropped' \subseteq Resumes /\ dead' \subseteq Resumes
        /\ rejected' \subseteq Resumes /\ unheard' \subseteq Resumes
    <3>1. CASE NotFound(w)
      BY <3>1 DEF NotFound
    <3>2. CASE DeadLetter(w) \/ RetryRefused(w)
      BY <3>2 DEF DeadLetter, RetryRefused
    <3>3. CASE Download(w) \/ ParseFails(w) \/ RowGone(w) \/ DbError(w)
      BY <3>3 DEF Download, ParseFails, RowGone, DbError, CommitUnheard, RetryRefused, Steady
    <3> QED
      BY <1>3, <3>1, <3>2, <3>3
  <2>3. UNCHANGED <<requestVars, status, queue, crashes>>
    BY <1>3 DEF NotFound, Download, ParseFails, RowGone, DbError, DeadLetter, RetryRefused
  <2>4. worker' \in [Workers -> Slots] /\ WorkersHold'
    BY <2>1, PcTyped DEF Slots
  <2> QED
    BY <2>2, <2>3, <2>4 DEF Slots
<1>4. CASE Retry(w)
  <2>1. worker[w].job \in Resumes /\ NextTry(worker[w].tries) \in Tries
    BY <1>4 DEF Retry, NextTry, Tries
  <2>2. queue' \in [Resumes -> [Tries -> Nat]]
    BY <1>4, <2>1, SendLemma DEF Retry
  <2>3. worker' \in [Workers -> Slots] /\ WorkersHold'
    BY <1>4, PcTyped DEF Retry, Slots
  <2> QED
    BY <1>4, <2>2, <2>3 DEF Retry, Slots
<1>5. CASE Ack(w)
  BY <1>5 DEF Ack, Tries
<1>6. CASE WorkerLost(w)
  <2>1. queue' \in [Resumes -> [Tries -> Nat]]
    BY <1>6, SendLemma DEF WorkerLost
  <2>2. crashes' \in 0 .. MaxCrashes
    BY <1>6 DEF WorkerLost
  <2>3. /\ worker' = [worker EXCEPT ![w] = IdleWorker] /\ 0 \in Tries
        /\ WorkersHold'
    BY <1>6 DEF WorkerLost, Tries
  <2>4. UNCHANGED <<requestVars, status, dropped, dead, rejected, unheard>>
    BY <1>6 DEF WorkerLost
  <2> QED
    BY <2>1, <2>2, <2>3, <2>4
<1> QED
  BY <1>1, <1>2, <1>3, <1>4, <1>5, <1>6 DEF WorkerAction, WorkerStep, WorkerFault

(* The first state has its types.                                             *)
LEMMA InitTyped ==
  ASSUME Init
  PROVE  Typed
  BY ConstantsAssumption
  DEF Init, Typed, TypeOK, WorkersHold, DeletersHold, IdleWorker, IdleDeleter, Tries,
      ResumeStatus

(* Every step keeps the types.                                                *)
LEMMA StepTyped ==
  ASSUME Typed, [Next]_vars
  PROVE  Typed'
<1>1. CASE \E r \in Resumes : UploadAction(r)
  BY <1>1, UploadsTyped
<1>2. CASE \E d \in Deleters : DeleteAction(d)
  BY <1>2, DeletesTyped
<1>3. CASE \E w \in Workers : WorkerAction(w)
  BY <1>3, WorkersTyped
<1>4. CASE UNCHANGED vars
  BY <1>4 DEF vars, Typed, TypeOK, WorkersHold, DeletersHold
<1> QED
  BY <1>1, <1>2, <1>3, <1>4 DEF Next, Rest, UploadAction, DeleteAction, WorkerAction

(* Every variable keeps its type, in every behaviour and for all constants.   *)
THEOREM TypeCorrect == Spec => []TypeOK
<1>1. Spec => []Typed
  BY InitTyped, StepTyped, PTL DEF Spec
<1>2. Typed => TypeOK
  BY DEF Typed
<1> QED
  BY <1>1, <1>2, PTL

-----------------------------------------------------------------------------
(* A file and its row.  The two invariants stand on how far the request that  *)
(* draws a resume has come: before it is over there is no row and nobody      *)
(* deletes, afterwards no file appears.                                       *)

UploadsFile ==
  \A r \in Resumes : /\ upload[r] = "idle" => ~file[r]
                     /\ upload[r] \in Uploading => file[r]

RowsOver == \A r \in Resumes : RowExists(r) \/ keyed[r] => upload[r] = "over"

DeletesOver ==
  \A d \in Deleters :
    /\ deleter[d].pc # "idle" => upload[deleter[d].resume] = "over"
    /\ deleter[d].pc = "erased" => keyed[deleter[d].resume] /\ ~file[deleter[d].resume]

NoKeyNoFile ==
  \A r \in Resumes : upload[r] = "over" /\ ~keyed[r] /\ file[r] => r \in abandoned

Stages == UploadsFile /\ RowsOver /\ DeletesOver /\ NoKeyNoFile

FilesInv == Typed /\ Stages /\ RowHasFile /\ FileHasRow

(* Workers touch no file, no key and no request, and neither create nor       *)
(* remove a row.                                                              *)
LEMMA WorkersKeepRows ==
  ASSUME Typed, NEW w \in Workers, WorkerAction(w)
  PROVE  /\ UNCHANGED requestVars
         /\ \A r \in Resumes : RowExists(r)' <=> RowExists(r)
<1> USE DEF Typed, TypeOK, WorkersHold, RowExists
<1>1. CASE Begin(w) \/ Save(w) \/ Fail(w) \/ CommitUnheard(w)
  <2>1. UNCHANGED requestVars
    BY <1>1 DEF Begin, Save, Fail, CommitUnheard
  <2>2. PICK s \in ResumeStatus \ {"absent"} :
          status' = [status EXCEPT ![worker[w].job] = s]
    BY <1>1 DEF Begin, Save, Fail, CommitUnheard, ResumeStatus
  <2>3. RowExists(worker[w].job) /\ worker[w].job \in Resumes
    BY <1>1 DEF Begin, Save, Fail, CommitUnheard
  <2> QED
    BY <2>1, <2>2, <2>3
<1>2. CASE ~(Begin(w) \/ Save(w) \/ Fail(w) \/ CommitUnheard(w))
  BY <1>2 DEF WorkerAction, WorkerStep, Take, NotFound, Download, ParseFails, RowGone,
     Retry, DeadLetter, Ack, DbError, CommitUnheard, RetryRefused, WorkerLost,
     WorkerFault
<1> QED
  BY <1>1, <1>2

(* An upload or a build goes through its stages: no row before the end, the   *)
(* file from the put on.                                                      *)
LEMMA UploadsKeepFiles ==
  ASSUME FilesInv, Typed', NEW u \in Resumes, UploadAction(u)
  PROVE  FilesInv'
<1> USE DEF FilesInv, Stages, UploadsFile, RowsOver, DeletesOver, NoKeyNoFile, RowHasFile,
            FileHasRow, Typed, TypeOK, DeletersHold, RowExists, Uploading, SetUpload,
            rowVars, ghostVars
<1>1. CASE Put(u)
  BY <1>1 DEF Put
<1>2. CASE PutFails(u)
  <2>1. CASE UNCHANGED <<file, abandoned>>
    BY <1>2, <2>1 DEF PutFails, AfterPutFailure
  <2>2. CASE file' = [file EXCEPT ![u] = TRUE] /\ abandoned' = abandoned \cup {u}
    BY <1>2, <2>2 DEF PutFails, AfterPutFailure
  <2> QED
    BY <1>2, <2>1, <2>2 DEF PutFails
<1>3. CASE Insert(u) \/ ParseInline(u) \/ Enqueue(u) \/ EnqueueFails(u)
  BY <1>3 DEF Insert, ParseInline, Enqueue, EnqueueFails
<1>4. CASE Abort(u) \/ ResponseFails(u)
  BY <1>4 DEF Abort, ResponseFails, GiveUp
<1>5. CASE Commit(u)
  BY <1>5 DEF Commit, InitialStatus
<1>6. CASE Build(u)
  BY <1>6 DEF Build
<1> QED
  BY <1>1, <1>2, <1>3, <1>4, <1>5, <1>6 DEF UploadAction, UploadStep

(* A delete removes the file before the row.                                  *)
LEMMA DeletesKeepFiles ==
  ASSUME FilesInv, Typed', NEW d \in Deleters, DeleteAction(d)
  PROVE  FilesInv'
<1> USE DEF FilesInv, Stages, UploadsFile, RowsOver, DeletesOver, NoKeyNoFile, RowHasFile,
            FileHasRow, Typed, TypeOK, DeletersHold, RowExists, Uploading, IdleDeleter,
            rowVars, ghostVars
<1>1. CASE Load(d)
  BY <1>1 DEF Load
<1>2. CASE Erase(d)
  BY <1>2 DEF Erase
<1>3. CASE EraseFails(d)
  BY <1>3 DEF EraseFails, AfterEraseFailure
<1>4. CASE DeleteCommit(d)
  BY <1>4 DEF DeleteCommit, FileDone
<1>5. CASE DeleteFails(d)
  BY <1>5 DEF DeleteFails, FileDone
<1> QED
  BY <1>1, <1>2, <1>3, <1>4, <1>5 DEF DeleteAction, DeleteStep

(* Every step keeps the stages, and files and rows together.                  *)
LEMMA StepFiles ==
  ASSUME FilesInv, [Next]_vars
  PROVE  FilesInv'
<1>1. Typed'
  BY StepTyped DEF FilesInv
<1>2. CASE \E u \in Resumes : UploadAction(u)
  BY <1>1, <1>2, UploadsKeepFiles
<1>3. CASE \E d \in Deleters : DeleteAction(d)
  BY <1>1, <1>3, DeletesKeepFiles
<1>4. CASE \E w \in Workers : WorkerAction(w)
  <2>1. UNCHANGED requestVars /\ \A r \in Resumes : RowExists(r)' <=> RowExists(r)
    BY <1>4, WorkersKeepRows DEF FilesInv
  <2> QED
    BY <1>1, <2>1
    DEF FilesInv, Stages, UploadsFile, RowsOver, DeletesOver, NoKeyNoFile, RowHasFile,
        FileHasRow, requestVars, ghostVars
<1>5. CASE UNCHANGED vars
  BY <1>1, <1>5
  DEF FilesInv, Stages, UploadsFile, RowsOver, DeletesOver, NoKeyNoFile, RowHasFile,
      FileHasRow, RowExists, vars
<1> QED
  BY <1>2, <1>3, <1>4, <1>5 DEF Next, Rest, UploadAction, DeleteAction, WorkerAction

(* Initially there is neither a file nor a row.                               *)
LEMMA InitFiles ==
  ASSUME Init
  PROVE  FilesInv
  BY InitTyped
  DEF Init, FilesInv, Stages, UploadsFile, RowsOver, DeletesOver, NoKeyNoFile, RowHasFile,
      FileHasRow, RowExists, Uploading, IdleDeleter

(* A row that names a file has it, or a delete is or was interrupted between  *)
(* the two removals.                                                          *)
THEOREM RowHasFileAlways == Spec => []RowHasFile
<1>1. Spec => []FilesInv
  BY InitFiles, StepFiles, PTL DEF Spec
<1>2. FilesInv => RowHasFile
  BY DEF FilesInv
<1> QED
  BY <1>1, <1>2, PTL

(* A file without a row is that of an upload under way or of one that failed: *)
(* no delete leaves one.                                                      *)
THEOREM FileHasRowAlways == Spec => []FileHasRow
<1>1. Spec => []FilesInv
  BY InitFiles, StepFiles, PTL DEF Spec
<1>2. FilesInv => FileHasRow
  BY DEF FilesInv
<1> QED
  BY <1>1, <1>2, PTL

(* A deleted resume does not come back: a worker that was parsing it meanwhile *)
(* updates no row and inserts none.                                            *)
DeletedForGood ==
  [][\A r \in Resumes :
       (upload[r] = "over" /\ status[r] = "absent") => status'[r] = "absent"]_vars

(* A resume whose request is over and that has no row never has one again,    *)
(* whatever workers and deletes still have it in hand.                        *)
THEOREM DeletedForGoodAlways == Spec => DeletedForGood
<1> DEFINE Stays == \A r \in Resumes : (upload[r] = "over" /\ status[r] = "absent")
                                         => status'[r] = "absent"
<1>1. Typed /\ [Next]_vars => [Stays]_vars
  <2> SUFFICES ASSUME Typed, [Next]_vars, NEW r \in Resumes,
                      upload[r] = "over", status[r] = "absent"
               PROVE  status'[r] = "absent"
    OBVIOUS
  <2>1. ASSUME NEW u \in Resumes, UploadAction(u)
        PROVE  status'[r] = "absent"
    BY <2>1 DEF UploadAction, UploadStep, Put, PutFails, Insert, ParseInline, Enqueue,
       EnqueueFails, Abort, ResponseFails, GiveUp, Commit, Build, Typed, TypeOK, rowVars
  <2>2. ASSUME NEW d \in Deleters, DeleteAction(d)
        PROVE  status'[r] = "absent"
    BY <2>2 DEF DeleteAction, DeleteStep, Load, Erase, EraseFails, DeleteCommit,
       DeleteFails, Typed, TypeOK, rowVars
  <2>3. ASSUME NEW w \in Workers, WorkerAction(w)
        PROVE  status'[r] = "absent"
    BY <2>3, WorkersKeepRows DEF RowExists
  <2>4. CASE UNCHANGED vars
    BY <2>4 DEF vars
  <2> QED
    BY <2>1, <2>2, <2>3, <2>4 DEF Next, Rest, UploadAction, DeleteAction, WorkerAction
<1>2. Spec => []Typed
  BY InitTyped, StepTyped, PTL DEF Spec
<1> QED
  BY <1>1, <1>2, PTL DEF Spec, DeletedForGood

-----------------------------------------------------------------------------
(* Why a parse does not come.  The upload that has passed the enqueue         *)
(* promises it before its row exists; the invariant on files says that no     *)
(* worker can save, and so finish with, a resume at that stage.  A resume     *)
(* whose message was refused is in nobody's hands, ever.                      *)

Accounted(r) == Working(r) \/ r \in dropped \cup dead \cup rejected

NotSent(r) ==
  /\ \A k \in Tries : queue[r][k] = 0
  /\ \A w \in Workers : worker[w].pc # "idle" => worker[w].job # r

Unsent(r) == upload[r] \notin {"queued", "over"} \/ r \in refused

NothingUnsent ==
  \A r \in Resumes :
    /\ Unsent(r) => NotSent(r) /\ status[r] # "processing"
    /\ r \in refused => upload[r] \in {"queued", "over"}

Promised == \A r \in Resumes : upload[r] = "queued" => Accounted(r) \/ r \in refused

StallInv == FilesInv /\ NothingUnsent /\ Promised /\ StallsHaveCauses

\* A resume that was not sent is not sent by a worker, and none begins with it.
LEMMA WorkersSendTheirs ==
  ASSUME Typed, NEW r \in Resumes, NotSent(r), NEW w \in Workers, WorkerAction(w)
  PROVE  NotSent(r)' /\ status'[r] = status[r]
<1>1. /\ queue \in [Resumes -> [Tries -> Nat]] /\ worker \in [Workers -> Slots]
      /\ status \in [Resumes -> ResumeStatus]
      /\ worker[w].pc # "idle" =>
           worker[w].job \in Resumes /\ worker[w].tries \in Tries /\ worker[w].job # r
  BY DEF Typed, TypeOK, WorkersHold, Slots, NotSent
<1>2. CASE Take(w)
  <2>1. PICK o \in Resumes, k \in Tries :
          /\ queue[o][k] > 0
          /\ queue' = [queue EXCEPT ![o][k] = @ - 1]
          /\ worker' = [worker EXCEPT ![w] = [pc |-> "start", job |-> o, tries |-> k]]
    BY <1>2 DEF Take
  <2>2. o # r
    BY <2>1 DEF NotSent
  <2>3. /\ queue'[r] = queue[r] /\ UNCHANGED status
        /\ \A v \in Workers : worker'[v].job = r => worker'[v] = worker[v]
    BY <1>1, <1>2, <2>1, <2>2 DEF Take
  <2> QED
    BY <2>3 DEF NotSent
<1>3. CASE Retry(w) \/ WorkerLost(w)
  <2>1. queue'[r] = queue[r] /\ UNCHANGED status
    BY <1>1, <1>3 DEF Retry, WorkerLost, Send
  <2>2. \A v \in Workers : worker'[v].pc # "idle" =>
          worker[v].pc # "idle" /\ worker'[v].job = worker[v].job
    <3>1. CASE Retry(w)
      BY <1>1, <3>1 DEF Retry, SetPc, Slots
    <3>2. CASE WorkerLost(w)
      BY <1>1, <3>2 DEF WorkerLost, IdleWorker
    <3> QED
      BY <1>3, <3>1, <3>2
  <2> QED
    BY <2>1, <2>2 DEF NotSent
<1>4. CASE ~Take(w) /\ ~Retry(w) /\ ~WorkerLost(w)
  <2>1. queue' = queue
    BY <1>4 DEF WorkerAction, WorkerStep, NotFound, Begin, Download, ParseFails, Save, Fail,
       RowGone, DeadLetter, Ack, DbError, CommitUnheard, RetryRefused, WorkerFault
  <2>2. \A v \in Workers : worker'[v].pc # "idle" =>
          worker[v].pc # "idle" /\ worker'[v].job = worker[v].job
    <3>1. CASE Ack(w)
      BY <1>1, <3>1 DEF Ack, IdleWorker
    <3>2. CASE ~Ack(w)
      <4>1. PICK pc \in Busy \cup {"ack"} : SetPc(w, pc) /\ worker[w].pc # "idle"
        BY <1>4, <3>2 DEF WorkerAction, WorkerStep, NotFound, Begin, Download, ParseFails, Save,
           Fail, RowGone, DeadLetter, DbError, CommitUnheard, RetryRefused, WorkerFault, Busy
      <4> QED
        BY <1>1, <4>1 DEF SetPc, Slots
    <3> QED
      BY <3>1, <3>2
  <2>3. status'[r] = status[r]
    <3>1. CASE Begin(w) \/ Save(w) \/ Fail(w) \/ CommitUnheard(w)
      BY <1>1, <3>1 DEF Begin, Save, Fail, CommitUnheard
    <3>2. CASE ~(Begin(w) \/ Save(w) \/ Fail(w) \/ CommitUnheard(w))
      BY <1>4, <3>2 DEF WorkerAction, WorkerStep, NotFound, Download, ParseFails, RowGone,
         DeadLetter, Ack, DbError, RetryRefused, WorkerFault
    <3> QED
      BY <3>1, <3>2
  <2> QED
    BY <2>1, <2>2, <2>3 DEF NotSent
<1> QED
  BY <1>2, <1>3, <1>4

(* Only the enqueue of its own upload sends a resume, and a refused message   *)
(* is not sent again.                                                         *)
LEMMA StepUnsent ==
  ASSUME FilesInv, NothingUnsent, [Next]_vars
  PROVE  NothingUnsent'
<1> USE DEF NothingUnsent, Unsent
<1>1. /\ upload \in [Resumes -> Uploading \cup {"idle", "over"}]
      /\ status \in [Resumes -> ResumeStatus] /\ queue \in [Resumes -> [Tries -> Nat]]
      /\ refused \subseteq Resumes
      /\ \A r \in Resumes : upload[r] # "over" => status[r] = "absent"
  BY DEF FilesInv, Typed, TypeOK, Stages, RowsOver, RowExists
<1>2. ASSUME NEW u \in Resumes, UploadAction(u)
      PROVE  NothingUnsent'
  <2>1. \A r \in Resumes : r # u => /\ upload'[r] = upload[r] /\ status'[r] = status[r]
                                    /\ queue'[r] = queue[r] /\ (r \in refused' <=> r \in refused)
    BY <1>1, <1>2 DEF UploadAction, UploadStep, Put, PutFails, Insert, ParseInline, Enqueue,
       EnqueueFails, Commit, Abort, ResponseFails, GiveUp, Build, SetUpload, Send, rowVars
  <2>2. UNCHANGED worker
    BY <1>2 DEF UploadAction, UploadStep, Put, PutFails, Insert, ParseInline, Enqueue,
       EnqueueFails, Commit, Abort, ResponseFails, GiveUp, Build, taskVars
  <2>3. Unsent(u)' => Unsent(u) /\ NotSent(u) /\ queue'[u] = queue[u] /\ status'[u] # "processing"
    <3>1. CASE Enqueue(u)
      BY <1>1, <3>1 DEF Enqueue, SetUpload
    <3>2. CASE EnqueueFails(u)
      BY <1>1, <3>2 DEF EnqueueFails, rowVars
    <3>3. CASE Commit(u) \/ Build(u)
      BY <1>1, <3>3 DEF Commit, Build, InitialStatus, SetUpload
    <3>4. CASE Put(u) \/ PutFails(u) \/ Insert(u) \/ ParseInline(u) \/ Abort(u) \/ ResponseFails(u)
      BY <1>1, <3>4 DEF Put, PutFails, Insert, ParseInline, Abort, ResponseFails, GiveUp, SetUpload,
         rowVars, AfterPutFailure
    <3> QED
      BY <1>2, <3>1, <3>2, <3>3, <3>4 DEF UploadAction, UploadStep
  <2>4. u \in refused' => upload'[u] \in {"queued", "over"}
    <3>1. CASE EnqueueFails(u)
      BY <1>1, <3>1 DEF EnqueueFails, SetUpload
    <3>2. CASE ~EnqueueFails(u)
      BY <1>1, <1>2, <3>2 DEF UploadAction, UploadStep, Put, PutFails, Insert, ParseInline,
         Enqueue, Commit, Abort, ResponseFails, GiveUp, Build, SetUpload, AfterPutFailure
    <3> QED
      BY <3>1, <3>2
  <2>5. \A r \in Resumes : Unsent(r)' => NotSent(r)' /\ status'[r] # "processing"
    BY <2>1, <2>2, <2>3 DEF NotSent
  <2> QED
    BY <2>1, <2>4, <2>5
<1>3. ASSUME NEW d \in Deleters, DeleteAction(d)
      PROVE  NothingUnsent'
  <2>1. /\ UNCHANGED <<queue, worker, upload, refused>>
        /\ \A r \in Resumes : status'[r] \in {status[r], "absent"}
    BY <1>1, <1>3 DEF DeleteAction, DeleteStep, Load, Erase, EraseFails, DeleteCommit,
       DeleteFails, taskVars, rowVars
  <2> QED
    BY <2>1 DEF NotSent
<1>4. ASSUME NEW w \in Workers, WorkerAction(w)
      PROVE  NothingUnsent'
  <2>1. UNCHANGED <<upload, refused>>
    BY <1>4, WorkersKeepRows DEF FilesInv, requestVars
  <2> QED
    BY <1>4, <2>1, WorkersSendTheirs DEF FilesInv
<1>5. CASE UNCHANGED vars
  BY <1>5 DEF vars, NotSent
<1> QED
  BY <1>2, <1>3, <1>4, <1>5 DEF Next, Rest, UploadAction, DeleteAction, WorkerAction

(* Whoever is accounted for stays so, except that a worker may be done: then  *)
(* the resume has just been parsed.                                           *)
LEMMA WorkIsNotLost ==
  ASSUME Typed, Typed', [Next]_vars, NEW r \in Resumes, Accounted(r)
  PROVE  Accounted(r)' \/ (RowExists(r) /\ status'[r] = "done")
<1> DEFINE Goal == Accounted(r)' \/ (RowExists(r) /\ status'[r] = "done")
<1> USE DEF Accounted, Working, Busy
<1>1. CASE UNCHANGED <<queue, worker, dropped, dead, rejected>>
  BY <1>1
<1>2. ASSUME NEW u \in Resumes, Enqueue(u)
      PROVE  Goal
  <2>1. 0 \in Tries
    BY ConstantsAssumption DEF Tries
  <2>2. \A k \in Tries : queue'[r][k] >= queue[r][k]
    BY <1>2, <2>1, SendLemma DEF Enqueue, Typed
  <2> QED
    BY <1>2, <2>2 DEF Enqueue, taskVars, Typed, TypeOK
<1>3. ASSUME NEW u \in Resumes, EnqueueFails(u)
      PROVE  Goal
  BY <1>3 DEF EnqueueFails, taskVars
<1>4. ASSUME NEW w \in Workers, Take(w)
      PROVE  Goal
  BY <1>4 DEF Take, Typed, TypeOK, logVars
<1>5. ASSUME NEW w \in Workers, NotFound(w)
      PROVE  Goal
  BY <1>5 DEF NotFound, SetPc, Typed, TypeOK, logVars
<1>6. ASSUME NEW w \in Workers,
             \/ Begin(w) \/ Download(w) \/ ParseFails(w) \/ Fail(w) \/ RowGone(w) \/ DbError(w)
             \/ CommitUnheard(w)
      PROVE  Goal
  <2>1. /\ worker[w].pc \in Busy
        /\ \E pc \in Busy : SetPc(w, pc)
        /\ UNCHANGED <<queue, dropped, dead, rejected>>
    BY <1>6 DEF Begin, Download, ParseFails, Fail, RowGone, DbError, CommitUnheard, logVars
  <2>2. \A v \in Workers : worker[v].pc \in Busy =>
          worker'[v].pc \in Busy /\ worker'[v].job = worker[v].job
    BY <2>1 DEF SetPc, Typed, TypeOK
  <2> QED
    BY <2>1, <2>2
<1>7. ASSUME NEW w \in Workers, Save(w)
      PROVE  Goal
  BY <1>7 DEF Save, SetPc, Typed, TypeOK, logVars
<1>8. ASSUME NEW w \in Workers, Retry(w)
      PROVE  Goal
  <2> DEFINE j == worker[w].job
             k == worker[w].tries + 1
  <2>1. j \in Resumes /\ k \in Tries
    <3>1. worker[w].tries \in 0 .. MaxRetries /\ worker[w].tries < MaxRetries
      BY <1>8 DEF Retry, Typed, TypeOK, Tries
    <3> QED
      BY <1>8, <3>1, ConstantsAssumption DEF Retry, Typed, WorkersHold, Tries
  <2>2. Send(j, k)
    BY <1>8 DEF Retry, NextTry
  <2>3. /\ queue'[j][k] = queue[j][k] + 1
        /\ \A i \in Tries : queue'[r][i] >= queue[r][i]
    BY <2>1, <2>2, SendLemma DEF Typed
  <2> QED
    BY <1>8, <2>1, <2>3 DEF Retry, SetPc, Typed, TypeOK, logVars
<1>9. ASSUME NEW w \in Workers, DeadLetter(w) \/ RetryRefused(w)
      PROVE  Goal
  <2>1. CASE DeadLetter(w)
    BY <2>1 DEF DeadLetter, SetPc, Typed, TypeOK
  <2>2. CASE RetryRefused(w)
    BY <2>2 DEF RetryRefused, SetPc, Typed, TypeOK
  <2> QED
    BY <1>9, <2>1, <2>2
<1>10. ASSUME NEW w \in Workers, Ack(w)
       PROVE  Goal
  BY <1>10 DEF Ack, IdleWorker, Typed, TypeOK, logVars
<1>11. ASSUME NEW w \in Workers, WorkerLost(w)
       PROVE  Goal
  <2> DEFINE j == worker[w].job
             k == worker[w].tries
  <2>1. j \in Resumes /\ k \in Tries
    BY <1>11 DEF WorkerLost, Typed, TypeOK, WorkersHold
  <2>2. /\ queue'[j][k] = queue[j][k] + 1
        /\ \A i \in Tries : queue'[r][i] >= queue[r][i]
    BY <1>11, <2>1, SendLemma DEF WorkerLost, Typed
  <2> QED
    BY <1>11, <2>1, <2>2 DEF WorkerLost, IdleWorker, Typed, TypeOK, logVars
<1>12. ASSUME \/ \E u \in Resumes : \/ Put(u) \/ PutFails(u) \/ Insert(u) \/ ParseInline(u)
                                     \/ Commit(u) \/ Abort(u) \/ ResponseFails(u) \/ Build(u)
              \/ \E d \in Deleters : DeleteAction(d)
              \/ UNCHANGED vars
       PROVE  UNCHANGED <<queue, worker, dropped, dead, rejected>>
  BY <1>12 DEF Put, PutFails, Insert, ParseInline, Commit, Abort, ResponseFails, GiveUp, Build,
     DeleteAction,
     DeleteStep, Load, Erase, EraseFails, DeleteCommit, DeleteFails, vars, taskVars
<1> QED
  BY <1>1, <1>2, <1>3, <1>4, <1>5, <1>6, <1>7, <1>8, <1>9, <1>10, <1>11, <1>12
  DEF Next, UploadStep, WorkerStep, WorkerFault, DeleteAction, Rest

(* A row comes to "pending" by the commit of its upload and to "processing"   *)
(* by the worker that begins with it, whether or not it hears so.             *)
LEMMA StallBegins ==
  ASSUME Typed, [Next]_vars, NEW r \in Resumes,
         status'[r] \in {"pending", "processing"}, status'[r] # status[r]
  PROVE  \/ Commit(r) /\ upload[r] = "queued"
         \/ \E w \in Workers : (Begin(w) \/ CommitUnheard(w)) /\ worker[w].job = r
<1> USE DEF Typed, TypeOK
<1>1. ASSUME NEW u \in Resumes, UploadAction(u)
      PROVE  Commit(r) /\ upload[r] = "queued"
  <2>1. CASE Commit(u)
    <3>1. u = r
      BY <2>1 DEF Commit
    <3> QED
      BY <2>1, <3>1 DEF Commit
  <2>2. CASE ~Commit(u)
    BY <1>1, <2>2 DEF UploadAction, UploadStep, Put, PutFails, Insert, ParseInline,
       Enqueue, EnqueueFails, Abort, ResponseFails, GiveUp, Build, rowVars
  <2> QED
    BY <2>1, <2>2
<1>2. ASSUME NEW d \in Deleters, DeleteAction(d)
      PROVE  FALSE
  BY <1>2 DEF DeleteAction, DeleteStep, Load, Erase, EraseFails, DeleteCommit,
     DeleteFails, rowVars
<1>3. ASSUME NEW w \in Workers, WorkerAction(w)
      PROVE  (Begin(w) \/ CommitUnheard(w)) /\ worker[w].job = r
  <2>1. CASE Begin(w) \/ CommitUnheard(w)
    BY <2>1 DEF Begin, CommitUnheard
  <2>2. CASE Save(w) \/ Fail(w)
    BY <2>2 DEF Save, Fail
  <2>3. CASE ~(Begin(w) \/ Save(w) \/ Fail(w) \/ CommitUnheard(w))
    BY <1>3, <2>3 DEF WorkerAction, WorkerStep, Take, NotFound, Download, ParseFails,
       RowGone, Retry, DeadLetter, Ack, DbError, CommitUnheard, RetryRefused, WorkerLost,
     WorkerFault
  <2> QED
    BY <2>1, <2>2, <2>3
<1>4. CASE UNCHANGED vars
  BY <1>4 DEF vars
<1> QED
  BY <1>1, <1>2, <1>3, <1>4 DEF Next, Rest, UploadAction, DeleteAction, WorkerAction

\* A refused message is not forgotten.
LEMMA RefusedGrows ==
  ASSUME Typed, [Next]_vars
  PROVE  refused \subseteq refused'
<1>1. ASSUME NEW u \in Resumes, UploadAction(u)
      PROVE  refused \subseteq refused'
  BY <1>1 DEF UploadAction, UploadStep, Put, PutFails, Insert, ParseInline, Enqueue,
     EnqueueFails, Commit, Abort, ResponseFails, GiveUp, Build
<1>2. ASSUME NEW d \in Deleters, DeleteAction(d)
      PROVE  UNCHANGED refused
  BY <1>2 DEF DeleteAction, DeleteStep, Load, Erase, EraseFails, DeleteCommit, DeleteFails
<1>3. ASSUME NEW w \in Workers, WorkerAction(w)
      PROVE  UNCHANGED refused
  BY <1>3, WorkersKeepRows DEF requestVars
<1> QED
  BY <1>1, <1>2, <1>3 DEF Next, Rest, vars, UploadAction, DeleteAction, WorkerAction

(* An upload that has passed the enqueue is accounted for until it commits,   *)
(* unless its message was refused.                                            *)
LEMMA StepPromised ==
  ASSUME FilesInv, Typed', Promised, [Next]_vars
  PROVE  Promised'
<1> SUFFICES ASSUME NEW r \in Resumes, upload'[r] = "queued"
             PROVE  Accounted(r)' \/ r \in refused'
  BY DEF Promised
<1> USE DEF FilesInv, Typed, TypeOK
<1>1. CASE upload[r] = "queued"
  <2>1. (Accounted(r) \/ r \in refused) /\ ~RowExists(r)
    BY <1>1 DEF Promised, Stages, RowsOver
  <2> QED
    BY <2>1, WorkIsNotLost, RefusedGrows
<1>2. CASE upload[r] # "queued"
  <2>1. Enqueue(r) \/ EnqueueFails(r)
    <3>1. ASSUME NEW u \in Resumes, UploadAction(u)
          PROVE  Enqueue(r) \/ EnqueueFails(r)
      <4>1. CASE Enqueue(u) \/ EnqueueFails(u)
        <5>1. u = r
          BY <1>2, <4>1 DEF Enqueue, EnqueueFails, SetUpload
        <5> QED
          BY <4>1, <5>1
      <4>2. CASE ParseInline(u)
        BY <1>2, <4>2 DEF ParseInline, SetUpload
      <4>3. CASE Put(u) \/ PutFails(u) \/ Insert(u) \/ Commit(u) \/ Abort(u) \/ ResponseFails(u) \/ Build(u)
        BY <1>2, <4>3 DEF Put, PutFails, Insert, Commit, Abort, ResponseFails, GiveUp, Build,
           SetUpload,
           AfterPutFailure
      <4> QED
        BY <3>1, <4>1, <4>2, <4>3 DEF UploadAction, UploadStep
    <3>2. ASSUME NEW d \in Deleters, DeleteAction(d)
          PROVE  UNCHANGED upload
      BY <3>2 DEF DeleteAction, DeleteStep, Load, Erase, EraseFails, DeleteCommit, DeleteFails
    <3>3. ASSUME NEW w \in Workers, WorkerAction(w)
          PROVE  UNCHANGED upload
      BY <3>3, WorkersKeepRows DEF requestVars
    <3> QED
      BY <1>2, <3>1, <3>2, <3>3
      DEF Next, Rest, vars, UploadAction, DeleteAction, WorkerAction
  <2>2. CASE Enqueue(r)
    <3>1. 0 \in Tries
      BY ConstantsAssumption DEF Tries
    <3>2. Send(r, 0)
      BY <2>2 DEF Enqueue
    <3>3. queue'[r][0] = queue[r][0] + 1
      BY <3>1, <3>2, SendLemma
    <3>4. queue'[r][0] > 0
      BY <3>1, <3>3
    <3> QED
      BY <3>1, <3>4 DEF Accounted, Working
  <2>3. CASE EnqueueFails(r)
    BY <2>3 DEF EnqueueFails
  <2> QED
    BY <2>1, <2>2, <2>3
<1> QED
  BY <1>1, <1>2

(* No step leaves a resume unparsed with nobody to work on it and no cause.   *)
LEMMA StepStalls ==
  ASSUME StallInv, Typed', NothingUnsent', [Next]_vars
  PROVE  StallsHaveCauses'
<1> SUFFICES ASSUME NEW r \in Resumes, status'[r] \in {"pending", "processing"}
             PROVE  Accounted(r)' \/ (status'[r] = "pending" /\ r \in refused')
  BY DEF StallsHaveCauses, Accounted
<1> USE DEF StallInv, FilesInv
<1>0. r \in refused => status'[r] = "pending" /\ r \in refused'
  <2>1. r \in refused => r \in refused'
    BY RefusedGrows
  <2> QED
    BY <2>1 DEF NothingUnsent, Unsent
<1>1. CASE status'[r] = status[r]
  <2>1. Accounted(r) \/ r \in refused
    BY <1>1 DEF StallsHaveCauses, Accounted
  <2> QED
    BY <1>0, <2>1, WorkIsNotLost
<1>2. CASE Commit(r) /\ upload[r] = "queued"
  <2>1. Accounted(r) \/ r \in refused
    BY <1>2 DEF Promised
  <2> QED
    BY <1>0, <2>1, WorkIsNotLost
<1>3. ASSUME NEW w \in Workers, Begin(w) \/ CommitUnheard(w), worker[w].job = r
      PROVE  Accounted(r)'
  BY <1>3 DEF Begin, CommitUnheard, SetPc, Accounted, Working, Busy, Typed, TypeOK
<1> QED
  BY <1>1, <1>2, <1>3, StallBegins

(* A resume that shows "pending" or "processing" has a parse on its way, or a *)
(* recorded cause why it has none, or waits as "pending" for a message that   *)
(* the broker refused without a line in the log.                              *)
THEOREM StallsHaveCausesAlways == Spec => []StallsHaveCauses
<1>1. Init => StallInv
  <2> SUFFICES ASSUME Init PROVE StallInv
    OBVIOUS
  <2>1. NothingUnsent
    BY DEF Init, NothingUnsent, NotSent, IdleWorker
  <2> QED
    BY <2>1, InitFiles DEF Init, StallInv, Promised, StallsHaveCauses
<1>2. StallInv /\ [Next]_vars => StallInv'
  BY StepFiles, StepUnsent, StepPromised, StepStalls DEF StallInv, FilesInv
<1>3. StallInv => StallsHaveCauses
  BY DEF StallInv
<1> QED
  BY <1>1, <1>2, <1>3, PTL DEF Spec

-----------------------------------------------------------------------------
(* While no worker has been lost, the parse of a resume is in one place only: *)
(* one message in the broker or one worker that is busy with it, and none     *)
(* before its enqueue or once the resume is parsed.                           *)
OnePlace(r) ==
  /\ \A k \in Tries : queue[r][k] <= 1
  /\ \A j, k \in Tries : queue[r][j] > 0 /\ queue[r][k] > 0 => j = k
  /\ \A v, w \in Workers :
       worker[v].pc \in Busy /\ worker[w].pc \in Busy /\ worker[v].job = r /\ worker[w].job = r
         => v = w
  /\ \A k \in Tries, w \in Workers :
       ~(queue[r][k] > 0 /\ worker[w].pc \in Busy /\ worker[w].job = r)

Solo(r) ==
  /\ OnePlace(r)
  /\ \/ status[r] = "done" /\ r \notin unheard
     \/ upload[r] \notin {"queued", "over"}
     => ~Working(r)

SoloInv == crashes = 0 => \A r \in Resumes : Solo(r)

\* What the broker and the workers hold of r may come to nothing; it never grows.
LEMMA SoloShrinks ==
  ASSUME Typed, Typed', NEW r \in Resumes, OnePlace(r),
         \A k \in Tries : queue'[r][k] <= queue[r][k],
         \A w \in Workers :
           worker'[w].pc \in Busy /\ worker'[w].job = r => worker[w].pc \in Busy /\ worker[w].job = r
  PROVE  OnePlace(r)' /\ (~Working(r) => ~Working(r)')
<1>1. \A k \in Tries : queue[r][k] \in Nat /\ queue'[r][k] \in Nat
  BY DEF Typed, TypeOK
<1>2. OnePlace(r)'
  BY <1>1 DEF OnePlace
<1>3. ~Working(r) => ~Working(r)'
  BY <1>1 DEF Working
<1> QED
  BY <1>2, <1>3

\* The steps of a worker that is not lost: OnePlace stays, and nobody starts to
\* work on a resume nobody worked on.
LEMMA SoloWorkers ==
  ASSUME Typed, Typed', NEW r \in Resumes, OnePlace(r),
         NEW w \in Workers, Steady(w)
  PROVE  OnePlace(r)' /\ (~Working(r) => ~Working(r)')
<1>1. /\ queue \in [Resumes -> [Tries -> Nat]] /\ worker \in [Workers -> Slots]
      /\ \A k \in Tries : queue[r][k] \in Nat
  BY DEF Typed, TypeOK, Slots
<1>2. CASE Take(w)
  <2>1. PICK o \in Resumes, k \in Tries :
          /\ queue[o][k] > 0
          /\ queue' = [queue EXCEPT ![o][k] = @ - 1]
          /\ worker' = [worker EXCEPT ![w] = [pc |-> "start", job |-> o, tries |-> k]]
    BY <1>2 DEF Take
  <2>2. CASE o # r
    <3>1. queue'[r] = queue[r]
      BY <1>1, <2>1, <2>2
    <3>2. \A v \in Workers : worker'[v].job = r =>
            worker'[v].pc = worker[v].pc /\ worker'[v].job = worker[v].job
      BY <1>1, <2>1, <2>2
    <3> QED
      BY <1>1, <3>1, <3>2, SoloShrinks
  <2>3. CASE o = r
    <3>1. \A v \in Workers : worker'[v].pc \in Busy /\ worker'[v].job = r => v = w
      BY <1>1, <2>1, <2>3 DEF OnePlace
    <3>2. \A j \in Tries : j # k => queue'[r][j] = queue[r][j]
      BY <1>1, <2>1, <2>3
    <3>3. queue'[r][k] = queue[r][k] - 1 /\ queue[r][k] \in Nat
      BY <1>1, <2>1, <2>3
    <3>4. \A j \in Tries : queue'[r][j] = 0
      BY <1>1, <2>1, <2>3, <3>2, <3>3 DEF OnePlace
    <3> QED
      BY <2>1, <2>3, <3>1, <3>4 DEF OnePlace, Working
  <2> QED
    BY <2>2, <2>3
<1>3. CASE Retry(w)
  <2>1. PICK o \in Resumes, k \in Tries :
          /\ o = worker[w].job /\ worker[w].pc = "raised" /\ Send(o, k) /\ SetPc(w, "ack")
    BY <1>1, <1>3, ConstantsAssumption DEF Retry, NextTry, Slots, Tries, Typed, WorkersHold
  <2>2. \A v \in Workers :
          worker'[v].job = worker[v].job /\ (worker'[v].pc \in Busy => v # w /\ worker[v].pc \in Busy)
    BY <1>1, <2>1 DEF SetPc, Busy, Slots
  <2>3. CASE o = r
    <3>0. worker[w].pc \in Busy /\ worker[w].job = r
      BY <2>1, <2>3 DEF Busy
    <3>1. \A j \in Tries : queue[r][j] = 0
      BY <1>1, <3>0 DEF OnePlace
    <3>2. ASSUME NEW v \in Workers, worker'[v].pc \in Busy, worker'[v].job = r
          PROVE  FALSE
      <4>1. v # w /\ worker[v].pc \in Busy /\ worker[v].job = r
        BY <2>2, <3>2
      <4> QED
        BY <3>0, <4>1 DEF OnePlace
    <3>3. \A j \in Tries : queue'[r][j] = IF j = k THEN 1 ELSE 0
      BY <1>1, <2>1, <2>3, <3>1 DEF Send
    <3>4. OnePlace(r)'
      BY <3>2, <3>3 DEF OnePlace
    <3>5. Working(r)
      BY <3>0 DEF Working
    <3> QED
      BY <3>4, <3>5
  <2>4. CASE o # r
    <3>1. queue'[r] = queue[r]
      BY <1>1, <2>1, <2>4 DEF Send
    <3> QED
      BY <1>1, <2>2, <3>1, SoloShrinks
  <2> QED
    BY <2>3, <2>4
<1>4. CASE ~Take(w) /\ ~Retry(w)
  <2>1. queue' = queue
    BY <1>4 DEF WorkerStep, NotFound, Begin, Download, ParseFails, Save, Fail, RowGone,
       DeadLetter, Ack, DbError, CommitUnheard, RetryRefused, Steady
  <2>2. \A v \in Workers :
          worker'[v].pc \in Busy => worker[v].pc \in Busy /\ worker'[v].job = worker[v].job
    <3>1. CASE Ack(w)
      BY <1>1, <3>1 DEF Ack, IdleWorker, Busy, Slots
    <3>2. CASE ~Ack(w)
      <4>1. PICK pc \in Busy \cup {"ack"} : SetPc(w, pc)
        BY <1>4, <3>2 DEF WorkerStep, NotFound, Begin, Download, ParseFails, Save, Fail, RowGone,
           DeadLetter, DbError, CommitUnheard, RetryRefused, Steady, Busy
      <4>2. worker[w].pc \in Busy
        BY <1>4, <3>2 DEF WorkerStep, NotFound, Begin, Download, ParseFails, Save, Fail, RowGone,
           DeadLetter, DbError, CommitUnheard, RetryRefused, Steady, Busy
      <4> QED
        BY <1>1, <4>1, <4>2 DEF SetPc, Slots
    <3> QED
      BY <3>1, <3>2
  <2> QED
    BY <1>1, <2>1, <2>2, SoloShrinks
<1> QED
  BY <1>2, <1>3, <1>4

\* An unheard commit is not forgotten.
LEMMA UnheardGrows ==
  ASSUME \/ \E u \in Resumes : UploadAction(u)
         \/ \E d \in Deleters : DeleteAction(d)
         \/ \E w \in Workers : Steady(w)
         \/ [Next]_vars
  PROVE  unheard \subseteq unheard'
<1>1. ASSUME NEW u \in Resumes, UploadAction(u)
      PROVE  unheard' = unheard
  BY <1>1 DEF UploadAction, UploadStep, Put, PutFails, Insert, ParseInline, Enqueue,
     EnqueueFails, Commit, Abort, ResponseFails, GiveUp, Build, taskVars
<1>2. ASSUME NEW d \in Deleters, DeleteAction(d)
      PROVE  unheard' = unheard
  BY <1>2 DEF DeleteAction, DeleteStep, Load, Erase, EraseFails, DeleteCommit, DeleteFails,
     taskVars
<1>3. ASSUME NEW w \in Workers, WorkerAction(w) \/ Steady(w)
      PROVE  unheard \subseteq unheard'
  BY <1>3 DEF WorkerAction, WorkerStep, WorkerFault, Steady, Take, NotFound, Begin, Download,
     ParseFails, Save, Fail, RowGone, Retry, DeadLetter, Ack, DbError, CommitUnheard,
     RetryRefused, WorkerLost, logVars
<1>4. CASE UNCHANGED vars
  BY <1>4 DEF vars
<1> QED
  BY <1>1, <1>2, <1>3, <1>4 DEF Next, Rest, UploadAction, DeleteAction, WorkerAction

\* A resume is parsed by a worker that is busy with it, and is not any more.
LEMMA SoloWorkerStep ==
  ASSUME Typed, Typed', NEW r \in Resumes, Solo(r),
         NEW w \in Workers, Steady(w)
  PROVE  Solo(r)'
<1>1. /\ worker \in [Workers -> Slots] /\ status \in [Resumes -> ResumeStatus]
      /\ queue \in [Resumes -> [Tries -> Nat]]
      /\ worker[w].pc # "idle" => worker[w].job \in Resumes
  BY DEF Typed, TypeOK, Slots, WorkersHold
<1>2. OnePlace(r)' /\ (~Working(r) => ~Working(r)')
  BY SoloWorkers DEF Solo
<1>3. UNCHANGED upload
  BY WorkersKeepRows DEF WorkerAction, WorkerFault, Steady, requestVars
<1>4. ASSUME status'[r] = "done", r \notin unheard'
      PROVE  ~Working(r)'
  <2>0. r \notin unheard
    BY <1>4, UnheardGrows
  <2>1. CASE status[r] = "done"
    BY <1>2, <2>0, <2>1 DEF Solo
  <2>2. CASE status[r] # "done"
    <3>1. Save(w) /\ worker[w].job = r
      <4>1. CASE Begin(w) \/ Save(w) \/ Fail(w) \/ CommitUnheard(w)
        BY <1>1, <1>4, <2>2, <4>1 DEF Begin, Save, Fail, CommitUnheard
      <4>2. CASE ~(Begin(w) \/ Save(w) \/ Fail(w) \/ CommitUnheard(w))
        BY <1>4, <2>2, <4>2 DEF WorkerStep, Take, NotFound, Download, ParseFails, RowGone,
           Retry, DeadLetter, Ack, DbError, CommitUnheard, RetryRefused, Steady
      <4> QED
        BY <4>1, <4>2
    <3>2. worker[w].pc \in Busy /\ SetPc(w, "ack") /\ queue' = queue
      BY <3>1 DEF Save, Busy
    <3>3. \A k \in Tries : ~(queue'[r][k] > 0)
      BY <3>1, <3>2 DEF Solo, OnePlace
    <3>4. ASSUME NEW v \in Workers, worker'[v].job = r, worker'[v].pc \in Busy
          PROVE  FALSE
      <4>1. v # w
        BY <1>1, <3>2, <3>4 DEF SetPc, Busy, Slots
      <4>2. worker'[v] = worker[v]
        BY <1>1, <3>2, <4>1 DEF SetPc
      <4> QED
        BY <3>1, <3>2, <3>4, <4>1, <4>2 DEF Solo, OnePlace
    <3> QED
      BY <3>3, <3>4 DEF Working
  <2> QED
    BY <2>1, <2>2
<1> QED
  BY <1>2, <1>3, <1>4 DEF Solo

\* Requests send one message for a resume, before it has a row; a resume that
\* is stored as parsed was never sent.
LEMMA SoloUploadStep ==
  ASSUME FilesInv, NEW r \in Resumes, Solo(r), NEW u \in Resumes, UploadAction(u)
  PROVE  Solo(r)'
<1>1. /\ queue \in [Resumes -> [Tries -> Nat]] /\ status \in [Resumes -> ResumeStatus]
      /\ upload \in [Resumes -> Uploading \cup {"idle", "over"}] /\ 0 \in Tries
      /\ upload[r] # "over" => status[r] = "absent"
  BY ConstantsAssumption
  DEF FilesInv, Typed, TypeOK, Tries, Stages, RowsOver, RowExists
<1>2. UNCHANGED worker
  BY DEF UploadAction, UploadStep, Put, PutFails, Insert, ParseInline, Enqueue, EnqueueFails,
     Commit, Abort, ResponseFails, GiveUp, Build, taskVars
<1>0. unheard \subseteq unheard'
  BY UnheardGrows
<1>3. CASE Enqueue(u) /\ u = r
  <2>1. ~Working(r) /\ status'[r] = "absent" /\ upload'[r] = "queued" /\ Send(r, 0)
    BY <1>1, <1>3 DEF Enqueue, SetUpload, Solo, rowVars
  <2>2. \A j \in Tries : queue'[r][j] = IF j = 0 THEN 1 ELSE 0
    BY <1>1, <2>1 DEF Send, Working
  <2>3. \A v \in Workers : ~(worker'[v].pc \in Busy /\ worker'[v].job = r)
    BY <1>2, <2>1 DEF Working
  <2> QED
    BY <2>1, <2>2, <2>3 DEF Solo, OnePlace
<1>4. CASE ~(Enqueue(u) /\ u = r)
  <2>1. queue'[r] = queue[r]
    BY <1>1, <1>4 DEF UploadAction, UploadStep, Put, PutFails, Insert, ParseInline, Enqueue,
       EnqueueFails, Commit, Abort, ResponseFails, GiveUp, Build, Send
  <2>2. (OnePlace(r)' <=> OnePlace(r)) /\ (Working(r)' <=> Working(r))
    BY <1>2, <2>1 DEF OnePlace, Working
  <2>3. CASE u # r
    <3>1. status'[r] = status[r] /\ upload'[r] = upload[r]
      BY <1>1, <2>3 DEF UploadAction, UploadStep, Put, PutFails, Insert, ParseInline, Enqueue,
         EnqueueFails, Commit, Abort, ResponseFails, GiveUp, Build, SetUpload, rowVars
    <3> QED
      BY <1>0, <2>2, <3>1 DEF Solo
  <2>4. CASE u = r
    <3>1. upload[r] \notin {"queued", "over"} => ~Working(r)
      BY DEF Solo
    <3>2. CASE Commit(r)
      <4>1. status'[r] = "pending"
        BY <1>1, <3>2 DEF Commit, InitialStatus
      <4>2. upload'[r] = "over"
        BY <1>1, <3>2 DEF Commit, SetUpload
      <4> QED
        BY <2>2, <3>1, <4>1, <4>2 DEF Solo
    <3>3. CASE Build(r)
      BY <1>1, <2>2, <3>1, <3>3 DEF Build, SetUpload, Solo
    <3>4. CASE Put(r) \/ PutFails(r) \/ Insert(r) \/ ParseInline(r) \/ EnqueueFails(r) \/ Abort(r) \/ ResponseFails(r)
      <4>1. status'[r] # "done" /\ upload[r] # "over"
        BY <1>1, <3>4 DEF Put, PutFails, Insert, ParseInline, EnqueueFails, Abort, ResponseFails,
           GiveUp, rowVars
      <4>2. upload'[r] \in {"queued", "over"} \/ upload[r] \notin {"queued", "over"}
        BY <1>1, <3>4 DEF Put, PutFails, Insert, ParseInline, EnqueueFails, Abort, ResponseFails,
           GiveUp, SetUpload
      <4> QED
        BY <2>2, <3>1, <4>1, <4>2 DEF Solo
    <3> QED
      BY <1>4, <2>4, <3>2, <3>3, <3>4 DEF UploadAction, UploadStep
  <2> QED
    BY <2>3, <2>4
<1> QED
  BY <1>3, <1>4

\* A delete takes the row only.
LEMMA SoloDeleteStep ==
  ASSUME FilesInv, NEW r \in Resumes, Solo(r), NEW d \in Deleters, DeleteAction(d)
  PROVE  Solo(r)' /\ status'[r] \in {status[r], "absent"}
<1>1. UNCHANGED <<queue, worker, upload>>
  BY DEF DeleteAction, DeleteStep, Load, Erase, EraseFails, DeleteCommit, DeleteFails, taskVars
<1>2. status'[r] \in {status[r], "absent"}
  BY DEF FilesInv, Typed, TypeOK, DeleteAction, DeleteStep, Load, Erase, EraseFails,
     DeleteCommit, DeleteFails, rowVars
<1> QED
  BY <1>1, <1>2, UnheardGrows DEF Solo, OnePlace, Working

\* Only a lost worker is counted.
LEMMA CrashesCounted ==
  ASSUME Typed, [Next]_vars
  PROVE  /\ UNCHANGED crashes \/ \E w \in Workers : WorkerLost(w)
         /\ \A w \in Workers : WorkerLost(w) => crashes' # 0
<1>1. \A w \in Workers : WorkerLost(w) => crashes' # 0
  BY DEF WorkerLost, Typed, TypeOK
<1>2. ASSUME NEW u \in Resumes, UploadAction(u)
      PROVE  UNCHANGED crashes
  BY <1>2 DEF UploadAction, UploadStep, Put, PutFails, Insert, ParseInline, Enqueue,
     EnqueueFails, Commit, Abort, ResponseFails, GiveUp, Build, taskVars
<1>3. ASSUME NEW d \in Deleters, DeleteAction(d)
      PROVE  UNCHANGED crashes
  BY <1>3 DEF DeleteAction, DeleteStep, Load, Erase, EraseFails, DeleteCommit, DeleteFails,
     taskVars
<1>4. ASSUME NEW w \in Workers, Steady(w)
      PROVE  UNCHANGED crashes
  BY <1>4 DEF WorkerStep, Take, NotFound, Begin, Download, ParseFails, Save, Fail, RowGone,
     Retry, DeadLetter, Ack, DbError, CommitUnheard, RetryRefused, Steady, logVars
<1>5. CASE UNCHANGED vars
  BY <1>1, <1>5 DEF vars
<1> QED
  BY <1>1, <1>2, <1>3, <1>4, <1>5
  DEF Next, Rest, UploadAction, DeleteAction, WorkerFault, Steady

LEMMA SoloStep ==
  ASSUME FilesInv, FilesInv', SoloInv, [Next]_vars
  PROVE  SoloInv'
<1> SUFFICES ASSUME crashes' = 0, NEW r \in Resumes
             PROVE  Solo(r)'
  BY DEF SoloInv
<1>1. Typed /\ Typed'
  BY DEF FilesInv
<1>2. crashes = 0 /\ \A w \in Workers : ~WorkerLost(w)
  BY <1>1, CrashesCounted
<1>3. Solo(r)
  BY <1>2 DEF SoloInv
<1>4. CASE UNCHANGED vars
  BY <1>3, <1>4 DEF vars, Solo, OnePlace, Working
<1>5. CASE \E w \in Workers : Steady(w)
  BY <1>1, <1>3, <1>5, SoloWorkerStep
<1>6. CASE \E u \in Resumes : UploadAction(u)
  BY <1>3, <1>6, SoloUploadStep
<1>7. CASE \E d \in Deleters : DeleteAction(d)
  BY <1>3, <1>7, SoloDeleteStep
<1> QED
  BY <1>2, <1>4, <1>5, <1>6, <1>7
  DEF Next, Rest, UploadAction, DeleteAction, WorkerFault, Steady

\* Nobody works on a parsed resume, so no step sends it back.
LEMMA StepDoneIsStable ==
  ASSUME FilesInv, SoloInv, [Next]_vars, NEW r \in Resumes, status[r] = "done", crashes' = 0,
         r \notin unheard'
  PROVE  status'[r] \in {"done", "absent"}
<1>1. /\ Typed /\ status \in [Resumes -> ResumeStatus] /\ upload[r] = "over"
  BY DEF FilesInv, Typed, TypeOK, Stages, RowsOver, RowExists
<1>2. crashes = 0 /\ \A w \in Workers : ~WorkerLost(w)
  BY <1>1, CrashesCounted
<1>3. Solo(r) /\ ~Working(r)
  BY <1>2, UnheardGrows DEF SoloInv, Solo
<1>4. ASSUME NEW w \in Workers, Steady(w)
      PROVE  status'[r] = "done"
  <2>1. CASE Begin(w) \/ Save(w) \/ Fail(w) \/ CommitUnheard(w)
    <3>1. worker[w].pc \in Busy
      BY <2>1 DEF Begin, Save, Fail, CommitUnheard, Busy
    <3>2. worker[w].job # r
      BY <1>3, <3>1 DEF Working
    <3> QED
      BY <1>1, <2>1, <3>2 DEF Begin, Save, Fail, CommitUnheard
  <2>2. CASE ~(Begin(w) \/ Save(w) \/ Fail(w) \/ CommitUnheard(w))
    BY <1>4, <2>2 DEF WorkerStep, Take, NotFound, Download, ParseFails, RowGone, Retry,
       DeadLetter, Ack, DbError, CommitUnheard, RetryRefused, Steady
  <2> QED
    BY <2>1, <2>2
<1>5. ASSUME NEW u \in Resumes, UploadAction(u)
      PROVE  status'[r] = "done"
  BY <1>1, <1>5 DEF UploadAction, UploadStep, Put, PutFails, Insert, ParseInline, Enqueue,
     EnqueueFails, Commit, Abort, ResponseFails, GiveUp, Build, rowVars
<1>6. ASSUME NEW d \in Deleters, DeleteAction(d)
      PROVE  status'[r] \in {"done", "absent"}
  BY <1>3, <1>6, SoloDeleteStep
<1>7. CASE UNCHANGED vars
  BY <1>7 DEF vars
<1> QED
  BY <1>2, <1>4, <1>5, <1>6, <1>7
  DEF Next, Rest, UploadAction, DeleteAction, WorkerFault, Steady

(* While no worker has been lost, and no commit for it has gone unheard, a    *)
(* parsed resume stays parsed until it is deleted.                            *)
THEOREM DoneIsStableAlways == Spec => DoneIsStable
<1> DEFINE Inv == FilesInv /\ SoloInv
           Stays == \A r \in Resumes :
                      (status[r] = "done" /\ crashes' = 0 /\ r \notin unheard')
                        => status'[r] \in {"done", "absent"}
<1>1. Init => Inv
  <2> SUFFICES ASSUME Init PROVE Inv
    OBVIOUS
  <2>1. SoloInv
    BY DEF Init, SoloInv, Solo, OnePlace, Working, Busy, IdleWorker
  <2> QED
    BY <2>1, InitFiles
<1>2. Inv /\ [Next]_vars => Inv'
  BY StepFiles, SoloStep
<1>3. Inv /\ [Next]_vars => [Stays]_vars
  BY StepDoneIsStable
<1> HIDE DEF Inv
<1>4. Spec => [][Stays]_vars
  BY <1>1, <1>2, <1>3, PTL DEF Spec
<1> QED
  BY <1>4 DEF DoneIsStable

-----------------------------------------------------------------------------
(* The refinement of ResumeStore.  Besides FilesInv it takes that a file an   *)
(* upload gave up never gets a row, so that no delete erases one from under   *)
(* no row, and that a worker past its begin has left "pending" behind.        *)
GivenUpUnnamed == \A r \in abandoned : upload[r] = "over" /\ ~keyed[r]

InHand(w) == worker[w].pc \in {"started", "parsing", "failing"}

ParsesBegun ==
  \A w \in Workers :
    InHand(w) => upload[worker[w].job] = "over" /\ status[worker[w].job] # "pending"

StoreInv == FilesInv /\ GivenUpUnnamed /\ ParsesBegun

Drawn == {r \in Resumes : upload[r] # "idle"}

StoreStep ==
  \/ Store!Next
  \/ UNCHANGED <<Drawn, file, keyed, status>>

(* Only an upload gives files up, and its request is over then.               *)
LEMMA StepGivenUp ==
  ASSUME FilesInv, GivenUpUnnamed, [Next]_vars
  PROVE  GivenUpUnnamed'
<1> USE DEF GivenUpUnnamed
<1>1. /\ upload \in [Resumes -> Uploading \cup {"idle", "over"}]
      /\ keyed \in [Resumes -> BOOLEAN] /\ abandoned \subseteq Resumes
      /\ \A r \in Resumes : keyed[r] => upload[r] = "over"
  BY DEF FilesInv, Typed, TypeOK, Stages, RowsOver
<1>2. ASSUME NEW u \in Resumes, UploadAction(u)
      PROVE  GivenUpUnnamed'
  <2>1. CASE PutFails(u)
    BY <1>1, <2>1 DEF PutFails, SetUpload, AfterPutFailure, rowVars
  <2>2. CASE Abort(u) \/ ResponseFails(u)
    BY <1>1, <2>2 DEF Abort, ResponseFails, GiveUp, SetUpload, rowVars, Uploading
  <2>3. CASE Commit(u)
    BY <1>1, <2>3 DEF Commit, SetUpload, ghostVars
  <2>4. CASE Put(u) \/ Insert(u) \/ ParseInline(u) \/ Enqueue(u) \/ EnqueueFails(u) \/ Build(u)
    BY <1>1, <2>4 DEF Put, Insert, ParseInline, Enqueue, EnqueueFails, Build, SetUpload,
       rowVars, ghostVars
  <2> QED
    BY <1>2, <2>1, <2>2, <2>3, <2>4 DEF UploadAction, UploadStep
<1>3. ASSUME NEW d \in Deleters, DeleteAction(d)
      PROVE  UNCHANGED <<upload, keyed, abandoned>>
  BY <1>3 DEF DeleteAction, DeleteStep, Load, Erase, EraseFails, DeleteCommit, DeleteFails,
     rowVars, ghostVars
<1>4. ASSUME NEW w \in Workers, WorkerAction(w)
      PROVE  UNCHANGED <<upload, keyed, abandoned>>
  BY <1>4, WorkersKeepRows DEF FilesInv, requestVars, ghostVars
<1> QED
  BY <1>2, <1>3, <1>4 DEF Next, Rest, vars, UploadAction, DeleteAction, WorkerAction

(* A row that a worker began on waits no more: the upload is over by then.    *)
LEMMA StepParsesBegun ==
  ASSUME FilesInv, ParsesBegun, [Next]_vars
  PROVE  ParsesBegun'
<1> USE DEF ParsesBegun, InHand
<1>1. /\ upload \in [Resumes -> Uploading \cup {"idle", "over"}]
      /\ status \in [Resumes -> ResumeStatus] /\ worker \in [Workers -> Slots]
      /\ \A w \in Workers : worker[w].pc # "idle" => worker[w].job \in Resumes
      /\ \A r \in Resumes : status[r] # "absent" => upload[r] = "over"
  BY DEF FilesInv, Typed, TypeOK, WorkersHold, Stages, RowsOver, RowExists, Slots
<1>2. ASSUME NEW u \in Resumes, UploadAction(u)
      PROVE  ParsesBegun'
  <2>1. /\ UNCHANGED worker /\ upload[u] # "over"
        /\ \A r \in Resumes : r # u => upload'[r] = upload[r] /\ status'[r] = status[r]
    BY <1>1, <1>2 DEF UploadAction, UploadStep, Put, PutFails, Insert, ParseInline, Enqueue,
       EnqueueFails, Commit, Abort, ResponseFails, GiveUp, Build, SetUpload, taskVars, rowVars
  <2> QED
    BY <1>1, <2>1
<1>3. ASSUME NEW d \in Deleters, DeleteAction(d)
      PROVE  ParsesBegun'
  <2>1. /\ UNCHANGED <<worker, upload>>
        /\ \A r \in Resumes : status'[r] \in {status[r], "absent"}
    BY <1>1, <1>3 DEF DeleteAction, DeleteStep, Load, Erase, EraseFails, DeleteCommit,
       DeleteFails, taskVars, rowVars
  <2> QED
    BY <1>1, <2>1
<1>4. ASSUME NEW w \in Workers, WorkerAction(w)
      PROVE  ParsesBegun'
  <2>1. /\ UNCHANGED upload
        /\ \A v \in Workers : v # w => worker'[v] = worker[v]
        /\ \A r \in Resumes : status'[r] = "pending" => status[r] = "pending"
    BY <1>1, <1>4 DEF WorkerAction, WorkerStep, Take, NotFound, Begin, Download, ParseFails,
       Save, Fail, RowGone, DbError, CommitUnheard, RetryRefused, Retry, DeadLetter, Ack,
       WorkerLost, WorkerFault, SetPc, requestVars
  <2>2. InHand(w)' => /\ worker'[w].job = worker[w].job
                      /\ InHand(w) \/ Begin(w)
    BY <1>1, <1>4 DEF WorkerAction, WorkerStep, Take, NotFound, Begin, Download, ParseFails,
       Save, Fail, RowGone, DbError, CommitUnheard, RetryRefused, Retry, DeadLetter, Ack,
       WorkerLost, WorkerFault, SetPc, Slots,
       IdleWorker
  <2>3. CASE Begin(w)
    <3>1. worker[w].job \in Resumes /\ status[worker[w].job] # "absent"
          /\ status'[worker[w].job] = "processing"
      BY <1>1, <2>3 DEF Begin, RowExists
    <3> QED
      BY <1>1, <2>1, <2>2, <3>1
  <2> QED
    BY <1>1, <2>1, <2>2, <2>3
<1>5. CASE UNCHANGED vars
  BY <1>5 DEF vars
<1> QED
  BY <1>2, <1>3, <1>4, <1>5 DEF Next, Rest, UploadAction, DeleteAction, WorkerAction

(* An upload stores its file, then registers its row; a build creates one.    *)
LEMMA UploadsStore ==
  ASSUME FilesInv, NEW u \in Resumes, UploadAction(u)
  PROVE  StoreStep
<1>1. /\ upload \in [Resumes -> Uploading \cup {"idle", "over"}]
      /\ file \in [Resumes -> BOOLEAN] /\ keyed \in [Resumes -> BOOLEAN]
      /\ status \in [Resumes -> ResumeStatus]
      /\ upload[u] = "idle" => ~file[u]
      /\ upload[u] \in Uploading => file[u]
      /\ upload[u] # "over" => status[u] = "absent" /\ ~keyed[u]
  BY DEF FilesInv, Typed, TypeOK, Stages, UploadsFile, RowsOver, RowExists
<1>2. CASE Put(u) \/ PutFails(u)
  <2>1. u \notin Drawn /\ Drawn' = Drawn \cup {u}
    BY <1>1, <1>2 DEF Put, PutFails, SetUpload, AfterPutFailure, Drawn
  <2>2. PICK b \in BOOLEAN : file' = [file EXCEPT ![u] = b]
    <3>1. CASE UNCHANGED file
      BY <1>1, <3>1
    <3> QED
      BY <1>2, <3>1 DEF Put, PutFails
  <2>3. UNCHANGED <<keyed, status>>
    BY <1>2 DEF Put, PutFails, rowVars
  <2>4. Store!Store(u)
    BY <2>1, <2>2, <2>3 DEF Store!Store, Drawn
  <2> QED
    BY <2>4 DEF StoreStep, Store!Next
<1>3. CASE Commit(u)
  <2>1. upload[u] \in Uploading /\ u \in Drawn /\ Drawn' = Drawn
    BY <1>1, <1>3 DEF Commit, SetUpload, Uploading, Drawn
  <2>2. status' = [status EXCEPT ![u] = "pending"]
    BY <1>3 DEF Commit, InitialStatus
  <2>3. Store!Register(u)
    BY <1>1, <1>3, <2>1, <2>2 DEF Commit, Store!Register, Store!SetStatus, Drawn
  <2> QED
    BY <2>3 DEF StoreStep, Store!Next
<1>4. CASE Build(u)
  <2>1. u \notin Drawn /\ Drawn' = Drawn \cup {u}
    BY <1>1, <1>4 DEF Build, SetUpload, Drawn
  <2>2. Store!Create(u)
    BY <1>4, <2>1 DEF Build, Store!Create, Store!SetStatus, Drawn
  <2> QED
    BY <2>2 DEF StoreStep, Store!Next
<1>5. CASE Insert(u) \/ ParseInline(u) \/ Enqueue(u) \/ EnqueueFails(u) \/ Abort(u) \/ ResponseFails(u)
  <2>1. Drawn' = Drawn
    BY <1>1, <1>5 DEF Insert, ParseInline, Enqueue, EnqueueFails, Abort, ResponseFails, GiveUp,
       SetUpload, Drawn
  <2>2. UNCHANGED <<file, keyed, status>>
    BY <1>5 DEF Insert, ParseInline, Enqueue, EnqueueFails, Abort, ResponseFails, GiveUp, rowVars
  <2> QED
    BY <2>1, <2>2 DEF StoreStep
<1> QED
  BY <1>2, <1>3, <1>4, <1>5 DEF UploadAction, UploadStep

(* Of two deletes of a resume only the first erases and only one removes; the *)
(* other shows nothing.                                                       *)
LEMMA DeletesStore ==
  ASSUME FilesInv, GivenUpUnnamed, NEW d \in Deleters, DeleteAction(d)
  PROVE  StoreStep
<1> DEFINE r == deleter[d].resume
<1>1. /\ file \in [Resumes -> BOOLEAN] /\ keyed \in [Resumes -> BOOLEAN]
      /\ status \in [Resumes -> ResumeStatus]
      /\ deleter[d].pc # "idle" => r \in Resumes
      /\ deleter[d].pc = "erased" => ~file[r]
  BY DEF FilesInv, Typed, TypeOK, DeletersHold, Stages, DeletesOver
<1>2. \A q \in Resumes : keyed[q] /\ file[q] => status[q] # "absent"
  BY DEF FilesInv, FileHasRow, RowExists, Stages, RowsOver, GivenUpUnnamed, Uploading
<1>3. Drawn' = Drawn
  BY DEF DeleteAction, DeleteStep, Load, Erase, EraseFails, DeleteCommit, DeleteFails, Drawn
<1>4. CASE UNCHANGED <<file, keyed, status>>
  BY <1>3, <1>4 DEF StoreStep
<1>5. CASE Erase(d) \/ EraseFails(d)
  <2>1. UNCHANGED <<keyed, status>> /\ keyed[r] /\ r \in Resumes
    BY <1>1, <1>5 DEF Erase, EraseFails, rowVars
  <2>2. CASE file' = [file EXCEPT ![r] = FALSE]
    <3>1. CASE file[r]
      <4>1. Store!Erase(r)
        BY <1>2, <1>3, <2>1, <2>2, <3>1 DEF Store!Erase, Drawn
      <4> QED
        BY <2>1, <4>1 DEF StoreStep, Store!Next
    <3>2. CASE ~file[r]
      <4>1. file' = file
        BY <1>1, <2>2, <3>2
      <4> QED
        BY <1>4, <2>1, <4>1
    <3> QED
      BY <3>1, <3>2
  <2> QED
    BY <1>4, <1>5, <2>1, <2>2 DEF Erase, EraseFails
<1>6. CASE DeleteCommit(d)
  <2>1. /\ UNCHANGED <<file, keyed>> /\ r \in Resumes /\ ~(keyed[r] /\ file[r])
        /\ status' = [status EXCEPT ![r] = "absent"]
    BY <1>1, <1>6 DEF DeleteCommit, FileDone
  <2>2. CASE status[r] # "absent"
    <3>1. Store!Remove(r)
      BY <1>3, <2>1, <2>2 DEF Store!Remove, Store!SetStatus, Drawn
    <3> QED
      BY <2>1, <3>1 DEF StoreStep, Store!Next
  <2>3. CASE status[r] = "absent"
    <3>1. status' = status
      BY <1>1, <2>1, <2>3
    <3> QED
      BY <1>4, <2>1, <3>1
  <2> QED
    BY <2>2, <2>3
<1>7. CASE Load(d) \/ DeleteFails(d)
  BY <1>4, <1>7 DEF Load, DeleteFails, rowVars
<1> QED
  BY <1>5, <1>6, <1>7 DEF DeleteAction, DeleteStep

(* A worker starts or finishes the parse of a row that is there.              *)
LEMMA WorkersStore ==
  ASSUME FilesInv, ParsesBegun, NEW w \in Workers, WorkerAction(w)
  PROVE  StoreStep
<1> DEFINE r == worker[w].job
<1>1. /\ status \in [Resumes -> ResumeStatus]
      /\ worker[w].pc # "idle" => r \in Resumes
      /\ UNCHANGED <<file, keyed>> /\ Drawn' = Drawn
  BY WorkersKeepRows DEF FilesInv, Typed, TypeOK, WorkersHold, requestVars, Drawn
<1>2. CASE Begin(w) \/ (CommitUnheard(w) /\ worker[w].pc = "start")
  <2>1. r \in Resumes /\ Store!Start(r)
    BY <1>1, <1>2 DEF Begin, CommitUnheard, RowExists, Store!Start, Store!SetStatus, Drawn
  <2> QED
    BY <2>1 DEF StoreStep, Store!Next
<1>3. CASE Save(w) \/ Fail(w) \/ (CommitUnheard(w) /\ worker[w].pc # "start")
  <2>1. PICK s \in {"done", "failed"} : status' = [status EXCEPT ![r] = s]
    BY <1>3 DEF Save, Fail, CommitUnheard
  <2>2. r \in Resumes /\ status[r] \in Store!Begun
    BY <1>1, <1>3 DEF Save, Fail, CommitUnheard, RowExists, ParsesBegun, InHand, ResumeStatus,
       Store!Begun
  <2>3. Store!Finish(r)
    BY <1>1, <2>1, <2>2 DEF Store!Finish, Store!SetStatus, Drawn
  <2> QED
    BY <2>2, <2>3 DEF StoreStep, Store!Next
<1>4. CASE ~Begin(w) /\ ~Save(w) /\ ~Fail(w) /\ ~CommitUnheard(w)
  <2>1. UNCHANGED status
    BY <1>4 DEF WorkerAction, WorkerStep, Take, NotFound, Download, ParseFails, RowGone,
       Retry, DeadLetter, Ack, DbError, CommitUnheard, RetryRefused, WorkerLost,
     WorkerFault
  <2> QED
    BY <1>1, <2>1 DEF StoreStep
<1> QED
  BY <1>2, <1>3, <1>4

(* Uploads, deletes and parses implement ResumeStore, for any number of       *)
(* resumes, requests, workers, retries and crashes: each of their steps is a  *)
(* step of it, or shows nothing.                                              *)
THEOREM StoreIsImplemented == Spec => ImplementsStore
<1>1. Init => StoreInv /\ Store!Init
  <2> SUFFICES ASSUME Init PROVE StoreInv /\ Store!Init
    OBVIOUS
  <2>1. GivenUpUnnamed /\ ParsesBegun
    BY DEF Init, GivenUpUnnamed, ParsesBegun, InHand, IdleWorker
  <2>2. Store!Init
    BY DEF Init, Store!Init
  <2> QED
    BY <2>1, <2>2, InitFiles DEF StoreInv
<1>2. StoreInv /\ [Next]_vars => StoreInv'
  BY StepFiles, StepGivenUp, StepParsesBegun DEF StoreInv
<1>3. StoreInv /\ [Next]_vars => [Store!Next]_(Store!vars)
  <2> SUFFICES ASSUME StoreInv, [Next]_vars PROVE [Store!Next]_(Store!vars)
    OBVIOUS
  <2>1. UNCHANGED vars => StoreStep
    BY DEF vars, StoreStep, Drawn
  <2>2. StoreStep
    BY <2>1, UploadsStore, DeletesStore, WorkersStore
       DEF StoreInv, Next, Rest, UploadAction, DeleteAction, WorkerAction
  <2> QED
    BY <2>2 DEF StoreStep, Store!vars, Drawn
<1> QED
  BY <1>1, <1>2, <1>3, PTL DEF Spec, ImplementsStore, Store!Spec
=============================================================================
