---------------------------- MODULE ResumeStore ----------------------------
(***************************************************************************)
(* What storage and table promise to whoever looks at a resume, with the   *)
(* requests, the broker and the workers left out.  A file is stored before *)
(* the row that names it and erased before that row is removed; a file is  *)
(* never erased from under no row, nor a row with its file removed; a row  *)
(* that shows a verdict or a parse under way never waits again; and an id  *)
(* is used once, so neither file nor row ever comes back.                  *)
(***************************************************************************)

CONSTANT Resumes

VARIABLES
  used,      \* the ids that were drawn
  file,      \* file[r]: the object under the key drawn for r is there
  named,     \* named[r]: a row of r was stored that names the file
  status     \* status[r]: what GET /resume/{id}/status shows; "absent" is a 404

vars == <<used, file, named, status>>

Begun == {"processing", "done", "failed"}

Init ==
  /\ used = {}
  /\ file = [r \in Resumes |-> FALSE]
  /\ named = [r \in Resumes |-> FALSE]
  /\ status = [r \in Resumes |-> "absent"]

SetStatus(r, s) == status' = [status EXCEPT ![r] = s]

(* The put of an upload, which may fail with or without its file. *)
Store(r) ==
  /\ r \notin used
  /\ used' = used \cup {r}
  /\ \E b \in BOOLEAN : file' = [file EXCEPT ![r] = b]
  /\ UNCHANGED <<named, status>>

(* The row of an upload, to be parsed: one that was parsed at once is not     *)
(* stored.                                                                    *)
Register(r) ==
  /\ r \in used
  /\ file[r] /\ ~named[r]
  /\ status[r] = "absent"
  /\ named' = [named EXCEPT ![r] = TRUE]
  /\ SetStatus(r, "pending")
  /\ UNCHANGED <<used, file>>

(* A resume that was built in a form: parsed, and without a file. *)
Create(r) ==
  /\ r \notin used
  /\ used' = used \cup {r}
  /\ SetStatus(r, "done")
  /\ UNCHANGED <<file, named>>

Start(r) ==
  /\ status[r] # "absent"
  /\ SetStatus(r, "processing")
  /\ UNCHANGED <<used, file, named>>

Finish(r) ==
  /\ status[r] \in Begun
  /\ \E s \in {"done", "failed"} : SetStatus(r, s)
  /\ UNCHANGED <<used, file, named>>

Erase(r) ==
  /\ named[r]
  /\ status[r] # "absent"
  /\ file' = [file EXCEPT ![r] = FALSE]
  /\ UNCHANGED <<used, named, status>>

Remove(r) ==
  /\ status[r] # "absent"
  /\ ~(named[r] /\ file[r])
  /\ SetStatus(r, "absent")
  /\ UNCHANGED <<used, file, named>>

Next ==
  \E r \in Resumes : \/ Store(r) \/ Register(r) \/ Create(r) \/ Start(r) \/ Finish(r)
                     \/ Erase(r) \/ Remove(r)

Spec == Init /\ [][Next]_vars
=============================================================================
