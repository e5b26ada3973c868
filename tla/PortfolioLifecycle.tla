------------------------- MODULE PortfolioLifecycle -------------------------
(***************************************************************************)
(* What a portfolio promises to whoever polls its status                   *)
(* (GET /portfolio/{id}/status), with the request handlers, the broker and *)
(* the workers left out.  A portfolio is accepted at most once; nobody     *)
(* sees a result before a worker has started on it; a finished portfolio   *)
(* may be started again, because the broker delivers at least once; and an *)
(* id that was given up, by a rolled back request or by a delete, never    *)
(* comes back.                                                             *)
(***************************************************************************)

CONSTANT Portfolios

VARIABLES
  status,    \* status[p]: what a poll of p returns; "absent" is a 404
  retired    \* the ids that were given up

vars == <<status, retired>>

Started == {"generating", "published", "failed"}

Init ==
  /\ status = [p \in Portfolios |-> "absent"]
  /\ retired = {}

SetStatus(p, s) ==
  /\ status' = [status EXCEPT ![p] = s]
  /\ UNCHANGED retired

Accept(p) ==
  /\ status[p] = "absent"
  /\ p \notin retired
  /\ SetStatus(p, "queued")

Start(p) ==
  /\ status[p] # "absent"
  /\ SetStatus(p, "generating")

Finish(p) ==
  /\ status[p] \in Started
  /\ \E s \in {"published", "failed"} : SetStatus(p, s)

Retire(p) ==
  /\ p \notin retired
  /\ status' = [status EXCEPT ![p] = "absent"]
  /\ retired' = retired \cup {p}

Next == \E p \in Portfolios : Accept(p) \/ Start(p) \/ Finish(p) \/ Retire(p)

Spec == Init /\ [][Next]_vars
=============================================================================
