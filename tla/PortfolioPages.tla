---------------------------- MODULE PortfolioPages ---------------------------
(***************************************************************************)
(* The pages /dashboard/portfolios and /dashboard/portfolio/[id]/preview:  *)
(* cards, or one card, filled by requests that may overlap and whose       *)
(* answers may come in any order or not at all.  The list asks for whole   *)
(* portfolios; the preview asks for their status, which has no is_public,  *)
(* and takes it for a portfolio.                                           *)
(***************************************************************************)
EXTENDS AppShell

CONSTANTS
  Portfolios,
  Calls         \* calls that can be under way at once

ASSUME PortfoliosAssumption == "none" \notin Portfolios

VARIABLES
  server,  \* server[p]: "gone", "draft" (not published), "private", "public"
  shelf,   \* the page:
           \*   screen   "none", "list" or "preview"
           \*   id       the portfolio of the preview
           \*   cards    what is shown of each portfolio; "none": no card
           \*   loading, publishing   the flags of the page
           \*   lost     history: the last fetch met no session
           \*   doubt    ghost: portfolios a call may have left out of date, or
           \*            that a worker has moved since they were answered
  calls    \* calls[c]: what is asked for, and what has been answered

pageVars == <<server, shelf, calls>>

Kept == {"gone", "draft", "private", "public"}

\* "published": a portfolio whose is_public is undefined.
Cards == {"none", "draft", "private", "public", "published"}

\* Answers speak of some portfolios: of none yet, of one, of all.
Nothing == [p \in {} |-> "none"]
Only(id, card) == [p \in {id} |-> card]

NoCall == [for |-> "nothing", at |-> "off", id |-> "none", said |-> Nothing, alone |-> FALSE]
NoPage == [screen |-> "none", id |-> "none", cards |-> [p \in Portfolios |-> "none"],
           loading |-> FALSE, publishing |-> FALSE, lost |-> FALSE,
           doubt |-> Portfolios]

PagesInit ==
  /\ server = [p \in Portfolios |-> "gone"]
  /\ shelf = NoPage
  /\ calls = [c \in Calls |-> NoCall]

PagesClose ==
  /\ server' = [p \in Portfolios |-> "gone"]
  /\ shelf' = NoPage
  /\ calls' = [c \in Calls |-> NoCall]

Seen(s) == IF s = "gone" THEN "none" ELSE s
Status(s) == IF s \in {"private", "public"} THEN "published" ELSE Seen(s)
IsPublished(card) == card \in {"private", "public", "published"}

InFlight == {c \in Calls : calls[c].at # "off"}
Writes(p) == {c \in InFlight : calls[c].for \in {"toggle", "delete"} /\ calls[c].id = p}
On(screen) == shelf.screen = screen /\ Here
-----------------------------------------------------------------------------
(* A call: it is made, the server serves it, its answer is delivered.      *)
(* alone (ghost) is lost when two calls overlap, or when a worker moves a  *)
(* portfolio between the service and the delivery.                         *)

Made(c, for, id) ==
  /\ calls[c].at = "off"
  /\ calls' = [d \in Calls |->
       IF d = c THEN [for |-> for, at |-> "sent", id |-> id, said |-> Nothing,
                      alone |-> InFlight = {}]
                ELSE [calls[d] EXCEPT !.alone = FALSE]]

Served(c, answer) ==
  /\ calls[c].at = "sent"
  /\ calls' = [calls EXCEPT ![c].at = "answered", ![c].said = answer]

Ended(c) == calls' = [calls EXCEPT ![c] = NoCall]

\* After a call about ps that was alone its answer is the truth; after one
\* that was not, or that failed, nobody knows.
Doubt(c, ps, answered) ==
  IF answered /\ calls[c].alone THEN shelf.doubt \ ps ELSE shelf.doubt \cup ps
-----------------------------------------------------------------------------
(* Fetching: at mount and by "Refresh". *)

OpenList(c) ==
  /\ route = "portfolios" /\ shelf.screen = "none" /\ Here
  /\ server' \in [Portfolios -> Kept]
  /\ shelf' = [NoPage EXCEPT !.screen = "list", !.loading = TRUE]
  /\ Made(c, "fetch", "none")

OpenPreview(c, p) ==
  /\ route = "preview" /\ shelf.screen = "none" /\ Here
  /\ server' \in [Portfolios -> Kept]
  /\ shelf' = [NoPage EXCEPT !.screen = "preview", !.id = p, !.loading = TRUE]
  /\ Made(c, "fetch", p)

Refresh(c) ==
  /\ \/ /\ On("list")
        /\ shelf' = [shelf EXCEPT !.loading = TRUE]
        /\ Made(c, "fetch", "none")
     \/ /\ On("preview") /\ ~shelf.loading /\ shelf.cards[shelf.id] # "none"
        /\ Made(c, "fetch", shelf.id)
        /\ UNCHANGED shelf
  /\ UNCHANGED server

FetchServed(c) ==
  /\ Here /\ calls[c].for = "fetch"
  /\ \/ /\ calls[c].id = "none"
        /\ Served(c, [p \in Portfolios |-> Seen(server[p])])
     \/ /\ calls[c].id # "none" /\ server[calls[c].id] # "gone"
        /\ Served(c, Only(calls[c].id, Status(server[calls[c].id])))
  /\ UNCHANGED <<server, shelf>>

(* Faulty variant, used by one check only: a card that is there is kept. *)
Put_KeepsCards(cards, said) ==
  [p \in Portfolios |-> IF p \in DOMAIN said /\ cards[p] = "none" THEN said[p] ELSE cards[p]]

\* The answer replaces what it speaks of.
Put(cards, said) ==
  [p \in Portfolios |-> IF p \in DOMAIN said THEN said[p] ELSE cards[p]]

FetchDelivered(c) ==
  /\ Here /\ calls[c].for = "fetch" /\ calls[c].at = "answered"
  /\ shelf' = [shelf EXCEPT !.cards = Put(@, calls[c].said), !.loading = FALSE,
                            !.lost = FALSE, !.doubt = Doubt(c, DOMAIN calls[c].said, TRUE)]
  /\ Ended(c)
  /\ UNCHANGED server

\* No session: "finally" ends the loading, and the page shows what it had.
FetchWithoutToken(c) ==
  /\ Here /\ calls[c].for = "fetch" /\ calls[c].at = "sent"
  /\ shelf' = [shelf EXCEPT !.loading = FALSE, !.lost = TRUE]
  /\ Ended(c)
  /\ UNCHANGED server

\* A 404 or a lost call: the list reports it; the preview goes to the list,
\* whatever it showed before.
FetchFails(c) ==
  /\ calls[c].for = "fetch"
  /\ \/ /\ On("list")
        /\ shelf' = [shelf EXCEPT !.loading = FALSE]
        /\ Ended(c)
        /\ UNCHANGED server
     \/ /\ shelf.screen = "preview"
        /\ Push("portfolios") /\ PagesClose
-----------------------------------------------------------------------------
(* The toggle of a card and the deletion of a portfolio. *)

\* The list does not wait for an earlier toggle; the preview does.
ClickToggle(c, p) ==
  /\ IsPublished(shelf.cards[p]) /\ ~shelf.loading
  /\ \/ On("list") /\ UNCHANGED shelf
     \/ /\ On("preview") /\ p = shelf.id /\ ~shelf.publishing
        /\ shelf' = [shelf EXCEPT !.publishing = TRUE]
  /\ Made(c, "toggle", p)
  /\ UNCHANGED server

\* is_public is flipped whatever the status; it does not show in a draft.
Toggled(s) ==
  CASE s = "public" -> "private" [] s = "private" -> "public" [] OTHER -> s

\* The answer is a 500 (see PublicPage.ToggleCommit): no page hears of it.
ToggleServed(c) ==
  /\ Here /\ calls[c].for = "toggle" /\ server[calls[c].id] # "gone"
  /\ server' = [server EXCEPT ![calls[c].id] = Toggled(@)]
  /\ Served(c, Nothing)
  /\ UNCHANGED shelf

ClickDelete(c, p) ==
  /\ On("list") /\ shelf.cards[p] # "none" /\ ~shelf.loading
  /\ Made(c, "delete", p)
  /\ UNCHANGED <<server, shelf>>

DeleteServed(c) ==
  /\ Here /\ calls[c].for = "delete" /\ server[calls[c].id] # "gone"
  /\ server' = [server EXCEPT ![calls[c].id] = "gone"]
  /\ Served(c, Only(calls[c].id, "none"))
  /\ UNCHANGED shelf

DeleteDelivered(c) ==
  /\ Here /\ calls[c].for = "delete" /\ calls[c].at = "answered"
  /\ shelf' = [shelf EXCEPT !.cards[calls[c].id] = "none",
                            !.doubt = Doubt(c, {calls[c].id}, TRUE)]
  /\ Ended(c)
  /\ UNCHANGED server

\* No session, a refusal, or an answer that is lost, or is an error, after the
\* server has done its part: the cards stay, the flag of the preview does not.
WriteFails(c) ==
  /\ Here /\ calls[c].for \in {"toggle", "delete"}
  /\ shelf' = [shelf EXCEPT !.publishing = FALSE,
                            !.doubt = Doubt(c, {calls[c].id}, FALSE)]
  /\ Ended(c)
  /\ UNCHANGED server
-----------------------------------------------------------------------------
\* A worker publishes a draft, which may have been made private before; a
\* redelivered task takes a published portfolio back to "generating".
WorkerMoves(p) ==
  /\ Here /\ shelf.screen # "none"
  /\ \/ server[p] = "draft" /\ \E s \in {"private", "public"} : server' = [server EXCEPT ![p] = s]
     \/ server[p] \in {"private", "public"} /\ server' = [server EXCEPT ![p] = "draft"]
  /\ shelf' = [shelf EXCEPT !.doubt = @ \cup {p}]
  /\ calls' = [c \in Calls |-> IF calls[c].at = "answered"
                               THEN [calls[c] EXCEPT !.alone = FALSE] ELSE calls[c]]

\* A preview that is left while it fetches may still send the user away.
Fetching == shelf.screen = "preview" /\ \E c \in Calls : calls[c].for = "fetch"

BackToList ==
  /\ shelf.screen = "preview" /\ ~shelf.loading /\ shelf.cards[shelf.id] # "none"
  /\ LeaveFor("portfolios", Fetching, "portfolios")
  /\ PagesClose

LeavePages ==
  /\ shelf.screen # "none"
  /\ LeaveFor("dashboard", Fetching, "portfolios")
  /\ PagesClose

CallSettles(c) ==
  \/ FetchServed(c) \/ FetchDelivered(c) \/ FetchWithoutToken(c) \/ FetchFails(c)
  \/ ToggleServed(c) \/ DeleteServed(c) \/ DeleteDelivered(c) \/ WriteFails(c)

PagesNext ==
  \/ \E c \in Calls :
       \/ OpenList(c) \/ Refresh(c) \/ CallSettles(c)
       \/ \E p \in Portfolios : OpenPreview(c, p) \/ ClickToggle(c, p) \/ ClickDelete(c, p)
  \/ \E p \in Portfolios : WorkerMoves(p)
  \/ BackToList \/ LeavePages

\* Every call of the browser ends, by an answer or by an error.
PagesFairness == \A c \in Calls : WF_<<shell, pageVars>>(CallSettles(c))
-----------------------------------------------------------------------------
PagesTypeOK ==
  /\ server \in [Portfolios -> Kept]
  /\ shelf \in [screen : {"none", "list", "preview"}, id : Portfolios \cup {"none"},
                cards : [Portfolios -> Cards], loading : BOOLEAN,
                publishing : BOOLEAN, lost : BOOLEAN, doubt : SUBSET Portfolios]
  /\ calls \in [Calls -> [for : {"nothing", "fetch", "toggle", "delete"},
                          at : {"off", "sent", "answered"},
                          id : Portfolios \cup {"none"},
                          said : UNION {[ps -> Cards] : ps \in SUBSET Portfolios},
                          alone : BOOLEAN]]

\* What a card says of a portfolio.
Agrees(card, s) ==
  IF card = "published" THEN s \in {"private", "public"} ELSE card = Seen(s)

(* A card shows what the server holds, unless a toggle or a deletion of    *)
(* its portfolio is under way, the last call about it failed (a toggle     *)
(* always does) or overlapped with another one (the list lets them), or a  *)
(* worker has published it, or taken it back, since it was asked for.      *)
ShownIsServer ==
  \A p \in Portfolios \ shelf.doubt :
    Writes(p) = {} => Agrees(shelf.cards[p], server[p])

(* A preview that shows nothing at all has lost its session.               *)
BlankPreviewLostSession ==
  shelf.screen = "preview" /\ ~shelf.loading /\ shelf.cards[shelf.id] = "none" =>
    shelf.lost
=============================================================================
