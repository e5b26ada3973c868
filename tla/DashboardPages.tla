---------------------------- MODULE DashboardPages ---------------------------
(***************************************************************************)
(* Three pages behind the sidebar: the dashboard reads its counters once,  *)
(* the template gallery selects a card and leads to the upload page, and   *)
(* the page of the cover letter sends a form and shows what comes back.    *)
(***************************************************************************)
EXTENDS AppShell

VARIABLE
  desktop  \* the page shown, "none" if it is none of these:
           \*   waiting   the page's request is under way
           \*   counters  the dashboard's: "null" or "read"
           \*   failed    history: the counters' request failed, or no session
           \*   selected  the gallery's card; "none"
           \*   mobile    the gallery's view mode
           \*   form      the required fields of the letter that are filled
           \*   letter    a letter is shown
           \*   loading   the flag of the letter's button

Fields == {"name", "company", "role"}
Gallery == {"aurora", "minimal", "cyber", "executive"}

Blank == [page |-> "none", waiting |-> FALSE, counters |-> "null", failed |-> FALSE,
          selected |-> "none", mobile |-> FALSE, form |-> {}, letter |-> FALSE,
          loading |-> FALSE]

DesktopInit == desktop = Blank
DesktopClose == desktop' = Blank

Shows(page) == desktop.page = page /\ Here
-----------------------------------------------------------------------------
\* The dashboard asks for its first hundred portfolios when it is mounted.
OpenDesktop ==
  /\ route \in {"dashboard", "templates", "cover-letter"} /\ Here
  /\ desktop.page = "none"
  /\ desktop' = [Blank EXCEPT !.page = route,
                              !.waiting = (route = "dashboard")]

CountersRead ==
  /\ Shows("dashboard") /\ desktop.waiting
  /\ \/ desktop' = [desktop EXCEPT !.waiting = FALSE, !.counters = "read"]
     \/ desktop' = [desktop EXCEPT !.waiting = FALSE, !.failed = TRUE]
-----------------------------------------------------------------------------
\* A card is selected, or not any more if it was; the panel has a button to
\* close it.
SelectCard(t) ==
  /\ Shows("templates")
  /\ desktop' = [desktop EXCEPT !.selected = IF @ = t THEN "none" ELSE t]

SwitchView ==
  /\ Shows("templates")
  /\ desktop' = [desktop EXCEPT !.mobile = ~@]

\* "Use": to the upload page, with the template in the address.
UseTemplate(t) ==
  /\ desktop.page = "templates" /\ Push("upload") /\ DesktopClose
-----------------------------------------------------------------------------
FillField(f) ==
  /\ Shows("cover-letter")
  /\ \/ desktop' = [desktop EXCEPT !.form = @ \cup {f}]
     \/ desktop' = [desktop EXCEPT !.form = @ \ {f}]

\* An incomplete form is turned away with a message.
AskForLetter ==
  /\ Shows("cover-letter") /\ ~desktop.loading
  /\ desktop.form = Fields
  /\ desktop' = [desktop EXCEPT !.loading = TRUE, !.waiting = TRUE]

(* Faulty variant, used by one check only: without a session the flag stays. *)
LetterEnds_KeepsWaiting ==
  /\ Shows("cover-letter") /\ desktop.waiting
  /\ \/ desktop' = [desktop EXCEPT !.waiting = FALSE]
     \/ desktop' = [desktop EXCEPT !.loading = FALSE, !.waiting = FALSE, !.letter = TRUE]

\* "finally" resets the flag: no session, a failure, or the letter.
LetterEnds ==
  /\ Shows("cover-letter") /\ desktop.waiting
  /\ \/ desktop' = [desktop EXCEPT !.loading = FALSE, !.waiting = FALSE]
     \/ desktop' = [desktop EXCEPT !.loading = FALSE, !.waiting = FALSE, !.letter = TRUE]
-----------------------------------------------------------------------------
LeaveDesktop ==
  /\ desktop.page \in {"templates", "cover-letter"}
  /\ Push("dashboard") /\ DesktopClose

DesktopNext ==
  \/ OpenDesktop \/ CountersRead
  \/ \E t \in Gallery : SelectCard(t) \/ UseTemplate(t)
  \/ SwitchView \/ (\E f \in Fields : FillField(f)) \/ AskForLetter \/ LetterEnds
  \/ LeaveDesktop

\* Every call of the browser ends, by an answer or by an error.
DesktopFairness == WF_<<shell, desktop>>(CountersRead \/ LetterEnds)
-----------------------------------------------------------------------------
DesktopTypeOK ==
  desktop \in [page : {"none", "dashboard", "templates", "cover-letter"},
               waiting : BOOLEAN,
               counters : {"null", "read"}, failed : BOOLEAN,
               selected : Gallery \cup {"none"}, mobile : BOOLEAN,
               form : SUBSET Fields, letter : BOOLEAN, loading : BOOLEAN]
=============================================================================
