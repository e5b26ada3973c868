---------------------------- MODULE PlanSession ------------------------------
(***************************************************************************)
(* Who is signed in, and on which plan the application believes them to    *)
(* be: the provider PlanContext above all pages, the pages /pricing and    *)
(* /dashboard/settings/billing, and the way to Stripe and back.  The plan  *)
(* is read when the session changes and when Stripe reports a success;     *)
(* the webhook that makes it true may come later.  No page reads the       *)
(* provider's own flag "loading", which is left out.                       *)
(***************************************************************************)
EXTENDS AppShell, FiniteSets

CONSTANTS
  Users,
  Buyers,  \* bound: the users who use the buttons that lead to Stripe
  Reads    \* bound: refreshes that can be under way at once

ASSUME BuyersAssumption == Buyers \subseteq Users
ASSUME UsersAssumption == Users \cap {"out", "none"} = {}

VARIABLES
  srv,    \* the backend: tier of each user, webhooks awaited from Stripe
  acct,   \* the application: session (Clerk's), known (Clerk has loaded),
          \* plan (the provider's), welcome (?success=1 is in the address);
          \* buyer: whose checkout was created last; "none": no one's;
          \* asked: who asked for one and left before it was created;
          \* doubt: ghost, the plan is not the last answer about today's user
          \* and plan; early: ghost, that
          \* checkout was created while a webhook was awaited
  reads,  \* reads[r]: a refresh of the provider, for the user whose token it
          \* has; fresh: ghost, it was answered for today's user and plan
  desk    \* the billing or pricing page: its calls, the buttons that wait
          \* for them, the status it fetched; lost: history, a call of its
          \* buttons met no session

planVars == <<srv, acct, reads, desk>>

Tiers == {"free", "pro"}
Buttons == {"checkout", "portal"}

NoRead == [at |-> "off", for |-> "none", said |-> "free", fresh |-> FALSE]
Sent(u) == [NoRead EXCEPT !.at = "sent", !.for = u]
NoDesk == [page |-> "none", calls |-> [b \in Buttons |-> "off"], busy |-> {},
           reading |-> FALSE, status |-> "none", lost |-> FALSE]

SignedIn == acct.known /\ acct.session \in Users
Refreshing == {r \in Reads : reads[r].at # "off"}

\* What the pages offer goes by the provider's plan alone.
OffersUpgrade == acct.plan = "free"

PlanInit ==
  /\ srv = [tier |-> [u \in Users |-> "free"], awaited |-> {}]
  /\ \E s \in Users \cup {"out"} :
       acct = [session |-> s, known |-> FALSE, plan |-> "free", welcome |-> FALSE,
               buyer |-> "none", asked |-> "none", doubt |-> TRUE, early |-> FALSE]
  /\ reads = [r \in Reads |-> NoRead]
  /\ desk = NoDesk

DeskClose == desk' = NoDesk
-----------------------------------------------------------------------------
(* The provider. *)

\* n refreshes at once: each begins with the token of user u.
Start(n, u) ==
  \E new \in SUBSET (Reads \ Refreshing) :
    /\ Cardinality(new) = n
    /\ reads' = [r \in Reads |-> IF r \in new THEN Sent(u) ELSE reads[r]]

\* What has been answered so far speaks of the past.
Past == [r \in Reads |-> [reads[r] EXCEPT !.fresh = FALSE]]

\* The effect of the provider, and that of the billing page while the
\* address says "success": both run when the session is known.
Refreshes == IF acct.welcome THEN 2 ELSE 1

ClerkLoads ==
  /\ ~acct.known /\ Here
  /\ acct' = [acct EXCEPT !.known = TRUE]
  /\ IF acct.session \in Users THEN Start(Refreshes, acct.session) ELSE UNCHANGED reads
  /\ UNCHANGED <<srv, desk>>

\* router.replace takes the parameter out of the address.
WelcomeEnds ==
  /\ acct.welcome /\ Here
  /\ acct' = [acct EXCEPT !.welcome = FALSE]
  /\ UNCHANGED <<srv, reads, desk>>

\* The backend answers for the user of the token, whoever is signed in by then.
ReadServed(r) ==
  /\ reads[r].at = "sent" /\ Here
  /\ reads' = [reads EXCEPT ![r] =
       [NoRead EXCEPT !.at = "answered", !.said = srv.tier[reads[r].for],
                      !.fresh = reads[r].for = acct.session]]
  /\ UNCHANGED <<srv, acct, desk>>

\* Nothing cancels a refresh: its answer is taken for the plan of whoever is
\* signed in when it comes.
ReadDelivered(r) ==
  /\ reads[r].at = "answered" /\ Here
  /\ acct' = [acct EXCEPT !.plan = reads[r].said, !.doubt = ~reads[r].fresh]
  /\ reads' = [reads EXCEPT ![r] = NoRead]
  /\ UNCHANGED <<srv, desk>>

(* Faulty variant, used by one check only: a failure means free. *)
ReadEnds_MeansFree(r) ==
  /\ reads[r].at # "off" /\ Here
  /\ reads' = [reads EXCEPT ![r] = NoRead]
  /\ acct' = [acct EXCEPT !.plan = "free"]
  /\ UNCHANGED <<srv, desk>>

\* No session or a failure: the plan stays what it was.
ReadEnds(r) ==
  /\ reads[r].at # "off" /\ Here
  /\ reads' = [reads EXCEPT ![r] = NoRead]
  /\ UNCHANGED <<srv, acct, desk>>
-----------------------------------------------------------------------------
(* The session.  A bound of the model: users sign out on the dashboard or  *)
(* on the settings page, which shows the plan and keeps no state.          *)

\* The provider's effect runs without a session: the plan stays.
SignOut ==
  /\ SignedIn /\ route \in {"dashboard", "settings"}
  /\ Push("home")
  /\ acct' = [acct EXCEPT !.session = "out"]
  /\ reads' = Past
  /\ UNCHANGED <<srv, desk>>

SignIn(u) ==
  /\ acct.known /\ acct.session = "out" /\ route = "register"
  /\ Push("dashboard")
  /\ acct' = [acct EXCEPT !.session = u, !.doubt = TRUE]
  /\ Start(1, u)
  /\ UNCHANGED <<srv, desk>>

\* Clerk's form sends away whoever is signed in already.
AlreadySignedIn ==
  /\ SignedIn /\ route = "register"
  /\ Push("dashboard") /\ UNCHANGED planVars

\* The public pages lead to one another (to the pricing page by its address
\* or the browser's history), the settings page to the billing page; the
\* dashboard is protected.
Visit ==
  /\ UNCHANGED <<srv, acct, reads>>
  /\ \/ route = "home" /\ Push("pricing") /\ UNCHANGED desk
     \/ route = "home" /\ SignedIn /\ Push("dashboard") /\ UNCHANGED desk
     \/ route = "home" /\ Push("register") /\ UNCHANGED desk
     \/ route = "settings" /\ Push("billing") /\ UNCHANGED desk
     \/ route = "settings" /\ Push("dashboard") /\ UNCHANGED desk
     \/ route \in {"dashboard", "billing", "settings"} /\ ~SignedIn /\ acct.known
        /\ Push("register") /\ DeskClose
-----------------------------------------------------------------------------
(* The billing and the pricing page. *)

\* A bound of the model: a redirect to Stripe that was left behind comes,
\* or is lost, before one of these pages is opened again.
OpenDesk ==
  /\ route \in {"billing", "pricing"} /\ desk.page = "none" /\ Here
  /\ late # "checkout"
  /\ desk' = [NoDesk EXCEPT !.page = route, !.reading = (route = "billing")]
  /\ UNCHANGED <<srv, acct, reads>>

\* "Refresh billing status" reads the page's own status, not the plan.
RefreshStatus ==
  /\ desk.page = "billing" /\ ~desk.reading /\ Here
  /\ desk' = [desk EXCEPT !.reading = TRUE]
  /\ UNCHANGED <<srv, acct, reads>>

StatusEnds ==
  /\ desk.reading /\ Here
  /\ \/ desk' = [desk EXCEPT !.reading = FALSE]
     \/ SignedIn /\ desk' = [desk EXCEPT !.reading = FALSE,
                                         !.status = srv.tier[acct.session]]
  /\ UNCHANGED <<srv, acct, reads>>

\* "Upgrade" is offered by the plan shown, "Open Stripe Portal" by the
\* billing page to the others; a button that waits is disabled.
Click(b) ==
  /\ desk.page # "none" /\ b \notin desk.busy /\ Here
  /\ acct.session \in Buyers
  /\ (b = "checkout") = OffersUpgrade
  /\ b = "portal" => desk.page = "billing"
  /\ desk.page = "pricing" => SignedIn
  /\ desk' = [desk EXCEPT !.busy = @ \cup {b}, !.calls[b] = "sent"]
  /\ UNCHANGED <<srv, acct, reads>>

\* Whoever is not known to be signed in is sent to register first.
ClickSignedOut ==
  /\ desk.page = "pricing" /\ OffersUpgrade /\ desk.busy = {} /\ ~SignedIn
  /\ Push("register") /\ DeskClose
  /\ UNCHANGED <<srv, acct, reads>>

(* Faulty variant, used by one check only: anyone may buy again. *)
MayCreate_Anyone(b) == TRUE

\* POST /billing/create-checkout refuses who is Pro already.
MayCreate(b) ==
  b = "checkout" => srv.tier[acct.session] = "free"

CallServed(b) ==
  /\ desk.calls[b] = "sent" /\ SignedIn /\ MayCreate(b) /\ Here
  /\ desk' = [desk EXCEPT !.calls[b] = "created"]
  /\ acct' = IF b = "checkout"
             THEN [acct EXCEPT !.buyer = acct.session,
                               !.early = acct.session \in srv.awaited]
             ELSE acct
  /\ UNCHANGED <<srv, reads>>

Forgotten == [acct EXCEPT !.buyer = "none", !.asked = "none", !.early = FALSE]

(* Faulty variant, used by one check only: the button waits on after an error. *)
CallFails_KeepsWaiting(b) ==
  /\ desk.calls[b] # "off" /\ Here
  /\ desk' = [desk EXCEPT !.calls[b] = "off"]
  /\ acct' = IF b = "checkout" THEN Forgotten ELSE acct
  /\ UNCHANGED <<srv, reads>>

\* A refusal or a lost call: the button is back.
CallFails(b) ==
  /\ desk.calls[b] # "off" /\ Here
  /\ desk' = [desk EXCEPT !.calls[b] = "off", !.busy = @ \ {b}]
  /\ acct' = IF b = "checkout" THEN Forgotten ELSE acct
  /\ UNCHANGED <<srv, reads>>

\* No session: the billing page returns with its button waiting.
CallWithoutToken(b) ==
  /\ desk.calls[b] = "sent" /\ desk.page = "billing" /\ Here
  /\ desk' = [desk EXCEPT !.calls[b] = "off", !.lost = TRUE]
  /\ UNCHANGED <<srv, acct, reads>>

\* A call for a checkout goes on behind the page, created or not yet.
LeaveDesk ==
  /\ desk.page # "none"
  /\ \E d \in {"dashboard", "home"} :
       /\ d = "dashboard" => SignedIn
       /\ LeaveFor(d, desk.calls["checkout"] # "off", "checkout")
  /\ DeskClose
  /\ acct' = [acct EXCEPT !.welcome = FALSE, !.asked =
                IF desk.calls["checkout"] = "sent" /\ late' = "checkout"
                THEN acct.session ELSE "none"]
  /\ UNCHANGED <<srv, reads>>

LateCallServed ==
  /\ Here /\ acct.asked \in Users /\ srv.tier[acct.asked] = "free"
  /\ acct' = [acct EXCEPT !.buyer = acct.asked, !.asked = "none",
                          !.early = acct.asked \in srv.awaited]
  /\ UNCHANGED <<srv, reads, desk>>
-----------------------------------------------------------------------------
(* Stripe.  The application is unloaded on the way there and starts anew   *)
(* on the way back; Clerk's session is still there.                        *)

Unloaded == [acct EXCEPT !.known = FALSE, !.plan = "free", !.welcome = FALSE,
                         !.doubt = TRUE]

Unload ==
  /\ acct' = Unloaded
  /\ reads' = [r \in Reads |-> NoRead]
  /\ DeskClose

Depart(b) ==
  /\ desk.calls[b] = "created"
  /\ route' = b /\ late' = "none" /\ Unload
  /\ UNCHANGED srv

Paid ==
  /\ route = "checkout" /\ Push("billing")
  /\ srv' = [srv EXCEPT !.awaited = @ \cup {acct.buyer}]
  /\ acct' = [Forgotten EXCEPT !.welcome = TRUE]
  /\ UNCHANGED <<reads, desk>>

\* cancel_url is the pricing page; the portal returns to the billing page.
Return ==
  /\ \/ route = "checkout" /\ Push("pricing")
     \/ route = "portal" /\ Push("billing")
  /\ acct' = Forgotten
  /\ UNCHANGED <<srv, reads, desk>>

\* A webhook arrives: the payment, or the end of a subscription.
WebhookHandled(u) ==
  /\ Here
  /\ \/ u \in srv.awaited
        /\ srv' = [tier |-> [srv.tier EXCEPT ![u] = "pro"], awaited |-> srv.awaited \ {u}]
     \/ srv.tier[u] = "pro" /\ srv' = [srv EXCEPT !.tier[u] = "free"]
  /\ acct' = [acct EXCEPT !.doubt = TRUE]
  /\ reads' = Past
  /\ UNCHANGED desk

ButtonSettles(b) ==
  CallServed(b) \/ CallFails(b) \/ CallWithoutToken(b) \/ Depart(b)

PlanNext ==
  \/ ClerkLoads \/ WelcomeEnds
  \/ \E r \in Reads : ReadServed(r) \/ ReadDelivered(r) \/ ReadEnds(r)
  \/ SignOut \/ AlreadySignedIn \/ Visit
  \/ \E u \in Users : SignIn(u) \/ WebhookHandled(u)
  \/ OpenDesk \/ RefreshStatus \/ StatusEnds \/ ClickSignedOut \/ LeaveDesk \/ LateCallServed
  \/ \E b \in Buttons : Click(b) \/ ButtonSettles(b)
  \/ Paid \/ Return

\* Every call of the browser ends, by an answer or by an error.
PlanFairness ==
  /\ WF_<<shell, planVars>>(StatusEnds)
  /\ \A b \in Buttons : WF_<<shell, planVars>>(ButtonSettles(b))
-----------------------------------------------------------------------------
PlanTypeOK ==
  /\ srv \in [tier : [Users -> Tiers], awaited : SUBSET Users]
  /\ acct \in [session : Users \cup {"out"}, known : BOOLEAN, plan : Tiers,
               welcome : BOOLEAN, buyer : Users \cup {"none"},
               asked : Users \cup {"out", "none"}, doubt : BOOLEAN, early : BOOLEAN]
  /\ reads \in [Reads -> [at : {"off", "sent", "answered"}, for : Users \cup {"none"},
                          said : Tiers, fresh : BOOLEAN]]
  /\ desk \in [page : {"none", "billing", "pricing"},
               calls : [Buttons -> {"off", "sent", "created"}],
               busy : SUBSET Buttons, reading : BOOLEAN,
               status : Tiers \cup {"none"}, lost : BOOLEAN]

(* The plan shown, by which the pages offer an upgrade, is the user's      *)
(* plan, unless the user or the plan has changed since the answer that was *)
(* delivered last, or that answer was one for another user (a refresh left *)
(* by who signed out is not cancelled) or for a plan changed since: no     *)
(* failed refresh, and no refresh under way, unsettles it.                 *)
PlanShownIsServer ==
  SignedIn /\ ~acct.doubt => acct.plan = srv.tier[acct.session]

(* A buyer who is Pro stands at a checkout only when it was created while   *)
(* the webhook of an earlier payment was still awaited, however stale the  *)
(* plan shown was.                                                         *)
SecondCheckoutOnlyBeforeWebhook ==
  route = "checkout" /\ srv.tier[acct.buyer] = "pro" => acct.early

(* A button of the billing page that waits for nothing has lost its        *)
(* session.                                                                *)
WaitingButtonLostSession ==
  \A b \in desk.busy : desk.calls[b] = "off" => desk.lost
=============================================================================
