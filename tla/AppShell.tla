------------------------------ MODULE AppShell -------------------------------
(***************************************************************************)
(* The router as the pages share it: one page is mounted at a time, links  *)
(* lead from page to page, and a page pushes a route when its own work is  *)
(* done, even after the user has left it.  The pages extend this module;   *)
(* each of them forgets its state when the route leaves it.                *)
(***************************************************************************)

VARIABLES
  route,  \* the page the router shows
  late    \* the push a call of a page left behind may still make; "none"

shell == <<route, late>>

NavTop == {"dashboard", "build-resume", "upload", "portfolios", "templates", "cover-letter"}
NavBottom == {"billing", "settings"}
QuickActions == {"build-resume", "upload", "cover-letter", "templates"}
PublicRoutes == {"home", "pricing", "register"}

\* Pages without a link of their own: only a push leads to them.
Dynamic == {"generating", "preview"}

\* The payment pages of Stripe: leaving for them unloads the application.
External == {"checkout", "portal"}

Routes == NavTop \cup NavBottom \cup PublicRoutes \cup Dynamic \cup External

Here == UNCHANGED shell

Push(d) == route' = d /\ UNCHANGED late

(* A call under way when its page is left ends by a push, or it does not;  *)
(* a bound of the model: the last such push is followed.                   *)
LeaveFor(d, pending, push) ==
  /\ route' = d
  /\ late' \in IF pending THEN {late, push} ELSE {late}

ShellInit == route = "dashboard" /\ late = "none"

(* A bound of the model: links are followed from the dashboard only; the   *)
(* sidebar has the same links on every page, and a page left for another   *)
(* page is left the way it is left for the dashboard.                      *)
Follow ==
  /\ route = "dashboard"
  /\ \E d \in (NavTop \cup NavBottom \cup QuickActions \cup {"home", "pricing"}) \ {"dashboard"} :
       Push(d)

\* The call fails after all, or it pushes the page that is shown already.
LateSettled == late # "none" /\ late' = "none" /\ UNCHANGED route

ShellTypeOK == route \in Routes /\ late \in {"none", "generating", "portfolios", "checkout"}
=============================================================================
