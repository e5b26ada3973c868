-------------------------- MODULE PlanSessionProofs ---------------------------
(* Proofs about PlanSession, for any users and any number of refreshes.  The  *)
(* step lemmas speak of PlanMoves: its own steps, and what the application's  *)
(* other pages do to the route while the account stays as it is.              *)
EXTENDS PlanSession, TLAPS

Accounts ==
  [session : Users \cup {"out"}, known : BOOLEAN, plan : Tiers,
   welcome : BOOLEAN, buyer : Users \cup {"none"},
   asked : Users \cup {"out", "none"}, doubt : BOOLEAN, early : BOOLEAN]
ReadStates ==
  [at : {"off", "sent", "answered"}, for : Users \cup {"none"}, said : Tiers, fresh : BOOLEAN]
Desks ==
  [page : {"none", "billing", "pricing"}, calls : [Buttons -> {"off", "sent", "created"}],
   busy : SUBSET Buttons, reading : BOOLEAN, status : Tiers \cup {"none"}, lost : BOOLEAN]
Servers == [tier : [Users -> Tiers], awaited : SUBSET Users]

\* A session that is not known yet has asked for nothing.
UnknownIsQuiet ==
  ~acct.known => acct.doubt /\ \A r \in Reads : reads[r].at = "off"

\* A fresh answer speaks of today's user and plan.
FreshIsTrue ==
  \A r \in Reads :
    reads[r].fresh => SignedIn /\ reads[r].said = srv.tier[acct.session]

\* A refresh that was sent bears the token of a user.
SentForUser == \A r \in Reads : reads[r].at = "sent" => reads[r].for \in Users

AccountInv == UnknownIsQuiet /\ FreshIsTrue /\ SentForUser /\ PlanShownIsServer

\* Whoever is on the way to a checkout is its buyer, once it is created.
Created ==
  \/ desk.calls["checkout"] = "created" \/ route = "checkout"
  \/ late = "checkout" /\ acct.asked = "none"

CheckoutHasBuyer == Created => acct.buyer \in Users

\* A redirect left behind is not joined by another one, and away from the
\* application nothing of it is left.
OneRedirect ==
  /\ late = "checkout" => desk = NoDesk
  /\ route \in External => late = "none" /\ desk = NoDesk

\* A buyer who has paid, or is Pro, was awaited when the checkout was made.
BuyerWasAwaited ==
  acct.buyer \in Users /\ (acct.buyer \in srv.awaited \/ srv.tier[acct.buyer] = "pro")
    => acct.early

CheckoutInv == CheckoutHasBuyer /\ OneRedirect /\ BuyerWasAwaited

PlanInv == PlanTypeOK /\ AccountInv /\ CheckoutInv /\ WaitingButtonLostSession

LEMMA PlanTypes ==
  PlanTypeOK <=> srv \in Servers /\ acct \in Accounts /\ reads \in [Reads -> ReadStates]
                 /\ desk \in Desks
BY DEF PlanTypeOK, Servers, Accounts, ReadStates, Desks

LEMMA NextTypes ==
  ASSUME srv' \in Servers, acct' \in Accounts, reads' \in [Reads -> ReadStates], desk' \in Desks
  PROVE  PlanTypeOK'
BY DEF PlanTypeOK, Servers, Accounts, ReadStates, Desks

LEMMA NoDeskTyped ==
  /\ NoDesk \in Desks /\ NoDesk.page = "none" /\ NoDesk.busy = {} /\ ~NoDesk.reading
  /\ \A b \in Buttons : NoDesk.calls[b] = "off"
BY DEF NoDesk, Desks, Buttons, Tiers
-----------------------------------------------------------------------------
LEMMA PlanInitInv == ASSUME PlanInit, route = "dashboard", late = "none" PROVE PlanInv
<1>1. srv \in Servers
  BY DEF PlanInit, Servers, Tiers
<1>2. acct \in Accounts /\ acct.doubt /\ ~acct.known /\ acct.buyer = "none"
  BY DEF PlanInit, Accounts, Tiers
<1>3. /\ reads \in [Reads -> ReadStates]
      /\ \A r \in Reads : reads[r].at = "off" /\ ~reads[r].fresh
  BY DEF PlanInit, ReadStates, NoRead, Tiers
<1>4. desk = NoDesk /\ desk \in Desks
  BY NoDeskTyped DEF PlanInit
<1>5. PlanTypeOK
  BY <1>1, <1>2, <1>3, <1>4, PlanTypes
<1>6. AccountInv
  BY <1>2, <1>3 DEF AccountInv, UnknownIsQuiet, FreshIsTrue, SentForUser, PlanShownIsServer, SignedIn
<1>7. CheckoutInv
  <2>1. CheckoutHasBuyer /\ OneRedirect
    BY <1>4, NoDeskTyped DEF CheckoutHasBuyer, Created, OneRedirect, External, Buttons
  <2>2. BuyerWasAwaited
    BY <1>2, UsersAssumption DEF BuyerWasAwaited
  <2> QED
    BY <2>1, <2>2 DEF CheckoutInv
<1>8. WaitingButtonLostSession
  BY <1>4, NoDeskTyped DEF WaitingButtonLostSession
<1> QED
  BY <1>5, <1>6, <1>7, <1>8 DEF PlanInv
-----------------------------------------------------------------------------
(* What leaves the account, the checkout or the desk alone keeps what is said *)
(* of it.                                                                     *)

SameAccount ==
  /\ UNCHANGED reads /\ srv'.tier = srv.tier
  /\ acct'.session = acct.session /\ acct'.known = acct.known
  /\ acct'.plan = acct.plan /\ acct'.doubt = acct.doubt

LEMMA AccountFrame == ASSUME AccountInv, SameAccount PROVE AccountInv'
<1>1. SignedIn' <=> SignedIn
  BY DEF SameAccount, SignedIn
<1> QED
  BY <1>1 DEF SameAccount, AccountInv, UnknownIsQuiet, FreshIsTrue, SentForUser, PlanShownIsServer

\* The route changes, but not to a page of Stripe.
Elsewhere == route' \notin External /\ (late' = "checkout" => late = "checkout")

SameCheckout ==
  /\ desk' \in {desk, NoDesk} /\ UNCHANGED srv
  /\ acct'.buyer = acct.buyer /\ acct'.early = acct.early /\ acct'.asked = acct.asked
  /\ Here \/ Elsewhere

LEMMA CheckoutFrame ==
  ASSUME CheckoutInv, WaitingButtonLostSession, SameCheckout
  PROVE  CheckoutInv' /\ WaitingButtonLostSession'
<1>1. "checkout" \in External /\ "checkout" \in Buttons
  BY DEF External, Buttons
<1>2. CheckoutHasBuyer'
  BY <1>1, NoDeskTyped
     DEF CheckoutInv, CheckoutHasBuyer, Created, SameCheckout, Here, Elsewhere, shell
<1>3. OneRedirect'
  BY DEF CheckoutInv, OneRedirect, SameCheckout, Here, Elsewhere, shell
<1>4. BuyerWasAwaited'
  BY DEF CheckoutInv, BuyerWasAwaited, SameCheckout
<1>5. WaitingButtonLostSession'
  BY NoDeskTyped DEF WaitingButtonLostSession, SameCheckout
<1> QED
  BY <1>2, <1>3, <1>4, <1>5 DEF CheckoutInv
-----------------------------------------------------------------------------
(* The provider and the session.                                              *)

LEMMA StartTyped ==
  ASSUME NEW n, NEW u \in Users, Start(n, u), reads \in [Reads -> ReadStates]
  PROVE  /\ reads' \in [Reads -> ReadStates]
         /\ \A r \in Reads :
              reads'[r] = reads[r] \/ (reads'[r].for \in Users /\ ~reads'[r].fresh)
<1>1. Sent(u) \in ReadStates /\ Sent(u).for \in Users /\ ~Sent(u).fresh
  BY DEF Sent, NoRead, ReadStates, Tiers
<1> QED
  BY <1>1 DEF Start

LEMMA PastTyped ==
  ASSUME reads \in [Reads -> ReadStates]
  PROVE  Past \in [Reads -> ReadStates]
         /\ \A r \in Reads : ~Past[r].fresh /\ Past[r].at = reads[r].at /\ Past[r].for = reads[r].for
BY DEF Past, ReadStates

LEMMA ClerkLoadsInv == ASSUME PlanInv, ClerkLoads PROVE PlanInv'
<1>1. /\ srv \in Servers /\ acct \in Accounts /\ reads \in [Reads -> ReadStates]
      /\ desk \in Desks /\ acct' = [acct EXCEPT !.known = TRUE] /\ ~acct.known
      /\ Here /\ UNCHANGED <<srv, desk>>
  BY PlanTypes DEF PlanInv, ClerkLoads
<1>2. /\ reads' \in [Reads -> ReadStates]
      /\ \A r \in Reads :
           reads'[r] = reads[r] \/ (reads'[r].for \in Users /\ ~reads'[r].fresh)
  <2>1. CASE acct.session \in Users
    BY <1>1, <2>1, StartTyped DEF ClerkLoads
  <2>2. CASE acct.session \notin Users
    BY <1>1, <2>2 DEF ClerkLoads
  <2> QED
    BY <2>1, <2>2
<1>3. acct' \in Accounts /\ acct'.known /\ acct'.doubt = acct.doubt
      /\ acct'.buyer = acct.buyer /\ acct'.early = acct.early /\ acct'.asked = acct.asked
  BY <1>1 DEF Accounts
<1>4. acct.doubt /\ \A r \in Reads : ~reads[r].fresh
  BY <1>1 DEF PlanInv, AccountInv, UnknownIsQuiet, FreshIsTrue, SignedIn
<1>5. PlanTypeOK'
  BY <1>1, <1>2, <1>3, NextTypes
<1>6. AccountInv'
  BY <1>2, <1>3, <1>4 DEF PlanInv, AccountInv, UnknownIsQuiet, FreshIsTrue, SentForUser, PlanShownIsServer
<1>7. SameCheckout
  BY <1>1, <1>3 DEF SameCheckout
<1> QED
  BY <1>5, <1>6, <1>7, CheckoutFrame DEF PlanInv

LEMMA AnswersInv ==
  ASSUME PlanInv, NEW r \in Reads, ReadServed(r) \/ ReadDelivered(r) \/ ReadEnds(r)
  PROVE  PlanInv'
<1>1. /\ srv \in Servers /\ acct \in Accounts /\ reads \in [Reads -> ReadStates]
      /\ desk \in Desks /\ Here /\ UNCHANGED <<srv, desk>>
  BY PlanTypes DEF PlanInv, ReadServed, ReadDelivered, ReadEnds
<1>2. NoRead \in ReadStates /\ NoRead.at = "off" /\ ~NoRead.fresh
  BY DEF NoRead, ReadStates, Tiers
<1>3. CASE ReadServed(r)
  <2> DEFINE u == reads[r].for
             new == [NoRead EXCEPT !.at = "answered", !.said = srv.tier[u],
                                   !.fresh = u = acct.session]
  <2>1. UNCHANGED acct /\ reads' = [reads EXCEPT ![r] = new] /\ u \in Users /\ acct.known
    BY <1>3 DEF ReadServed, PlanInv, AccountInv, SentForUser, UnknownIsQuiet
  <2>2. /\ new \in ReadStates /\ new.at = "answered"
        /\ new.fresh => SignedIn /\ new.said = srv.tier[acct.session]
    BY <1>1, <2>1 DEF NoRead, ReadStates, Servers, SignedIn, Tiers
  <2> HIDE DEF new
  <2>3. /\ reads' \in [Reads -> ReadStates]
        /\ \A q \in Reads : reads'[q] = IF q = r THEN new ELSE reads[q]
    BY <1>1, <2>1, <2>2
  <2>4. AccountInv'
    BY <1>1, <2>1, <2>2, <2>3
       DEF PlanInv, AccountInv, UnknownIsQuiet, FreshIsTrue, SentForUser, PlanShownIsServer, SignedIn
  <2>5. SameCheckout
    BY <1>1, <2>1 DEF SameCheckout
  <2>6. PlanTypeOK'
    BY <1>1, <2>1, <2>3, NextTypes
  <2> QED
    BY <2>4, <2>5, <2>6, CheckoutFrame DEF PlanInv
<1>4. CASE ReadDelivered(r)
  <2>1. /\ acct' = [acct EXCEPT !.plan = reads[r].said, !.doubt = ~reads[r].fresh]
        /\ reads' = [reads EXCEPT ![r] = NoRead] /\ reads[r].at = "answered"
    BY <1>4 DEF ReadDelivered
  <2>2. /\ reads' \in [Reads -> ReadStates]
        /\ \A q \in Reads : reads'[q] = IF q = r THEN NoRead ELSE reads[q]
    BY <1>1, <1>2, <2>1
  <2>3. reads[r].said \in Tiers /\ reads[r].fresh \in BOOLEAN
    BY <1>1 DEF ReadStates
  <2>4. /\ acct' \in Accounts /\ acct'.session = acct.session /\ acct'.known = acct.known
        /\ acct'.plan = reads[r].said /\ acct'.doubt = ~reads[r].fresh
        /\ acct'.buyer = acct.buyer /\ acct'.early = acct.early /\ acct'.asked = acct.asked
    BY <1>1, <2>1, <2>3 DEF Accounts
  <2>5. AccountInv'
    BY <1>1, <1>2, <2>1, <2>2, <2>4
       DEF PlanInv, AccountInv, UnknownIsQuiet, FreshIsTrue, SentForUser, PlanShownIsServer, SignedIn
  <2>6. SameCheckout
    BY <1>1, <2>4 DEF SameCheckout
  <2>7. PlanTypeOK'
    BY <1>1, <2>2, <2>4, NextTypes
  <2> QED
    BY <2>5, <2>6, <2>7, CheckoutFrame DEF PlanInv
<1>5. CASE ReadEnds(r)
  <2>1. UNCHANGED acct /\ reads' = [reads EXCEPT ![r] = NoRead]
    BY <1>5 DEF ReadEnds
  <2>2. /\ reads' \in [Reads -> ReadStates]
        /\ \A q \in Reads : reads'[q] = IF q = r THEN NoRead ELSE reads[q]
    BY <1>1, <1>2, <2>1
  <2>3. AccountInv'
    BY <1>1, <1>2, <2>1, <2>2
       DEF PlanInv, AccountInv, UnknownIsQuiet, FreshIsTrue, SentForUser, PlanShownIsServer, SignedIn
  <2>4. SameCheckout
    BY <1>1, <2>1 DEF SameCheckout
  <2>5. PlanTypeOK'
    BY <1>1, <2>1, <2>2, NextTypes
  <2> QED
    BY <2>3, <2>4, <2>5, CheckoutFrame DEF PlanInv
<1> QED
  BY <1>3, <1>4, <1>5

(* A change of user makes every answer so far one about somebody else.        *)
LEMMA SessionsInv ==
  ASSUME PlanInv, SignOut \/ (\E u \in Users : SignIn(u))
  PROVE  PlanInv'
<1>1. /\ srv \in Servers /\ acct \in Accounts /\ reads \in [Reads -> ReadStates]
      /\ desk \in Desks /\ UNCHANGED <<srv, desk>> /\ acct.known
  BY PlanTypes DEF PlanInv, SignOut, SignIn, SignedIn
<1>2. Elsewhere
  BY DEF SignOut, SignIn, Push, Elsewhere, External
<1>3. CASE SignOut
  <2>1. acct' = [acct EXCEPT !.session = "out"] /\ reads' = Past
    BY <1>3 DEF SignOut
  <2>2. /\ acct' \in Accounts /\ acct'.session = "out" /\ acct'.known
        /\ acct'.buyer = acct.buyer /\ acct'.early = acct.early /\ acct'.asked = acct.asked
    BY <1>1, <2>1 DEF Accounts
  <2>3. AccountInv'
    BY <1>1, <2>1, <2>2, PastTyped, UsersAssumption
       DEF PlanInv, AccountInv, UnknownIsQuiet, FreshIsTrue, SentForUser, PlanShownIsServer, SignedIn
  <2>4. SameCheckout
    BY <1>1, <1>2, <2>2 DEF SameCheckout
  <2>5. PlanTypeOK'
    BY <1>1, <2>1, <2>2, PastTyped, NextTypes
  <2> QED
    BY <2>3, <2>4, <2>5, CheckoutFrame DEF PlanInv
<1>4. ASSUME NEW u \in Users, SignIn(u) PROVE PlanInv'
  <2>1. acct.session = "out" /\ acct' = [acct EXCEPT !.session = u, !.doubt = TRUE] /\ Start(1, u)
    BY <1>4 DEF SignIn
  <2>2. /\ acct' \in Accounts /\ acct'.doubt /\ acct'.known
        /\ acct'.buyer = acct.buyer /\ acct'.early = acct.early /\ acct'.asked = acct.asked
    BY <1>1, <2>1 DEF Accounts
  <2>3. \A r \in Reads : ~reads[r].fresh
    BY <2>1, UsersAssumption DEF PlanInv, AccountInv, FreshIsTrue, SignedIn
  <2>4. /\ reads' \in [Reads -> ReadStates]
        /\ \A r \in Reads : ~reads'[r].fresh
        /\ \A r \in Reads : reads'[r] = reads[r] \/ reads'[r].for \in Users
    BY <1>1, <2>1, <2>3, StartTyped
  <2>5. AccountInv'
    BY <2>2, <2>4 DEF PlanInv, AccountInv, UnknownIsQuiet, FreshIsTrue, SentForUser, PlanShownIsServer
  <2>6. SameCheckout
    BY <1>1, <1>2, <2>2 DEF SameCheckout
  <2>7. PlanTypeOK'
    BY <1>1, <2>2, <2>4, NextTypes
  <2> QED
    BY <2>5, <2>6, <2>7, CheckoutFrame DEF PlanInv
<1> QED
  BY <1>3, <1>4
-----------------------------------------------------------------------------
(* The pages: they change neither the account nor what is known of it.        *)

LEMMA QuietStepsInv ==
  ASSUME PlanInv, WelcomeEnds \/ AlreadySignedIn \/ Visit \/ ClickSignedOut
  PROVE  PlanInv'
<1>1. /\ srv \in Servers /\ acct \in Accounts /\ reads \in [Reads -> ReadStates] /\ desk \in Desks
  BY PlanTypes DEF PlanInv
<1>2. UNCHANGED <<srv, reads>> /\ desk' \in {desk, NoDesk}
  BY DEF WelcomeEnds, AlreadySignedIn, Visit, ClickSignedOut, planVars, DeskClose
<1>3. /\ acct' \in Accounts /\ SameAccount
      /\ acct'.buyer = acct.buyer /\ acct'.early = acct.early /\ acct'.asked = acct.asked
  BY <1>1, <1>2
     DEF WelcomeEnds, AlreadySignedIn, Visit, ClickSignedOut, planVars, Accounts, SameAccount
<1>4. Here \/ Elsewhere
  BY DEF WelcomeEnds, AlreadySignedIn, Visit, ClickSignedOut, Push, Elsewhere, External
<1>5. SameCheckout
  BY <1>2, <1>3, <1>4 DEF SameCheckout
<1>6. PlanTypeOK'
  BY <1>1, <1>2, <1>3, NoDeskTyped, NextTypes
<1> QED
  BY <1>3, <1>5, <1>6, AccountFrame, CheckoutFrame DEF PlanInv

LEMMA LeaveDeskInv == ASSUME PlanInv, LeaveDesk PROVE PlanInv'
<1> DEFINE who == IF desk.calls["checkout"] = "sent" /\ late' = "checkout"
                  THEN acct.session ELSE "none"
<1>1. /\ srv \in Servers /\ acct \in Accounts /\ reads \in [Reads -> ReadStates] /\ desk \in Desks
      /\ UNCHANGED <<srv, reads>> /\ desk' = NoDesk /\ desk.page # "none"
      /\ acct' = [acct EXCEPT !.welcome = FALSE, !.asked = who]
  BY PlanTypes DEF PlanInv, LeaveDesk, DeskClose
<1>2. /\ late # "checkout" /\ route' \notin External
      /\ late' = "checkout" => desk.calls["checkout"] # "off"
  <2>1. late # "checkout"
    BY <1>1, NoDeskTyped DEF PlanInv, CheckoutInv, OneRedirect
  <2> QED
    BY <2>1 DEF LeaveDesk, LeaveFor, External
<1>3. /\ who \in Users \cup {"out", "none"}
      /\ late' = "checkout" /\ who = "none" => desk.calls["checkout"] = "created"
  <2>1. acct.session \in Users \cup {"out"} /\ acct.session # "none"
    BY <1>1, UsersAssumption DEF Accounts
  <2>2. desk.calls["checkout"] \in {"off", "sent", "created"}
    BY <1>1 DEF Desks, Buttons
  <2> QED
    BY <1>2, <2>1, <2>2
<1> HIDE DEF who
<1>4. /\ acct' \in Accounts /\ SameAccount /\ acct'.asked = who
      /\ acct'.buyer = acct.buyer /\ acct'.early = acct.early
  BY <1>1, <1>3 DEF Accounts, SameAccount
<1>5. CheckoutInv'
  <2>1. CheckoutHasBuyer'
    BY <1>1, <1>2, <1>3, <1>4, NoDeskTyped
       DEF PlanInv, CheckoutInv, CheckoutHasBuyer, Created, External, Buttons
  <2>2. OneRedirect'
    BY <1>1, <1>2 DEF OneRedirect
  <2>3. BuyerWasAwaited'
    BY <1>1, <1>4 DEF PlanInv, CheckoutInv, BuyerWasAwaited
  <2> QED
    BY <2>1, <2>2, <2>3 DEF CheckoutInv
<1>6. WaitingButtonLostSession'
  BY <1>1, NoDeskTyped DEF WaitingButtonLostSession
<1>7. PlanTypeOK'
  BY <1>1, <1>4, NoDeskTyped, NextTypes
<1> QED
  BY <1>4, <1>5, <1>6, <1>7, AccountFrame DEF PlanInv

\* The checkout asked for by who has left is created for that user.
LEMMA LateCallInv == ASSUME PlanInv, LateCallServed PROVE PlanInv'
<1> DEFINE wasAwaited == acct.asked \in srv.awaited
<1>1. /\ srv \in Servers /\ acct \in Accounts /\ reads \in [Reads -> ReadStates] /\ desk \in Desks
      /\ UNCHANGED <<srv, reads, desk>> /\ Here
      /\ acct.asked \in Users /\ srv.tier[acct.asked] = "free"
      /\ acct' = [acct EXCEPT !.buyer = acct.asked, !.asked = "none", !.early = wasAwaited]
  BY PlanTypes DEF PlanInv, LateCallServed
<1>2. wasAwaited \in BOOLEAN
  OBVIOUS
<1> HIDE DEF wasAwaited
<1>3. /\ acct' \in Accounts /\ SameAccount
      /\ acct'.buyer = acct.asked /\ acct'.early = wasAwaited
  BY <1>1, <1>2 DEF Accounts, SameAccount
<1>4. CheckoutInv'
  <2>1. CheckoutHasBuyer'
    BY <1>1, <1>3 DEF CheckoutHasBuyer, Created
  <2>2. OneRedirect'
    BY <1>1 DEF PlanInv, CheckoutInv, OneRedirect, Here, shell
  <2>3. BuyerWasAwaited'
    BY <1>1, <1>3 DEF BuyerWasAwaited, wasAwaited
  <2> QED
    BY <2>1, <2>2, <2>3 DEF CheckoutInv
<1>5. WaitingButtonLostSession'
  BY <1>1 DEF PlanInv, WaitingButtonLostSession
<1>6. PlanTypeOK'
  BY <1>1, <1>3, NextTypes
<1> QED
  BY <1>3, <1>4, <1>5, <1>6, AccountFrame DEF PlanInv

(* A desk that is shown excludes a redirect left behind.                      *)
LEMMA DeskShown ==
  ASSUME PlanInv, desk # NoDesk
  PROVE  late # "checkout" /\ route \notin External /\ route # "checkout"
BY DEF PlanInv, CheckoutInv, OneRedirect, External

LEMMA DeskStepsInv ==
  ASSUME PlanInv,
         OpenDesk \/ RefreshStatus \/ StatusEnds \/ (\E b \in Buttons : Click(b) \/ CallWithoutToken(b))
  PROVE  PlanInv'
<1>1. /\ srv \in Servers /\ acct \in Accounts /\ reads \in [Reads -> ReadStates] /\ desk \in Desks
      /\ UNCHANGED <<srv, acct, reads>> /\ Here
  BY PlanTypes DEF PlanInv, OpenDesk, RefreshStatus, StatusEnds, Click, CallWithoutToken
<1>2. late # "checkout" /\ route \notin External
  <2>1. CASE OpenDesk
    BY <2>1 DEF OpenDesk, External
  <2>2. CASE ~OpenDesk
    BY <2>2, DeskShown, NoDeskTyped DEF RefreshStatus, StatusEnds, Click, CallWithoutToken
  <2> QED
    BY <2>1, <2>2
<1>3. /\ desk' \in Desks
      /\ desk'.calls["checkout"] = "created" => desk.calls["checkout"] = "created"
      /\ \A b \in desk'.busy : desk'.calls[b] = "off" => desk'.lost
  <2>1. \A b \in desk.busy : desk.calls[b] = "off" => desk.lost
    BY DEF PlanInv, WaitingButtonLostSession
  <2>2. CASE OpenDesk
    BY <1>1, <2>2, NoDeskTyped DEF OpenDesk, Desks, Buttons
  <2>3. CASE RefreshStatus
    BY <1>1, <2>1, <2>3 DEF RefreshStatus, Desks
  <2>4. CASE StatusEnds
    <3>1. SignedIn => srv.tier[acct.session] \in Tiers
      BY <1>1 DEF SignedIn, Servers
    <3> QED
      BY <1>1, <2>1, <2>4, <3>1 DEF StatusEnds, Desks
  <2>5. ASSUME NEW b \in Buttons, Click(b) PROVE <1>3!1 /\ <1>3!2 /\ <1>3!3
    BY <1>1, <2>1, <2>5 DEF Click, Desks, Buttons
  <2>6. ASSUME NEW b \in Buttons, CallWithoutToken(b) PROVE <1>3!1 /\ <1>3!2 /\ <1>3!3
    BY <1>1, <2>1, <2>6 DEF CallWithoutToken, Desks, Buttons
  <2> QED
    BY <2>2, <2>3, <2>4, <2>5, <2>6
<1>4. CheckoutInv'
  BY <1>1, <1>2, <1>3
     DEF PlanInv, CheckoutInv, CheckoutHasBuyer, Created, OneRedirect, BuyerWasAwaited, Here, shell
<1>5. WaitingButtonLostSession'
  BY <1>3 DEF WaitingButtonLostSession
<1>6. SameAccount
  BY <1>1 DEF SameAccount
<1>7. PlanTypeOK'
  BY <1>1, <1>3, NextTypes
<1> QED
  BY <1>4, <1>5, <1>6, <1>7, AccountFrame DEF PlanInv
-----------------------------------------------------------------------------
(* The way to Stripe and back.                                                *)

LEMMA CallsInv ==
  ASSUME PlanInv, NEW b \in Buttons, CallServed(b) \/ CallFails(b)
  PROVE  PlanInv'
<1>1. /\ srv \in Servers /\ acct \in Accounts /\ reads \in [Reads -> ReadStates] /\ desk \in Desks
      /\ UNCHANGED <<srv, reads>> /\ Here /\ desk.calls[b] # "off"
  BY PlanTypes DEF PlanInv, CallServed, CallFails
<1>2. late # "checkout" /\ route \notin External /\ route # "checkout"
  BY <1>1, DeskShown, NoDeskTyped
<1>3. \A c \in desk.busy : desk.calls[c] = "off" => desk.lost
  BY DEF PlanInv, WaitingButtonLostSession
<1>4. CASE CallServed(b)
  <2>1. /\ desk' \in Desks
        /\ \A c \in Buttons : desk'.calls[c] = IF c = b THEN "created" ELSE desk.calls[c]
        /\ desk'.busy = desk.busy /\ desk'.lost = desk.lost
    BY <1>1, <1>4 DEF CallServed, Desks
  <2>2. /\ acct' \in Accounts /\ SameAccount
        /\ b = "checkout" => /\ acct'.buyer = acct.session /\ acct.session \in Users
                             /\ acct'.early = (acct.session \in srv.awaited)
                             /\ srv.tier[acct.session] = "free"
        /\ b # "checkout" => acct'.buyer = acct.buyer /\ acct'.early = acct.early
    <3> DEFINE wasAwaited == acct.session \in srv.awaited
    <3>1. /\ acct.session \in Users /\ wasAwaited \in BOOLEAN
          /\ b = "checkout" => srv.tier[acct.session] = "free"
          /\ b = "checkout" =>
               acct' = [acct EXCEPT !.buyer = acct.session, !.early = wasAwaited]
          /\ b # "checkout" => UNCHANGED acct
      BY <1>4 DEF CallServed, SignedIn, MayCreate
    <3> HIDE DEF wasAwaited
    <3>2. /\ acct' \in Accounts /\ SameAccount
          /\ b = "checkout" => acct'.buyer = acct.session /\ acct'.early = wasAwaited
          /\ b # "checkout" => acct'.buyer = acct.buyer /\ acct'.early = acct.early
      BY <1>1, <3>1 DEF Accounts, SameAccount
    <3> QED
      BY <3>1, <3>2 DEF wasAwaited
  <2>3. CheckoutHasBuyer'
    BY <1>1, <1>2, <2>1, <2>2
       DEF PlanInv, CheckoutInv, CheckoutHasBuyer, Created, Here, shell, Buttons
  <2>4. OneRedirect'
    BY <1>1, <1>2 DEF OneRedirect, Here, shell
  <2>5. BuyerWasAwaited'
    BY <1>1, <2>2 DEF PlanInv, CheckoutInv, BuyerWasAwaited
  <2>6. WaitingButtonLostSession'
    BY <1>1, <1>3, <2>1 DEF WaitingButtonLostSession, Desks
  <2>7. PlanTypeOK'
    BY <1>1, <2>1, <2>2, NextTypes
  <2> QED
    BY <2>2, <2>3, <2>4, <2>5, <2>6, <2>7, AccountFrame DEF PlanInv, CheckoutInv
<1>5. CASE CallFails(b)
  <2>1. /\ desk' \in Desks
        /\ \A c \in Buttons : desk'.calls[c] = IF c = b THEN "off" ELSE desk.calls[c]
        /\ desk'.busy = desk.busy \ {b} /\ desk'.lost = desk.lost
    BY <1>1, <1>5 DEF CallFails, Desks
  <2>2. /\ acct' \in Accounts /\ SameAccount
        /\ b = "checkout" => acct'.buyer = "none"
        /\ b # "checkout" => acct'.buyer = acct.buyer /\ acct'.early = acct.early
    BY <1>1, <1>5 DEF CallFails, Forgotten, Accounts, SameAccount
  <2>3. CheckoutHasBuyer'
    BY <1>1, <1>2, <2>1, <2>2
       DEF PlanInv, CheckoutInv, CheckoutHasBuyer, Created, Here, shell, Buttons
  <2>4. OneRedirect'
    BY <1>1, <1>2 DEF OneRedirect, Here, shell
  <2>5. BuyerWasAwaited'
    BY <1>1, <2>2, UsersAssumption DEF PlanInv, CheckoutInv, BuyerWasAwaited
  <2>6. WaitingButtonLostSession'
    BY <1>1, <1>3, <2>1 DEF WaitingButtonLostSession, Desks
  <2>7. PlanTypeOK'
    BY <1>1, <2>1, <2>2, NextTypes
  <2> QED
    BY <2>2, <2>3, <2>4, <2>5, <2>6, <2>7, AccountFrame DEF PlanInv, CheckoutInv
<1> QED
  BY <1>4, <1>5

(* The application starts anew at a page of Stripe, with the buyer on the way. *)
LEMMA UnloadInv ==
  ASSUME PlanInv, Unload, UNCHANGED srv, late' = "none",
         route' = "checkout" => acct.buyer \in Users
  PROVE  PlanInv'
<1>1. /\ srv \in Servers /\ acct \in Accounts /\ UNCHANGED srv
      /\ acct' = Unloaded /\ reads' = [r \in Reads |-> NoRead] /\ desk' = NoDesk
  BY PlanTypes DEF PlanInv, Unload, DeskClose
<1>2. /\ acct' \in Accounts /\ ~acct'.known /\ acct'.doubt
      /\ acct'.buyer = acct.buyer /\ acct'.early = acct.early
  BY <1>1 DEF Unloaded, Accounts, Tiers
<1>3. NoRead \in ReadStates /\ NoRead.at = "off" /\ ~NoRead.fresh
  BY DEF NoRead, ReadStates, Tiers
<1>4. /\ reads' \in [Reads -> ReadStates]
      /\ \A r \in Reads : reads'[r] = NoRead
  BY <1>1, <1>3
<1>5. AccountInv'
  BY <1>2, <1>3, <1>4 DEF AccountInv, UnknownIsQuiet, FreshIsTrue, SentForUser, PlanShownIsServer
<1>6. CheckoutHasBuyer'
  BY <1>1, <1>2, NoDeskTyped DEF CheckoutHasBuyer, Created, Buttons
<1>7. OneRedirect'
  BY <1>1 DEF OneRedirect
<1>8. BuyerWasAwaited'
  BY <1>1, <1>2 DEF PlanInv, CheckoutInv, BuyerWasAwaited
<1>9. WaitingButtonLostSession'
  BY <1>1, NoDeskTyped DEF WaitingButtonLostSession
<1>10. PlanTypeOK'
  BY <1>1, <1>2, <1>4, NoDeskTyped, NextTypes
<1> QED
  BY <1>5, <1>6, <1>7, <1>8, <1>9, <1>10 DEF PlanInv, CheckoutInv

LEMMA DepartInv == ASSUME PlanInv, NEW b \in Buttons, Depart(b) PROVE PlanInv'
<1>1. b = "checkout" => acct.buyer \in Users
  BY DEF Depart, PlanInv, CheckoutInv, CheckoutHasBuyer, Created
<1> QED
  BY <1>1, UnloadInv DEF Depart

(* What a checkout leaves when it is forgotten. *)
LEMMA ForgottenInv ==
  ASSUME PlanInv, desk' = NoDesk, UNCHANGED reads, srv' \in Servers, srv'.tier = srv.tier,
         NEW w \in BOOLEAN, acct' = [Forgotten EXCEPT !.welcome = w],
         late' # "checkout", route' \notin External
  PROVE  PlanInv'
<1>1. acct \in Accounts /\ reads \in [Reads -> ReadStates]
  BY PlanTypes DEF PlanInv
<1>2. acct' \in Accounts /\ SameAccount /\ acct'.buyer = "none"
  BY <1>1 DEF Forgotten, Accounts, SameAccount
<1>3. CheckoutHasBuyer' /\ OneRedirect'
  BY NoDeskTyped DEF CheckoutHasBuyer, Created, OneRedirect, External, Buttons
<1>4. BuyerWasAwaited'
  BY <1>2, UsersAssumption DEF BuyerWasAwaited
<1>5. WaitingButtonLostSession'
  BY NoDeskTyped DEF WaitingButtonLostSession
<1>6. PlanTypeOK'
  BY <1>1, <1>2, NoDeskTyped, NextTypes
<1> QED
  BY <1>2, <1>3, <1>4, <1>5, <1>6, AccountFrame DEF PlanInv, CheckoutInv

LEMMA StripeInv == ASSUME PlanInv, Paid \/ Return PROVE PlanInv'
<1>1. /\ srv \in Servers /\ acct \in Accounts /\ UNCHANGED <<reads, desk>>
      /\ late' = late /\ route' \notin External /\ route \in External
  BY PlanTypes DEF PlanInv, Paid, Return, Push, External
<1>2. late' = "none" /\ desk' = NoDesk
  BY <1>1 DEF PlanInv, CheckoutInv, OneRedirect
<1>3. CASE Paid
  <2>1. acct.buyer \in Users
    BY <1>3 DEF Paid, PlanInv, CheckoutInv, CheckoutHasBuyer, Created
  <2>2. srv' \in Servers /\ srv'.tier = srv.tier /\ acct' = [Forgotten EXCEPT !.welcome = TRUE]
    BY <1>1, <1>3, <2>1 DEF Paid, Servers
  <2> QED
    BY <1>1, <1>2, <2>2, ForgottenInv
<1>4. CASE Return
  <2>1. acct.welcome \in BOOLEAN /\ acct' = [Forgotten EXCEPT !.welcome = acct.welcome]
        /\ UNCHANGED srv
    BY <1>1, <1>4 DEF Return, Forgotten, Accounts
  <2> QED
    BY <1>1, <1>2, <2>1, ForgottenInv
<1> QED
  BY <1>3, <1>4

LEMMA WebhookInv == ASSUME PlanInv, NEW u \in Users, WebhookHandled(u) PROVE PlanInv'
<1>1. /\ srv \in Servers /\ acct \in Accounts /\ reads \in [Reads -> ReadStates] /\ desk \in Desks
      /\ Here /\ UNCHANGED desk /\ reads' = Past /\ acct' = [acct EXCEPT !.doubt = TRUE]
  BY PlanTypes DEF PlanInv, WebhookHandled
<1>2. /\ acct' \in Accounts /\ acct'.doubt /\ acct'.known = acct.known
      /\ acct'.buyer = acct.buyer /\ acct'.early = acct.early
  BY <1>1 DEF Accounts
<1>3. /\ srv' \in Servers
      /\ \A v \in Users : v \in srv'.awaited \/ srv'.tier[v] = "pro"
                          => v \in srv.awaited \/ srv.tier[v] = "pro"
  BY <1>1 DEF WebhookHandled, Servers, Tiers
<1>4. AccountInv'
  BY <1>1, <1>2, PastTyped
     DEF PlanInv, AccountInv, UnknownIsQuiet, FreshIsTrue, SentForUser, PlanShownIsServer
<1>5. CheckoutHasBuyer' /\ OneRedirect'
  BY <1>1, <1>2 DEF PlanInv, CheckoutInv, CheckoutHasBuyer, Created, OneRedirect, Here, shell
<1>6. BuyerWasAwaited'
  BY <1>2, <1>3 DEF PlanInv, CheckoutInv, BuyerWasAwaited
<1>7. WaitingButtonLostSession'
  BY <1>1 DEF PlanInv, WaitingButtonLostSession
<1>8. PlanTypeOK'
  BY <1>1, <1>2, <1>3, PastTyped, NextTypes
<1> QED
  BY <1>4, <1>5, <1>6, <1>7, <1>8 DEF PlanInv, CheckoutInv
-----------------------------------------------------------------------------
(* Every step the application can make, as the account sees it.               *)
PlanMoves ==
  \/ PlanNext
  \/ UNCHANGED planVars /\ (Here \/ Elsewhere)
  \/ /\ late = "checkout" /\ acct.asked = "none" /\ late' = "none"
     /\ Unload /\ UNCHANGED srv
  \/ /\ late' = "none" /\ UNCHANGED <<route, srv, reads, desk>>
     /\ late = "checkout" /\ acct' = Forgotten

LEMMA PlanNextInv == ASSUME PlanInv, PlanNext PROVE PlanInv'
<1>1. CASE \E r \in Reads : ReadServed(r) \/ ReadDelivered(r) \/ ReadEnds(r)
  BY <1>1, AnswersInv
<1>2. CASE SignOut \/ \E u \in Users : SignIn(u)
  BY <1>2, SessionsInv
<1>3. CASE WelcomeEnds \/ AlreadySignedIn \/ Visit \/ ClickSignedOut
  BY <1>3, QuietStepsInv
<1>4. CASE OpenDesk \/ RefreshStatus \/ StatusEnds
           \/ (\E b \in Buttons : Click(b) \/ CallWithoutToken(b))
  BY <1>4, DeskStepsInv
<1>5. CASE \E b \in Buttons : CallServed(b) \/ CallFails(b) \/ Depart(b)
  BY <1>5, CallsInv, DepartInv
<1>6. CASE \E u \in Users : WebhookHandled(u)
  BY <1>6, WebhookInv
<1> QED
  BY <1>1, <1>2, <1>3, <1>4, <1>5, <1>6, ClerkLoadsInv, LeaveDeskInv, LateCallInv, StripeInv
     DEF PlanNext, ButtonSettles

(* The account's invariant is kept by every step of the application.          *)
LEMMA PlanMovesInv == ASSUME PlanInv, PlanMoves PROVE PlanInv'
<1>1. CASE PlanNext
  BY <1>1, PlanNextInv
<1>2. CASE UNCHANGED planVars /\ (Here \/ Elsewhere)
  <2>1. SameAccount /\ SameCheckout
    BY <1>2 DEF SameAccount, SameCheckout, planVars
  <2>2. PlanTypeOK'
    BY <1>2 DEF PlanInv, PlanTypeOK, planVars
  <2> QED
    BY <2>1, <2>2, AccountFrame, CheckoutFrame DEF PlanInv
<1>3. CASE late = "checkout" /\ acct.asked = "none" /\ late' = "none" /\ Unload /\ UNCHANGED srv
  <2>1. acct.buyer \in Users
    BY <1>3 DEF PlanInv, CheckoutInv, CheckoutHasBuyer, Created
  <2> QED
    BY <1>3, <2>1, UnloadInv
<1>4. CASE /\ late' = "none" /\ UNCHANGED <<route, srv, reads, desk>>
           /\ late = "checkout" /\ acct' = Forgotten
  <2>1. srv \in Servers /\ acct \in Accounts
    BY PlanTypes DEF PlanInv
  <2>2. desk' = NoDesk /\ route' \notin External
    BY <1>4 DEF PlanInv, CheckoutInv, OneRedirect
  <2>3. acct.welcome \in BOOLEAN /\ acct' = [Forgotten EXCEPT !.welcome = acct.welcome]
    BY <1>4, <2>1 DEF Forgotten, Accounts
  <2> QED
    BY <1>4, <2>1, <2>2, <2>3, ForgottenInv
<1> QED
  BY <1>1, <1>2, <1>3, <1>4 DEF PlanMoves

(* What the checks ask of the account follows from its invariant.             *)
LEMMA PlanClaims ==
  ASSUME PlanInv
  PROVE  PlanShownIsServer /\ SecondCheckoutOnlyBeforeWebhook /\ WaitingButtonLostSession
<1>1. SecondCheckoutOnlyBeforeWebhook
  BY DEF PlanInv, CheckoutInv, CheckoutHasBuyer, Created, BuyerWasAwaited, SecondCheckoutOnlyBeforeWebhook
<1> QED
  BY <1>1 DEF PlanInv, AccountInv
=============================================================================
