------------------------------ MODULE Billing ------------------------------
(***************************************************************************)
(* One user's subscription: Stripe, which holds the truth and reports it   *)
(* through webhooks, and the user row that follows it.  Stripe delivers an *)
(* event until it is answered with a 2xx, in no order it promises; POST    *)
(* /billing/webhook remembers handled events in Redis, away from the       *)
(* database transaction the effect is written in; POST /billing/checkout   *)
(* ties the user to a Stripe customer.                                     *)
(*                                                                         *)
(* SQLAlchemy writes the columns a handler changed against what it loaded, *)
(* and only those.                                                         *)
(***************************************************************************)
EXTENDS Integers, Sequences, FiniteSets

CONSTANTS
  Handlers,     \* concurrent webhook requests
  Checkouts,    \* concurrent checkout requests
  Customers,    \* customer ids Stripe may hand out
  Subs,         \* subscription ids Stripe may hand out
  MaxEvents,    \* bound: events Stripe emits in a behaviour
  MaxFaults,    \* bound: failed requests, lost answers and Redis losses
  None

ASSUME BillingAssumption ==
  /\ MaxEvents \in Nat /\ MaxFaults \in Nat
  /\ None \notin Customers \cup Subs \cup Nat

VARIABLES
  user,        \* the committed row: plan, customer, sub, expires
  customers,   \* Stripe: customers created for this user
  sessions,    \* Stripe: customers with an open checkout session
  sub,         \* Stripe: state and customer of each subscription
  log,         \* Stripe: every event emitted, oldest first; its index is its id
  pending,     \* Stripe: events not answered with a 2xx yet
  keys,        \* Redis: webhook:stripe:{event_id}
  done,        \* events whose effect has been committed
  handler,
  checkout,
  faults,
  torn,        \* a handler committed over a row that had changed since its load
  disorder     \* an event was taken up before an earlier one was done, while another
               \* was, or after a later one because Redis had lost its key

stripeVars == <<customers, sessions, sub, log>>
flagVars == <<torn, disorder>>
vars == <<user, customers, sessions, sub, log, pending, keys, done, handler,
          checkout, faults, torn, disorder>>

Ids == 1 .. MaxEvents

(* checkout.session.completed, invoice.paid, customer.subscription.deleted or *)
(* paused, and customer.subscription.updated to a live or to a lapsed status. *)
Kind == {"checkout", "invoice", "gone", "active", "lapsed"}

User == [plan : {"free", "pro"}, customer : Customers \cup {None},
         sub : Subs \cup {None}, expires : 0 .. MaxEvents]

NewUser == [plan |-> "free", customer |-> None, sub |-> None, expires |-> 0]

IdleHandler == [pc |-> "idle", event |-> 0, old |-> NewUser, new |-> NewUser]
IdleCheckout == [pc |-> "idle", customer |-> None, bound |-> FALSE]

Init ==
  /\ user = NewUser
  /\ customers = {}
  /\ sessions = {}
  /\ sub = [s \in Subs |-> [state |-> "none", customer |-> None]]
  /\ log = <<>>
  /\ pending = {}
  /\ keys = {}
  /\ done = {}
  /\ handler = [h \in Handlers |-> IdleHandler]
  /\ checkout = [k \in Checkouts |-> IdleCheckout]
  /\ faults = 0
  /\ torn = FALSE
  /\ disorder = FALSE

-----------------------------------------------------------------------------
(* Faulty variants: each replaces the definition it is named after in one     *)
(* check, which shows that the property checked there can fail.               *)

AlreadyProcessed_Never(e) == FALSE
Downgraded_PlanOnly(u) == [u EXCEPT !.plan = "free"]
PeriodEnd_Missing(e) == None
-----------------------------------------------------------------------------
(* Stripe. *)

Emit(events) ==
  /\ Len(log) + Len(events) <= MaxEvents
  /\ log' = log \o events
  /\ pending' = pending \cup (Len(log) + 1 .. Len(log) + Len(events))

Event(kind, s) == [kind |-> kind, sub |-> s]

(* A visitor pays in an open session: a subscription starts. *)
Pay(s) ==
  /\ sub[s].state = "none"
  /\ \E c \in sessions :
       /\ sub' = [sub EXCEPT ![s] = [state |-> "active", customer |-> c]]
       /\ sessions' = sessions \ {c}
  /\ Emit(<<Event("checkout", s), Event("invoice", s)>>)
  /\ UNCHANGED <<user, customers, keys, done, handler, checkout, faults, flagVars>>

Move(s, from, to, kind) ==
  /\ sub[s].state \in from
  /\ sub' = [sub EXCEPT ![s].state = to]
  /\ Emit(<<Event(kind, s)>>)
  /\ UNCHANGED <<user, customers, sessions, keys, done, handler, checkout, faults,
                 flagVars>>

Renew(s) == Move(s, {"active"}, "active", "invoice")
Lapse(s) == Move(s, {"active"}, "lapsed", "lapsed")
Recover(s) == Move(s, {"lapsed"}, "active", "active")
Pause(s) == Move(s, {"active"}, "lapsed", "gone")
Cancel(s) == Move(s, {"active", "lapsed"}, "canceled", "gone")

-----------------------------------------------------------------------------
(* What a webhook handler does to the row. *)

PeriodEnd(e) == e

Upgraded(u, s) == [u EXCEPT !.plan = "pro", !.customer = sub[s].customer, !.sub = s]

Renewed(u, s, e) == [u EXCEPT !.plan = "pro", !.sub = s, !.expires = PeriodEnd(e)]

Downgraded(u) == [u EXCEPT !.plan = "free", !.sub = None, !.expires = 0]

Reactivated(u) == [u EXCEPT !.plan = "pro"]

(* A checkout finds the user by the id in its metadata, the rest by customer; *)
(* an event whose customer is not on the row changes nothing.                 *)
Effect(u, e) ==
  LET kind == log[e].kind
      s == log[e].sub
  IN CASE kind = "checkout" -> Upgraded(u, s)
       [] kind # "checkout" /\ u.customer # sub[s].customer -> u
       [] kind = "invoice" /\ u.customer = sub[s].customer -> Renewed(u, s, e)
       [] kind = "active" /\ u.customer = sub[s].customer -> Reactivated(u)
       [] kind \in {"gone", "lapsed"} /\ u.customer = sub[s].customer -> Downgraded(u)

(* The columns that differ from what was loaded are written over the row.     *)
Written(u, old, new) ==
  [f \in DOMAIN u |-> IF new[f] # old[f] THEN new[f] ELSE u[f]]

-----------------------------------------------------------------------------
(* POST /billing/webhook. *)

AlreadyProcessed(e) == e \in keys

Answered(e) == pending' = pending \ {e}

Replay(e) ==
  /\ e \in pending
  /\ AlreadyProcessed(e)
  /\ Answered(e)
  /\ UNCHANGED <<user, stripeVars, keys, done, handler, checkout, faults, flagVars>>

Receive(h, e) ==
  /\ handler[h].pc = "idle"
  /\ e \in pending
  /\ ~AlreadyProcessed(e)
  /\ handler' = [handler EXCEPT ![h] = [IdleHandler EXCEPT !.pc = "checked", !.event = e]]
  /\ disorder' = \/ disorder
                 \/ \E d \in 1 .. e - 1 : d \notin done
                 \/ e \notin keys /\ \E d \in done : d > e
                 \/ \E g \in Handlers : handler[g].pc # "idle"
  /\ UNCHANGED <<user, stripeVars, pending, keys, done, checkout, faults, torn>>

Apply(h) ==
  /\ handler[h].pc = "checked"
  /\ handler' = [handler EXCEPT ![h].pc = "applied", ![h].old = user,
                                ![h].new = Effect(user, handler[h].event)]
  /\ UNCHANGED <<user, stripeVars, pending, keys, done, checkout, faults, flagVars>>

(* Written before the transaction of the effect is committed. *)
SetKey(h) ==
  /\ handler[h].pc = "applied"
  /\ keys' = keys \cup {handler[h].event}
  /\ handler' = [handler EXCEPT ![h].pc = "marked"]
  /\ UNCHANGED <<user, stripeVars, pending, done, checkout, faults, flagVars>>

Commit(h) ==
  /\ handler[h].pc = "marked"
  /\ user' = Written(user, handler[h].old, handler[h].new)
  /\ torn' = (torn \/ user # handler[h].old)
  /\ done' = done \cup {handler[h].event}
  /\ Answered(handler[h].event)
  /\ handler' = [handler EXCEPT ![h] = IdleHandler]
  /\ UNCHANGED <<stripeVars, keys, checkout, faults, disorder>>

Fault == faults < MaxFaults /\ faults' = faults + 1

(* The request dies, or its commit fails.  Whether get_db commits before or   *)
(* after the answer is sent depends on the FastAPI release (>=0.115 allows    *)
(* both), so Stripe may have its 2xx already.                                 *)
HandlerFails(h) ==
  /\ handler[h].pc # "idle"
  /\ Fault
  /\ \/ UNCHANGED pending
     \/ handler[h].pc = "marked" /\ Answered(handler[h].event)
  /\ handler' = [handler EXCEPT ![h] = IdleHandler]
  /\ UNCHANGED <<user, stripeVars, keys, done, checkout, flagVars>>

(* Stripe does not get the answer, or sends the event once more anyway.       *)
SentAgain(e) ==
  /\ e \in done \ pending
  /\ Fault
  /\ pending' = pending \cup {e}
  /\ UNCHANGED <<user, stripeVars, keys, done, handler, checkout, flagVars>>

(* The 24 hours are over, Redis was flushed, or cache.set had failed.         *)
KeyLost(e) ==
  /\ e \in keys
  /\ Fault
  /\ keys' = keys \ {e}
  /\ UNCHANGED <<user, stripeVars, pending, done, handler, checkout, flagVars>>

-----------------------------------------------------------------------------
(* POST /billing/checkout. *)

StartCheckout(k) ==
  /\ checkout[k].pc = "idle"
  /\ user.plan # "pro"
  /\ checkout' = [checkout EXCEPT ![k] =
                    [pc |-> IF user.customer = None THEN "search" ELSE "session",
                     customer |-> user.customer, bound |-> user.customer # None]]
  /\ UNCHANGED <<user, stripeVars, pending, keys, done, handler, faults, flagVars>>

(* Stripe's search may not know yet of a customer created a moment ago.       *)
GetOrCreateCustomer(k) ==
  /\ checkout[k].pc = "search"
  /\ \E c \in Customers :
       /\ customers' = customers \cup {c}
       /\ checkout' = [checkout EXCEPT ![k].pc = "session", ![k].customer = c]
  /\ UNCHANGED <<user, sessions, sub, log, pending, keys, done, handler, faults,
                 flagVars>>

OpenSession(k) ==
  /\ checkout[k].pc = "session"
  /\ sessions' = sessions \cup {checkout[k].customer}
  /\ checkout' = [checkout EXCEPT ![k].pc = "commit"]
  /\ UNCHANGED <<user, customers, sub, log, pending, keys, done, handler, faults,
                 flagVars>>

(* The customer id is written only if the row had none when it was loaded.    *)
CheckoutCommit(k) ==
  /\ checkout[k].pc = "commit"
  /\ user' = IF checkout[k].bound THEN user
             ELSE [user EXCEPT !.customer = checkout[k].customer]
  /\ checkout' = [checkout EXCEPT ![k] = IdleCheckout]
  /\ UNCHANGED <<stripeVars, pending, keys, done, handler, faults, flagVars>>

CheckoutFails(k) ==
  /\ checkout[k].pc # "idle"
  /\ Fault
  /\ checkout' = [checkout EXCEPT ![k] = IdleCheckout]
  /\ UNCHANGED <<user, stripeVars, pending, keys, done, handler, flagVars>>

-----------------------------------------------------------------------------
(* Every event is answered and nothing runs: only the user can go on. *)
Rest ==
  /\ pending = {}
  /\ \A h \in Handlers : handler[h].pc = "idle"
  /\ \A k \in Checkouts : checkout[k].pc = "idle"
  /\ UNCHANGED vars

WebhookStep ==
  \/ \E e \in Ids : Replay(e)
  \/ \E h \in Handlers : (\E e \in Ids : Receive(h, e)) \/ Apply(h) \/ SetKey(h) \/ Commit(h)

CheckoutStep(k) == GetOrCreateCustomer(k) \/ OpenSession(k) \/ CheckoutCommit(k)

Next ==
  \/ \E s \in Subs : Pay(s) \/ Renew(s) \/ Lapse(s) \/ Recover(s) \/ Pause(s) \/ Cancel(s)
  \/ WebhookStep
  \/ \E h \in Handlers : HandlerFails(h)
  \/ \E e \in Ids : SentAgain(e) \/ KeyLost(e)
  \/ \E k \in Checkouts : CheckoutStep(k) \/ StartCheckout(k) \/ CheckoutFails(k)
  \/ Rest

Spec == Init /\ [][Next]_vars

-----------------------------------------------------------------------------
(* Properties. *)

TypeOK ==
  /\ user \in User
  /\ customers \subseteq Customers
  /\ sessions \subseteq Customers
  /\ sub \in [Subs -> [state : {"none", "active", "lapsed", "canceled"},
                       customer : Customers \cup {None}]]
  /\ log \in Seq([kind : Kind, sub : Subs])
  /\ pending \subseteq 1 .. Len(log)
  /\ keys \subseteq Ids
  /\ done \subseteq Ids
  /\ handler \in [Handlers -> [pc : {"idle", "checked", "applied", "marked"},
                               event : 0 .. MaxEvents, old : User, new : User]]
  /\ checkout \in [Checkouts -> [pc : {"idle", "search", "session", "commit"},
                                 customer : Customers \cup {None}, bound : BOOLEAN]]
  /\ faults \in 0 .. MaxFaults
  /\ torn \in BOOLEAN /\ disorder \in BOOLEAN

(* A downgrade leaves nothing of the subscription behind: unless two handlers *)
(* wrote over each other, a free user has no subscription id and no period.   *)
FreeIsBlank == ~torn /\ user.plan = "free" => user.sub = None /\ user.expires = 0

AtRest ==
  /\ pending = {}
  /\ \A h \in Handlers : handler[h].pc = "idle"
  /\ \A k \in Checkouts : checkout[k].pc = "idle"

(* When everything Stripe reported has been handled, the plan is what Stripe  *)
(* says, provided that each had its effect, that they came in order, one at a *)
(* time, and that Stripe knows the user as one customer with one subscription.*)
(* Repeated deliveries make no difference while Redis has the event's key:    *)
(* that is what the idempotency key is for.                                   *)
PlanFollowsStripe ==
  /\ AtRest
  /\ ~torn /\ ~disorder
  /\ done = 1 .. Len(log)
  /\ Cardinality(customers) <= 1
  /\ Cardinality({s \in Subs : sub[s].state # "none"}) <= 1
  => (user.plan = "pro" <=> \E s \in Subs : sub[s].state = "active")

(* "Write AFTER processing so a crash before completion doesn't lock out      *)
(* retries": when nothing runs, an event that would be refused as already     *)
(* processed has had its effect.                                              *)
KeyMeansDone == AtRest => keys \subseteq done
=============================================================================
