---------------------------- MODULE BillingProofs ----------------------------
(* Proofs about Billing, for all values of its constants.                     *)
EXTENDS Billing, FiniteSetTheorems, SequenceTheorems, TLAPS

Logged == [kind : Kind, sub : Subs]
Requests == [pc : {"idle", "checked", "applied", "marked"}, event : 0 .. MaxEvents,
             old : User, new : User]
Bookings == [pc : {"idle", "search", "session", "commit"},
             customer : Customers \cup {None}, bound : BOOLEAN]
Subscriptions == [state : {"none", "active", "lapsed", "canceled"},
                  customer : Customers \cup {None}]

Busy(h) == handler[h].pc # "idle"
Computed(h) == handler[h].pc \in {"applied", "marked"}
Paying(k) == checkout[k].pc \in {"session", "commit"}

(* Handlers and Redis know of events that Stripe emitted; a checkout that is  *)
(* past the search has a customer.                                            *)
Known ==
  /\ Len(log) <= MaxEvents
  /\ done \subseteq 1 .. Len(log)
  /\ \A h \in Handlers : Busy(h) => handler[h].event \in 1 .. Len(log)
  /\ \A k \in Checkouts : Paying(k) => checkout[k].customer \in Customers

Typed == TypeOK /\ Known

Blank(u) == u.plan = "free" => u.sub = None /\ u.expires = 0

(* The inductive invariant of FreeIsBlank.                                    *)
Blanks ==
  ~torn => /\ Blank(user)
           /\ \A h \in Handlers : Computed(h) => Blank(handler[h].new)

(* The subscriptions that have begun, and the events that leave one paid for. *)
Started == {s \in Subs : sub[s].state # "none"}
Live(kind) == kind \in {"checkout", "invoice", "active"}

(* Stripe's side: the log is about what has begun, it opens with a checkout,  *)
(* and its last entry is the state of that subscription.                      *)
StripesLog ==
  /\ \A e \in 1 .. Len(log) : log[e].sub \in Started
  /\ Started # {} => Len(log) >= 1
  /\ Len(log) >= 1 =>
       /\ log[1].kind = "checkout"
       /\ sub[log[Len(log)].sub].state = "active" <=> Live(log[Len(log)].kind)

(* Every customer id in use is one that Stripe created for this user.         *)
KnownCustomers ==
  /\ sessions \subseteq customers
  /\ user.customer \in customers \cup {None}
  /\ \A s \in Started : sub[s].customer \in customers
  /\ \A h \in Handlers : Computed(h) => handler[h].new.customer \in customers \cup {None}
  /\ \A k \in Checkouts : Paying(k) => checkout[k].customer \in customers

FewOfEach == IsFiniteSet(customers) /\ IsFiniteSet(Started)

Stripes == StripesLog /\ KnownCustomers /\ FewOfEach

(* In order, one at a time: what is handled now is the newest, and everything *)
(* before it is done.                                                         *)
InTurn ==
  ~disorder =>
    \A h \in Handlers : Busy(h) =>
      /\ \A g \in Handlers : Busy(g) => g = h
      /\ \A d \in 1 .. handler[h].event - 1 : d \in done
      /\ \A d \in done : d <= handler[h].event

(* What PlanFollowsStripe asks of a history.                                  *)
Orderly ==
  /\ ~torn /\ ~disorder
  /\ \A c, d \in customers : c = d
  /\ \A s, t \in Started : s = t

(* A row, or what a handler is about to make of it: tied to the subscription, *)
(* and following event e.                                                     *)
Tied(u) == \A s \in Started : u.customer = sub[s].customer
Follows(u, e) == Tied(u) /\ (u.plan = "pro" <=> Live(log[e].kind))

(* The row follows the newest event that is done; a handler carries what      *)
(* follows the event it handles.                                              *)
RowFollows ==
  Orderly =>
    /\ IF done = {} THEN user.plan = "free" ELSE Tied(user)
    /\ \A e \in done : (\A d \in done : d <= e) => Follows(user, e)
    /\ \A h \in Handlers : Computed(h) => Follows(handler[h].new, handler[h].event)

(* The inductive invariant of PlanFollowsStripe.                              *)
Following == Typed /\ Stripes /\ InTurn /\ RowFollows

-----------------------------------------------------------------------------
(* What the operators of Billing do to a row.                                 *)

LEMMA UserFields ==
  ASSUME NEW u \in User
  PROVE  /\ DOMAIN u = {"plan", "customer", "sub", "expires"}
         /\ u.plan \in {"free", "pro"} /\ u.customer \in Customers \cup {None}
         /\ u.sub \in Subs \cup {None} /\ u.expires \in 0 .. MaxEvents
<1> QED
  BY DEF User

(* Only the columns a handler changed are written; over the row it loaded     *)
(* that makes exactly the row it computed.                                    *)
LEMMA WrittenColumns ==
  ASSUME NEW u \in User, NEW old \in User, NEW new \in User
  PROVE  /\ Written(u, old, new) \in User
         /\ Written(u, old, new).customer \in {u.customer, new.customer}
         /\ u = old => Written(u, old, new) = new
<1> DEFINE w == Written(u, old, new)
<1>1. DOMAIN u = {"plan", "customer", "sub", "expires"}
  BY DEF User
<1>2. w = [f \in {"plan", "customer", "sub", "expires"} |->
             IF new[f] # old[f] THEN new[f] ELSE u[f]]
  BY <1>1 DEF Written
<1>3. w = [plan |-> IF new.plan # old.plan THEN new.plan ELSE u.plan,
           customer |-> IF new.customer # old.customer THEN new.customer ELSE u.customer,
           sub |-> IF new.sub # old.sub THEN new.sub ELSE u.sub,
           expires |-> IF new.expires # old.expires THEN new.expires ELSE u.expires]
  BY <1>2
<1> HIDE DEF w
<1>4. w \in User /\ w.customer \in {u.customer, new.customer}
  BY <1>3, UserFields DEF User
<1>5. ASSUME u = old
      PROVE  w = new
  <2>1. w.plan = new.plan /\ w.customer = new.customer /\ w.sub = new.sub
        /\ w.expires = new.expires
    BY <1>3, <1>5
  <2> QED
    BY <1>4, <2>1 DEF User
<1> QED
  BY <1>4, <1>5 DEF w

(* What an event of each kind makes of a row.                                 *)
LEMMA EffectCases ==
  ASSUME Typed, NEW u \in User, NEW e \in 1 .. Len(log)
  PROVE  LET kind == log[e].kind
             s == log[e].sub
             v == Effect(u, e)
         IN /\ kind \in Kind /\ s \in Subs /\ v \in User
            /\ v.customer \in {u.customer, sub[s].customer}
            /\ Blank(u) => Blank(v)
            /\ kind = "checkout" => v.plan = "pro" /\ v.customer = sub[s].customer
            /\ kind # "checkout" /\ u.customer = sub[s].customer =>
                 v.customer = sub[s].customer /\ (v.plan = "pro" <=> Live(kind))
<1> DEFINE kind == log[e].kind
           s == log[e].sub
           v == Effect(u, e)
<1>1. log \in Seq(Logged) /\ Len(log) \in Nat /\ Len(log) <= MaxEvents
  BY DEF Typed, TypeOK, Known, Logged
<1>2. kind \in Kind /\ s \in Subs /\ e \in 0 .. MaxEvents
  <2>1. log[e] \in Logged
    BY <1>1, ElementOfSeq
  <2> QED
    BY <1>1, <2>1, BillingAssumption DEF Logged
<1>3. sub[s].customer \in Customers \cup {None}
  BY <1>2 DEF Typed, TypeOK
<1>4. CASE kind = "checkout"
  <2>1. v = [u EXCEPT !.plan = "pro", !.customer = sub[s].customer, !.sub = s]
    BY <1>4 DEF Effect, Upgraded
  <2> QED
    BY <1>2, <1>3, <1>4, <2>1 DEF User, Blank
<1>5. CASE kind # "checkout" /\ u.customer # sub[s].customer
  <2>1. v = u
    BY <1>5 DEF Effect
  <2> QED
    BY <1>2, <1>5, <2>1
<1>6. CASE kind = "invoice" /\ u.customer = sub[s].customer
  <2>1. v = [u EXCEPT !.plan = "pro", !.sub = s, !.expires = e]
    BY <1>6 DEF Effect, Renewed, PeriodEnd
  <2> QED
    BY <1>2, <1>3, <1>6, <2>1 DEF User, Blank, Live
<1>7. CASE kind = "active" /\ u.customer = sub[s].customer
  <2>1. v = [u EXCEPT !.plan = "pro"]
    BY <1>7 DEF Effect, Reactivated
  <2> QED
    BY <1>2, <1>3, <1>7, <2>1 DEF User, Blank, Live
<1>8. CASE kind \in {"gone", "lapsed"} /\ u.customer = sub[s].customer
  <2>1. v = [u EXCEPT !.plan = "free", !.sub = None, !.expires = 0]
    BY <1>8 DEF Effect, Downgraded
  <2>2. 0 \in 0 .. MaxEvents
    BY BillingAssumption
  <2> QED
    BY <1>2, <1>3, <1>8, <2>1, <2>2 DEF User, Blank, Live
<1> QED
  BY <1>2, <1>4, <1>5, <1>6, <1>7, <1>8 DEF Kind

-----------------------------------------------------------------------------
(* What Stripe's steps do to the log.                                         *)

LEMMA Emitted ==
  ASSUME Typed, NEW events \in Seq(Logged), Emit(events)
  PROVE  /\ log' \in Seq(Logged)
         /\ Len(log') = Len(log) + Len(events)
         /\ Len(log') <= MaxEvents
         /\ \A i \in 1 .. Len(log) : log'[i] = log[i]
         /\ \A i \in 1 .. Len(events) : log'[Len(log) + i] = events[i]
         /\ pending' \subseteq 1 .. Len(log')
<1>1. log \in Seq(Logged) /\ Len(log) \in Nat /\ Len(events) \in Nat
  BY DEF Typed, TypeOK, Logged
<1>2. log' = log \o events /\ Len(log) + Len(events) <= MaxEvents
  BY DEF Emit
<1>3. log' \in Seq(Logged) /\ Len(log') = Len(log) + Len(events)
  BY <1>1, <1>2, ConcatProperties
<1>4. ASSUME NEW i \in 1 .. Len(log) + Len(events)
      PROVE  log'[i] = IF i <= Len(log) THEN log[i] ELSE events[i - Len(log)]
  BY <1>1, <1>2, <1>4, ConcatProperties
<1>5. \A i \in 1 .. Len(log) : log'[i] = log[i]
  BY <1>1, <1>4
<1>6. ASSUME NEW i \in 1 .. Len(events)
      PROVE  log'[Len(log) + i] = events[i]
  <2>1. /\ Len(log) + i \in 1 .. Len(log) + Len(events)
        /\ ~(Len(log) + i <= Len(log)) /\ (Len(log) + i) - Len(log) = i
    BY <1>1
  <2> QED
    BY <1>4, <2>1
<1>7. pending' \subseteq 1 .. Len(log')
  <2>1. pending \subseteq 1 .. Len(log)
    BY DEF Typed, TypeOK
  <2>2. pending' = pending \cup (Len(log) + 1 .. Len(log) + Len(events))
    BY DEF Emit
  <2> SUFFICES ASSUME NEW i \in pending'
               PROVE  i \in 1 .. Len(log) + Len(events)
    BY <1>3
  <2>3. CASE i \in pending
    BY <1>1, <2>1, <2>3
  <2>4. CASE i \in Len(log) + 1 .. Len(log) + Len(events)
    BY <1>1, <2>4
  <2> QED
    BY <2>2, <2>3, <2>4
<1> QED
  BY <1>2, <1>3, <1>5, <1>6, <1>7

(* The first payment: a subscription of a known customer begins.              *)
LEMMA Paid ==
  ASSUME Typed, NEW s \in Subs, Pay(s)
  PROVE  /\ s \notin Started
         /\ \E c \in sessions :
              /\ sub' = [sub EXCEPT ![s] = [state |-> "active", customer |-> c]]
              /\ sessions' = sessions \ {c}
         /\ log' \in Seq(Logged) /\ pending' \subseteq 1 .. Len(log')
         /\ Len(log') = Len(log) + 2 /\ Len(log') <= MaxEvents
         /\ \A i \in 1 .. Len(log) : log'[i] = log[i]
         /\ log'[Len(log) + 1] = Event("checkout", s)
         /\ log'[Len(log) + 2] = Event("invoice", s)
         /\ UNCHANGED <<user, customers, keys, done, handler, checkout, faults, torn,
                        disorder>>
<1> DEFINE events == <<Event("checkout", s), Event("invoice", s)>>
<1>1. events \in Seq(Logged) /\ Len(events) = 2
      /\ events[1] = Event("checkout", s) /\ events[2] = Event("invoice", s)
  BY DEF Event, Logged, Kind
<1>2. Emit(events)
  BY DEF Pay
<1> HIDE DEF events
<1>3. /\ log' \in Seq(Logged) /\ pending' \subseteq 1 .. Len(log')
      /\ Len(log') = Len(log) + 2 /\ Len(log') <= MaxEvents
      /\ \A i \in 1 .. Len(log) : log'[i] = log[i]
      /\ \A i \in 1 .. 2 : log'[Len(log) + i] = events[i]
  BY <1>1, <1>2, Emitted
<1>4. /\ log'[Len(log) + 1] = Event("checkout", s)
      /\ log'[Len(log) + 2] = Event("invoice", s)
  BY <1>1, <1>3
<1> QED
  BY <1>3, <1>4 DEF Pay, Started, flagVars

(* What Stripe does with a subscription that has begun.                       *)
Changed(s) == Renew(s) \/ Lapse(s) \/ Recover(s) \/ Pause(s) \/ Cancel(s)

LEMMA Moved ==
  ASSUME Typed, NEW s \in Subs, Changed(s)
  PROVE  /\ s \in Started
         /\ \E to \in {"active", "lapsed", "canceled"}, kind \in Kind :
              /\ sub' = [sub EXCEPT ![s].state = to]
              /\ log'[Len(log) + 1] = Event(kind, s)
              /\ to = "active" <=> Live(kind)
         /\ log' \in Seq(Logged) /\ pending' \subseteq 1 .. Len(log')
         /\ Len(log') = Len(log) + 1 /\ Len(log') <= MaxEvents
         /\ \A i \in 1 .. Len(log) : log'[i] = log[i]
         /\ UNCHANGED <<user, customers, sessions, keys, done, handler, checkout, faults,
                        torn, disorder>>
<1>1. PICK from \in {{"active"}, {"lapsed"}, {"active", "lapsed"}},
           to \in {"active", "lapsed", "canceled"}, kind \in Kind :
        Move(s, from, to, kind) /\ (to = "active" <=> Live(kind))
  BY DEF Changed, Renew, Lapse, Recover, Pause, Cancel, Live, Kind
<1>2. <<Event(kind, s)>> \in Seq(Logged) /\ Len(<<Event(kind, s)>>) = 1
  BY DEF Event, Logged
<1>3. Emit(<<Event(kind, s)>>)
  BY <1>1 DEF Move
<1>4. /\ log' \in Seq(Logged) /\ pending' \subseteq 1 .. Len(log')
      /\ Len(log') = Len(log) + 1 /\ Len(log') <= MaxEvents
      /\ \A i \in 1 .. Len(log) : log'[i] = log[i]
      /\ \A i \in 1 .. 1 : log'[Len(log) + i] = <<Event(kind, s)>>[i]
  BY <1>2, <1>3, Emitted
<1>5. log'[Len(log) + 1] = Event(kind, s)
  BY <1>4
<1> QED
  BY <1>1, <1>4, <1>5 DEF Move, Started, flagVars

-----------------------------------------------------------------------------
(* The steps, by who takes them.                                              *)

HandlerAction(h) ==
  (\E e \in Ids : Receive(h, e)) \/ Apply(h) \/ SetKey(h) \/ Commit(h) \/ HandlerFails(h)

DeliveryAction == \E e \in Ids : Replay(e) \/ SentAgain(e) \/ KeyLost(e)

CheckoutAction(k) == CheckoutStep(k) \/ StartCheckout(k) \/ CheckoutFails(k)

LEMMA StepKinds ==
  ASSUME [Next]_vars
  PROVE  \/ \E s \in Subs : Pay(s) \/ Changed(s)
         \/ \E h \in Handlers : HandlerAction(h)
         \/ DeliveryAction
         \/ \E k \in Checkouts : CheckoutAction(k)
         \/ UNCHANGED vars
<1> QED
  BY DEF Next, WebhookStep, Rest, Changed, HandlerAction, DeliveryAction, CheckoutAction

(* A step of one handler moves that handler alone, and nothing of Stripe's.   *)
LEMMA HandlerChanges ==
  ASSUME Typed, NEW h \in Handlers, HandlerAction(h)
  PROVE  /\ UNCHANGED <<customers, sessions, sub, log, checkout>>
         /\ \A g \in Handlers : g # h => handler'[g] = handler[g]
         /\ Commit(h) \/ UNCHANGED <<user, done, torn>>
         /\ (\E e \in Ids : Receive(h, e)) \/ UNCHANGED disorder
         /\ \A e \in Ids : Receive(h, e) =>
              handler'[h].pc = "checked" /\ handler'[h].event = e
         /\ Apply(h) => /\ handler'[h].pc = "applied" /\ handler'[h].old = user
                        /\ handler'[h].event = handler[h].event
                        /\ handler'[h].new = Effect(user, handler[h].event)
         /\ SetKey(h) => /\ handler'[h].pc = "marked"
                         /\ handler'[h].event = handler[h].event
                         /\ handler'[h].old = handler[h].old
                         /\ handler'[h].new = handler[h].new
         /\ Commit(h) \/ HandlerFails(h) => handler'[h] = IdleHandler
<1>1. handler \in [Handlers -> Requests]
  BY DEF Typed, TypeOK, Requests
<1>2. UNCHANGED <<customers, sessions, sub, log, checkout>>
  BY DEF HandlerAction, Receive, Apply, SetKey, Commit, HandlerFails, stripeVars
<1>3. \A g \in Handlers : g # h => handler'[g] = handler[g]
  BY <1>1 DEF HandlerAction, Receive, Apply, SetKey, Commit, HandlerFails
<1>4. /\ Commit(h) \/ UNCHANGED <<user, done, torn>>
      /\ (\E e \in Ids : Receive(h, e)) \/ UNCHANGED disorder
  BY DEF HandlerAction, Receive, Apply, SetKey, Commit, HandlerFails, flagVars
<1>5. ASSUME NEW e \in Ids, Receive(h, e)
      PROVE  handler'[h].pc = "checked" /\ handler'[h].event = e
  BY <1>1, <1>5 DEF Receive, IdleHandler
<1>6. ASSUME Apply(h)
      PROVE  /\ handler'[h].pc = "applied" /\ handler'[h].old = user
             /\ handler'[h].event = handler[h].event
             /\ handler'[h].new = Effect(user, handler[h].event)
  BY <1>1, <1>6 DEF Apply, Requests
<1>7. ASSUME SetKey(h)
      PROVE  /\ handler'[h].pc = "marked" /\ handler'[h].event = handler[h].event
             /\ handler'[h].old = handler[h].old /\ handler'[h].new = handler[h].new
  BY <1>1, <1>7 DEF SetKey, Requests
<1>8. Commit(h) \/ HandlerFails(h) => handler'[h] = IdleHandler
  BY <1>1 DEF Commit, HandlerFails
<1> QED
  BY <1>2, <1>3, <1>4, <1>5, <1>6, <1>7, <1>8

-----------------------------------------------------------------------------
(* Types.                                                                     *)

LEMMA InitialTypes ==
  ASSUME Init
  PROVE  Typed
<1> USE BillingAssumption
<1>1. NewUser \in User
  BY DEF NewUser, User
<1>2. user \in User
  BY <1>1 DEF Init
<1>3. handler \in [Handlers -> Requests]
  BY <1>1 DEF Init, IdleHandler, Requests
<1>4. checkout \in [Checkouts -> Bookings]
  BY DEF Init, IdleCheckout, Bookings
<1>5. sub \in [Subs -> Subscriptions]
  BY DEF Init, Subscriptions
<1>6. log \in Seq(Logged) /\ Len(log) = 0
  BY DEF Init
<1>7. /\ customers = {} /\ sessions = {} /\ pending = {} /\ keys = {} /\ done = {}
      /\ faults \in 0 .. MaxFaults /\ torn \in BOOLEAN /\ disorder \in BOOLEAN
  <2>1. /\ customers = {} /\ sessions = {} /\ pending = {} /\ keys = {} /\ done = {}
        /\ faults = 0 /\ torn = FALSE /\ disorder = FALSE
    BY Zenon DEF Init
  <2>2. faults \in 0 .. MaxFaults
    BY <2>1
  <2>3. torn \in BOOLEAN /\ disorder \in BOOLEAN
    BY <2>1
  <2> QED
    BY <2>1, <2>2, <2>3
<1>8. TypeOK
  BY <1>2, <1>3, <1>4, <1>5, <1>6, <1>7 DEF TypeOK, Requests, Bookings, Subscriptions, Logged
<1>9. Known
  BY <1>6 DEF Init, Known, Busy, Paying, IdleHandler, IdleCheckout
<1> QED
  BY <1>8, <1>9 DEF Typed

LEMMA StripeTyped ==
  ASSUME Typed, NEW s \in Subs, Pay(s) \/ Changed(s)
  PROVE  Typed'
<1> USE BillingAssumption
<1>1. /\ log' \in Seq(Logged) /\ pending' \subseteq 1 .. Len(log')
      /\ Len(log') >= Len(log) /\ Len(log') <= MaxEvents
      /\ UNCHANGED <<user, customers, keys, done, handler, checkout, faults, torn, disorder>>
  <2>1. Len(log) \in Nat
    BY DEF Typed, TypeOK
  <2> QED
    BY <2>1, Paid, Moved
<1>2. sub' \in [Subs -> Subscriptions] /\ sessions' \subseteq Customers
  <2>1. sub \in [Subs -> Subscriptions] /\ sessions \subseteq Customers
    BY DEF Typed, TypeOK, Subscriptions
  <2>2. CASE Pay(s)
    <3>1. PICK c \in sessions :
            /\ sub' = [sub EXCEPT ![s] = [state |-> "active", customer |-> c]]
            /\ sessions' = sessions \ {c}
      BY <2>2, Paid
    <3> QED
      BY <2>1, <3>1 DEF Subscriptions
  <2>3. CASE Changed(s)
    <3>1. PICK to \in {"active", "lapsed", "canceled"} :
            sub' = [sub EXCEPT ![s].state = to]
      BY <2>3, Moved
    <3> QED
      BY <2>1, <2>3, <3>1, Moved DEF Subscriptions
  <2> QED
    BY <2>2, <2>3
<1>3. Len(log) \in Nat /\ Len(log') \in Nat
  BY <1>1 DEF Typed, TypeOK
<1>4. TypeOK'
  BY <1>1, <1>2 DEF Typed, TypeOK, Subscriptions, Logged
<1>5. Known'
  BY <1>1, <1>3 DEF Typed, Known, Busy, Paying
<1> QED
  BY <1>4, <1>5 DEF Typed

LEMMA HandlersTyped ==
  ASSUME Typed, NEW h \in Handlers, HandlerAction(h)
  PROVE  Typed'
<1> USE BillingAssumption
<1>1. /\ user \in User /\ handler \in [Handlers -> Requests] /\ handler[h] \in Requests
      /\ Len(log) \in Nat /\ Len(log) <= MaxEvents
      /\ keys \subseteq Ids /\ done \subseteq 1 .. Len(log) /\ pending \subseteq 1 .. Len(log)
  BY DEF Typed, TypeOK, Known, Requests
<1>2. handler' \in [Handlers -> Requests]
  <2>1. ASSUME NEW e \in Ids, Receive(h, e)
        PROVE  handler' \in [Handlers -> Requests]
    <3> DEFINE request == [IdleHandler EXCEPT !.pc = "checked", !.event = e]
    <3>1. request \in Requests
      <4>1. NewUser \in User /\ e \in 0 .. MaxEvents
        BY <2>1 DEF NewUser, User, Ids
      <4>2. IdleHandler \in Requests
        BY <4>1 DEF IdleHandler, Requests
      <4> QED
        BY <4>1, <4>2 DEF Requests
    <3> QED
      BY <1>1, <2>1, <3>1 DEF Receive
  <2>2. CASE Apply(h)
    <3>1. handler[h].event \in 1 .. Len(log)
      BY <2>2 DEF Apply, Typed, Known, Busy
    <3>2. Effect(user, handler[h].event) \in User
      BY <1>1, <3>1, EffectCases
    <3>3. [handler[h] EXCEPT !.pc = "applied", !.old = user,
                             !.new = Effect(user, handler[h].event)] \in Requests
      BY <1>1, <3>2 DEF Requests
    <3>4. handler' = [handler EXCEPT ![h] =
                        [handler[h] EXCEPT !.pc = "applied", !.old = user,
                                           !.new = Effect(user, handler[h].event)]]
      BY <2>2 DEF Apply
    <3> QED
      BY <1>1, <3>3, <3>4
  <2>3. CASE SetKey(h)
    BY <1>1, <2>3 DEF SetKey, Requests
  <2>4. CASE Commit(h) \/ HandlerFails(h)
    <3>1. IdleHandler \in Requests
      BY DEF IdleHandler, NewUser, Requests, User
    <3> QED
      BY <1>1, <2>4, <3>1 DEF Commit, HandlerFails
  <2> QED
    BY <2>1, <2>2, <2>3, <2>4 DEF HandlerAction
<1>3. user' \in User
  <2>1. CASE Commit(h)
    <3>1. handler[h].old \in User /\ handler[h].new \in User
      BY <1>1 DEF Requests
    <3> QED
      BY <1>1, <2>1, <3>1, WrittenColumns DEF Commit
  <2> QED
    BY <1>1, <2>1, HandlerChanges
<1>4. /\ pending' \subseteq pending /\ faults' \in 0 .. MaxFaults
      /\ torn' \in BOOLEAN /\ disorder' \in BOOLEAN
  <2>1. faults \in 0 .. MaxFaults /\ torn \in BOOLEAN /\ disorder \in BOOLEAN
    BY DEF Typed, TypeOK
  <2>2. CASE \E e \in Ids : Receive(h, e)
    BY <2>1, <2>2 DEF Receive
  <2>3. CASE Apply(h) \/ SetKey(h)
    BY <2>1, <2>3 DEF Apply, SetKey, flagVars
  <2>4. CASE Commit(h)
    BY <2>1, <2>4 DEF Commit, Answered
  <2>5. CASE HandlerFails(h)
    <3>1. pending' \subseteq pending /\ torn' = torn /\ disorder' = disorder
      BY <2>5 DEF HandlerFails, Answered, flagVars
    <3>2. faults' \in 0 .. MaxFaults
      BY <2>1, <2>5 DEF HandlerFails, Fault
    <3> QED
      BY <2>1, <3>1, <3>2
  <2> QED
    BY <2>2, <2>3, <2>4, <2>5 DEF HandlerAction
<1>5. done' \subseteq 1 .. Len(log) /\ keys' \subseteq Ids
  <2>1. Busy(h) => handler[h].event \in 1 .. Len(log) /\ handler[h].event \in Ids
    BY <1>1 DEF Typed, Known, Ids
  <2>2. CASE Commit(h) \/ SetKey(h)
    BY <1>1, <2>1, <2>2 DEF Commit, SetKey, Busy
  <2>3. CASE UNCHANGED <<keys, done>>
    BY <1>1, <2>3
  <2> QED
    BY <2>2, <2>3 DEF HandlerAction, Receive, Apply, HandlerFails
<1>6. UNCHANGED <<customers, sessions, sub, log, checkout>>
  BY HandlerChanges
<1>7. done' \subseteq Ids /\ pending' \subseteq 1 .. Len(log)
  BY <1>1, <1>4, <1>5 DEF Ids
<1>8. TypeOK'
  BY <1>2, <1>3, <1>4, <1>5, <1>6, <1>7 DEF Typed, TypeOK, Requests
<1>9. ASSUME NEW g \in Handlers, handler'[g].pc # "idle"
      PROVE  handler'[g].event \in 1 .. Len(log)
  <2>1. CASE g # h
    BY <1>9, <2>1, HandlerChanges DEF Typed, Known, Busy
  <2>2. ASSUME NEW e \in Ids, Receive(h, e), g = h
        PROVE  handler'[g].event \in 1 .. Len(log)
    <3>1. e \in 1 .. Len(log)
      BY <1>1, <2>2 DEF Receive
    <3> QED
      BY <2>2, <3>1, HandlerChanges
  <2>3. CASE g = h /\ (Apply(h) \/ SetKey(h))
    <3>1. handler'[h].event = handler[h].event /\ Busy(h)
      BY <2>3, HandlerChanges DEF Apply, SetKey, Busy
    <3> QED
      BY <2>3, <3>1 DEF Typed, Known
  <2>4. CASE g = h /\ (Commit(h) \/ HandlerFails(h))
    BY <1>9, <2>4, HandlerChanges DEF IdleHandler
  <2> QED
    BY <2>1, <2>2, <2>3, <2>4 DEF HandlerAction
<1>10. Known'
  BY <1>5, <1>6, <1>9 DEF Typed, Known, Busy, Paying
<1> QED
  BY <1>8, <1>10 DEF Typed

LEMMA CheckoutsTyped ==
  ASSUME Typed, NEW k \in Checkouts, CheckoutAction(k)
  PROVE  Typed'
<1> USE BillingAssumption
<1>1. checkout \in [Checkouts -> Bookings] /\ checkout[k] \in Bookings /\ user \in User
  BY DEF Typed, TypeOK, Bookings
<1>2. UNCHANGED <<sub, log, pending, keys, done, handler, torn, disorder>>
  BY DEF CheckoutAction, CheckoutStep, StartCheckout, GetOrCreateCustomer, OpenSession,
     CheckoutCommit, CheckoutFails, stripeVars, flagVars
<1>3. CASE StartCheckout(k)
  <2>1. checkout' \in [Checkouts -> Bookings]
    BY <1>1, <1>3 DEF StartCheckout, Bookings, User
  <2>2. checkout'[k].pc = "session" => checkout'[k].customer \in Customers
    BY <1>1, <1>3, UserFields DEF StartCheckout
  <2>3. checkout'[k].pc # "commit" /\ \A j \in Checkouts : j # k => checkout'[j] = checkout[j]
    BY <1>1, <1>3 DEF StartCheckout
  <2>4. UNCHANGED <<user, customers, sessions, faults>>
    BY <1>3 DEF StartCheckout, stripeVars
  <2>5. TypeOK'
    BY <1>2, <2>1, <2>4 DEF Typed, TypeOK, Bookings
  <2>6. Known'
    BY <1>2, <2>2, <2>3 DEF Typed, Known, Busy, Paying
  <2> QED
    BY <2>5, <2>6 DEF Typed
<1>4. CASE GetOrCreateCustomer(k)
  <2>1. PICK c \in Customers :
          /\ customers' = customers \cup {c}
          /\ checkout' = [checkout EXCEPT ![k].pc = "session", ![k].customer = c]
    BY <1>4 DEF GetOrCreateCustomer
  <2>2. [checkout[k] EXCEPT !.pc = "session", !.customer = c] \in Bookings
    BY <1>1 DEF Bookings
  <2>3. checkout' = [checkout EXCEPT ![k] =
                       [checkout[k] EXCEPT !.pc = "session", !.customer = c]]
    BY <2>1
  <2>4. checkout' \in [Checkouts -> Bookings] /\ checkout'[k].customer = c
    BY <1>1, <2>2, <2>3 DEF Bookings
  <2>5. \A j \in Checkouts : j # k => checkout'[j] = checkout[j]
    BY <1>1, <2>3
  <2>6. UNCHANGED <<user, sessions, faults>>
    BY <1>4 DEF GetOrCreateCustomer
  <2>7. TypeOK'
    BY <1>2, <2>1, <2>4, <2>6 DEF Typed, TypeOK, Bookings
  <2>8. Known'
    BY <1>2, <2>4, <2>5 DEF Typed, Known, Busy, Paying
  <2> QED
    BY <2>7, <2>8 DEF Typed
<1>5. CASE OpenSession(k)
  <2>1. checkout[k].customer \in Customers
    BY <1>5 DEF OpenSession, Typed, Known, Paying
  <2>2. checkout' \in [Checkouts -> Bookings] /\ checkout'[k].customer = checkout[k].customer
    BY <1>1, <1>5 DEF OpenSession, Bookings
  <2>3. \A j \in Checkouts : j # k => checkout'[j] = checkout[j]
    BY <1>1, <1>5 DEF OpenSession
  <2>4. sessions' \subseteq Customers /\ UNCHANGED <<user, customers, faults>>
    BY <1>5, <2>1 DEF OpenSession, Typed, TypeOK
  <2>5. TypeOK'
    BY <1>2, <2>2, <2>4 DEF Typed, TypeOK, Bookings
  <2>6. Known'
    BY <1>2, <2>1, <2>2, <2>3 DEF Typed, Known, Busy, Paying
  <2> QED
    BY <2>5, <2>6 DEF Typed
<1>6. CASE CheckoutCommit(k) \/ CheckoutFails(k)
  <2>1. checkout' = [checkout EXCEPT ![k] = IdleCheckout]
    BY <1>6 DEF CheckoutCommit, CheckoutFails
  <2>2. checkout' \in [Checkouts -> Bookings]
    BY <1>1, <2>1 DEF IdleCheckout, Bookings
  <2>3. /\ checkout'[k].pc = "idle"
        /\ \A j \in Checkouts : j # k => checkout'[j] = checkout[j]
    BY <1>1, <2>1 DEF IdleCheckout
  <2>4. user' \in User
    BY <1>1, <1>6 DEF CheckoutCommit, CheckoutFails, Bookings, User
  <2>5. UNCHANGED <<customers, sessions>> /\ faults' \in 0 .. MaxFaults
    BY <1>6 DEF CheckoutCommit, CheckoutFails, Fault, stripeVars, Typed, TypeOK
  <2>6. TypeOK'
    BY <1>2, <2>2, <2>4, <2>5 DEF Typed, TypeOK, Bookings
  <2>7. Known'
    BY <1>2, <2>3 DEF Typed, Known, Busy, Paying
  <2> QED
    BY <2>6, <2>7 DEF Typed
<1> QED
  BY <1>3, <1>4, <1>5, <1>6 DEF CheckoutAction, CheckoutStep

LEMMA NextTyped ==
  ASSUME Typed, [Next]_vars
  PROVE  Typed'
<1>1. CASE DeliveryAction
  <2>1. UNCHANGED <<user, customers, sessions, sub, log, done, handler, checkout, torn,
                    disorder>>
    BY <1>1 DEF DeliveryAction, Replay, SentAgain, KeyLost, stripeVars, flagVars
  <2>2. /\ pending' \subseteq 1 .. Len(log) /\ keys' \subseteq Ids
        /\ faults' \in 0 .. MaxFaults
    <3>1. PICK e \in Ids : Replay(e) \/ SentAgain(e) \/ KeyLost(e)
      BY <1>1 DEF DeliveryAction
    <3>2. /\ pending \subseteq 1 .. Len(log) /\ keys \subseteq Ids
          /\ done \subseteq 1 .. Len(log) /\ faults \in 0 .. MaxFaults
      BY DEF Typed, TypeOK, Known
    <3>3. CASE Replay(e)
      BY <3>2, <3>3 DEF Replay, Answered
    <3>4. CASE SentAgain(e)
      BY <3>2, <3>4, BillingAssumption DEF SentAgain, Fault
    <3>5. CASE KeyLost(e)
      BY <3>2, <3>5, BillingAssumption DEF KeyLost, Fault
    <3> QED
      BY <3>1, <3>3, <3>4, <3>5
  <2> QED
    BY <2>1, <2>2 DEF Typed, TypeOK, Known, Busy, Paying
<1>2. CASE UNCHANGED vars
  BY <1>2 DEF vars, Typed, TypeOK, Known, Busy, Paying
<1> QED
  BY <1>1, <1>2, StepKinds, StripeTyped, HandlersTyped, CheckoutsTyped

(* Every variable keeps its type: handlers and Redis only know events that    *)
(* Stripe emitted, and the row only customers that Stripe created.            *)
THEOREM TypeCorrect == Spec => []TypeOK
<1>1. Init => Typed
  BY InitialTypes
<1>2. Typed /\ [Next]_vars => Typed'
  BY NextTyped
<1>3. Typed => TypeOK
  BY DEF Typed
<1> QED
  BY <1>1, <1>2, <1>3, PTL DEF Spec

-----------------------------------------------------------------------------
(* A free user's row is blank.                                                *)

LEMMA NextBlank ==
  ASSUME Typed, Blanks, [Next]_vars
  PROVE  Blanks'
<1>1. CASE \E h \in Handlers : HandlerAction(h)
  <2>1. PICK h \in Handlers : HandlerAction(h)
    BY <1>1
  <2>2. handler[h] \in Requests /\ user \in User
    BY DEF Typed, TypeOK, Requests
  <2> SUFFICES ASSUME ~torn'
               PROVE  /\ Blank(user')
                      /\ \A g \in Handlers : Computed(g)' => Blank(handler'[g].new)
    BY DEF Blanks, Blank, Computed
  <2>3. ~torn
    BY <2>1, HandlerChanges DEF Commit
  <2>4. Blank(user) /\ \A g \in Handlers : Computed(g) => Blank(handler[g].new)
    BY <2>3 DEF Blanks
  <2>5. Blank(user')
    <3>1. CASE Commit(h)
      <4>1. user = handler[h].old /\ Computed(h)
        BY <3>1 DEF Commit, Computed
      <4>2. user' = handler[h].new
        BY <2>2, <3>1, <4>1, WrittenColumns DEF Commit, Requests
      <4> QED
        BY <2>4, <4>1, <4>2
    <3>2. CASE ~Commit(h)
      BY <2>1, <2>4, <3>2, HandlerChanges
    <3> QED
      BY <3>1, <3>2
  <2>6. ASSUME NEW g \in Handlers, Computed(g)'
        PROVE  Blank(handler'[g].new)
    <3>1. CASE g # h
      <4>1. handler'[g] = handler[g]
        BY <2>1, <3>1, HandlerChanges
      <4> QED
        BY <2>4, <2>6, <4>1 DEF Computed
    <3>2. CASE g = h /\ Apply(h)
      <4>1. handler[h].event \in 1 .. Len(log)
        BY <3>2 DEF Apply, Typed, Known, Busy
      <4>2. handler'[h].new = Effect(user, handler[h].event)
        BY <2>1, <3>2, HandlerChanges
      <4>3. Blank(Effect(user, handler[h].event))
        BY <2>2, <2>4, <4>1, EffectCases
      <4> QED
        BY <3>2, <4>2, <4>3
    <3>3. CASE g = h /\ SetKey(h)
      <4>1. handler'[h].new = handler[h].new /\ Computed(h)
        BY <2>1, <3>3, HandlerChanges DEF SetKey, Computed
      <4> QED
        BY <2>4, <3>3, <4>1
    <3>4. CASE g = h /\ (Commit(h) \/ HandlerFails(h) \/ \E e \in Ids : Receive(h, e))
      <4>1. handler'[h].pc \in {"idle", "checked"}
        BY <2>1, <3>4, HandlerChanges DEF IdleHandler
      <4> QED
        BY <2>6, <3>4, <4>1 DEF Computed
    <3> QED
      BY <2>1, <3>1, <3>2, <3>3, <3>4 DEF HandlerAction
  <2> QED
    BY <2>5, <2>6
<1>2. CASE \E k \in Checkouts : CheckoutAction(k)
  <2>1. PICK k \in Checkouts : CheckoutAction(k)
    BY <1>2
  <2>2. UNCHANGED <<handler, torn>>
    BY <2>1 DEF CheckoutAction, CheckoutStep, StartCheckout, GetOrCreateCustomer, OpenSession,
       CheckoutCommit, CheckoutFails, flagVars
  <2>3. user' = user \/ user' = [user EXCEPT !.customer = checkout[k].customer]
    BY <2>1 DEF CheckoutAction, CheckoutStep, StartCheckout, GetOrCreateCustomer, OpenSession,
       CheckoutCommit, CheckoutFails
  <2>4. user'.plan = user.plan /\ user'.sub = user.sub /\ user'.expires = user.expires
    BY <2>3 DEF Typed, TypeOK, User
  <2> QED
    BY <2>2, <2>4 DEF Blanks, Blank, Computed
<1>3. CASE \E s \in Subs : Pay(s) \/ Changed(s)
  <2>1. UNCHANGED <<user, handler, torn>>
    BY <1>3, Paid, Moved
  <2> QED
    BY <2>1 DEF Blanks, Computed
<1>4. CASE DeliveryAction \/ UNCHANGED vars
  <2>1. UNCHANGED <<user, handler, torn>>
    BY <1>4 DEF DeliveryAction, Replay, SentAgain, KeyLost, flagVars, vars
  <2> QED
    BY <2>1 DEF Blanks, Computed
<1> QED
  BY <1>1, <1>2, <1>3, <1>4, StepKinds

(* However webhooks, checkouts and failures interleave: unless two handlers   *)
(* wrote over each other, a free user has no subscription id and no period.   *)
THEOREM FreeRowsBlank == Spec => []FreeIsBlank
<1>1. Init => Blanks
  BY DEF Init, NewUser, IdleHandler, Blanks, Blank, Computed
<1>2. Typed /\ Blanks /\ [Next]_vars => Typed' /\ Blanks'
  BY NextTyped, NextBlank
<1>3. Blanks => FreeIsBlank
  BY DEF Blanks, Blank, FreeIsBlank
<1>4. Init => Typed
  BY InitialTypes
<1> QED
  BY <1>1, <1>2, <1>3, <1>4, PTL DEF Spec

-----------------------------------------------------------------------------
(* Stripe's side.                                                             *)

(* At most one of something that there are finitely many of.                  *)
LEMMA AtMostOne ==
  ASSUME NEW S, IsFiniteSet(S), Cardinality(S) <= 1, NEW c \in S, NEW d \in S
  PROVE  c = d
<1> SUFFICES ASSUME c # d
             PROVE  FALSE
  OBVIOUS
<1>1. IsFiniteSet(S \ {c}) /\ Cardinality(S \ {c}) = Cardinality(S) - 1
  BY FS_RemoveElement
<1>2. Cardinality(S) \in Nat /\ Cardinality(S \ {c}) \in Nat
  BY <1>1, FS_CardinalityType
<1>3. S \ {c} = {}
  BY <1>1, <1>2, FS_EmptySet
<1> QED
  BY <1>3

(* Nothing Stripe began is undone: what a history is asked for at its end has *)
(* held all along.                                                            *)
LEMMA Accumulates ==
  ASSUME Typed, [Next]_vars
  PROVE  /\ customers \subseteq customers' /\ Started \subseteq Started'
         /\ (torn => torn') /\ (disorder => disorder')
<1>1. ASSUME NEW s \in Subs, Pay(s) \/ Changed(s)
      PROVE  /\ customers \subseteq customers' /\ Started \subseteq Started'
             /\ (torn => torn') /\ (disorder => disorder')
  <2>1. UNCHANGED <<customers, torn, disorder>>
    BY <1>1, Paid, Moved
  <2>2. sub'[s].state # "none" /\ \A t \in Subs : t # s => sub'[t] = sub[t]
    <3>1. sub \in [Subs -> Subscriptions]
      BY DEF Typed, TypeOK, Subscriptions
    <3>2. CASE Pay(s)
      <4>1. PICK c \in sessions : sub' = [sub EXCEPT ![s] = [state |-> "active",
                                                             customer |-> c]]
        BY <3>2, Paid
      <4> QED
        BY <3>1, <4>1
    <3>3. CASE Changed(s)
      <4>1. PICK to \in {"active", "lapsed", "canceled"} :
              sub' = [sub EXCEPT ![s].state = to]
        BY <3>3, Moved
      <4> QED
        BY <3>1, <4>1 DEF Subscriptions
    <3> QED
      BY <1>1, <3>2, <3>3
  <2> QED
    BY <2>1, <2>2 DEF Started
<1>2. ASSUME NEW h \in Handlers, HandlerAction(h)
      PROVE  /\ customers \subseteq customers' /\ Started \subseteq Started'
             /\ (torn => torn') /\ (disorder => disorder')
  BY <1>2, HandlerChanges DEF Started, Commit, Receive
<1>3. ASSUME NEW k \in Checkouts, CheckoutAction(k)
      PROVE  /\ customers \subseteq customers' /\ Started \subseteq Started'
             /\ (torn => torn') /\ (disorder => disorder')
  BY <1>3 DEF CheckoutAction, CheckoutStep, StartCheckout, GetOrCreateCustomer, OpenSession,
     CheckoutCommit, CheckoutFails, stripeVars, flagVars, Started
<1>4. CASE DeliveryAction \/ UNCHANGED vars
  BY <1>4 DEF DeliveryAction, Replay, SentAgain, KeyLost, stripeVars, flagVars, vars, Started
<1> QED
  BY <1>1, <1>2, <1>3, <1>4, StepKinds

(* A payment begins one subscription, for a customer with an open session.    *)
LEMMA Begins ==
  ASSUME Typed, NEW s \in Subs, Pay(s)
  PROVE  /\ s \notin Started /\ Started' = Started \cup {s}
         /\ sub'[s].state = "active" /\ sub'[s].customer \in sessions
         /\ \A t \in Subs : t # s => sub'[t] = sub[t]
         /\ sessions' \subseteq sessions
<1>1. PICK c \in sessions : /\ sub' = [sub EXCEPT ![s] = [state |-> "active",
                                                         customer |-> c]]
                            /\ sessions' = sessions \ {c}
  BY Paid
<1>2. sub \in [Subs -> Subscriptions]
  BY DEF Typed, TypeOK, Subscriptions
<1>3. /\ sub'[s].state = "active" /\ sub'[s].customer = c
      /\ \A t \in Subs : t # s => sub'[t] = sub[t]
  BY <1>1, <1>2
<1>4. Started' = Started \cup {s}
  BY <1>3 DEF Started
<1> QED
  BY <1>1, <1>3, <1>4, Paid

(* What happens to a subscription later leaves its customer alone.            *)
LEMMA GoesOn ==
  ASSUME Typed, NEW s \in Subs, Changed(s)
  PROVE  /\ s \in Started /\ Started' = Started
         /\ \A t \in Subs : sub'[t].customer = sub[t].customer
         /\ log'[Len(log) + 1].sub = s
         /\ sub'[s].state = "active" <=> Live(log'[Len(log) + 1].kind)
<1>1. PICK to \in {"active", "lapsed", "canceled"}, kind \in Kind :
        /\ sub' = [sub EXCEPT ![s].state = to]
        /\ log'[Len(log) + 1] = Event(kind, s)
        /\ to = "active" <=> Live(kind)
  BY Moved
<1>2. sub \in [Subs -> Subscriptions]
  BY DEF Typed, TypeOK, Subscriptions
<1>3. /\ sub'[s].state = to /\ sub'[s].customer = sub[s].customer
      /\ \A t \in Subs : t # s => sub'[t] = sub[t]
  BY <1>1, <1>2 DEF Subscriptions
<1>4. s \in Started
  BY Moved
<1>5. Started' = Started
  BY <1>3, <1>4 DEF Started
<1>6. log'[Len(log) + 1].sub = s /\ log'[Len(log) + 1].kind = kind
  BY <1>1 DEF Event
<1>7. \A t \in Subs : sub'[t].customer = sub[t].customer
  BY <1>3
<1>8. sub'[s].state = "active" <=> Live(log'[Len(log) + 1].kind)
  BY <1>1, <1>3, <1>6
<1> QED
  BY <1>4, <1>5, <1>6, <1>7, <1>8

LEMMA LogFollows ==
  ASSUME Typed, StripesLog, NEW s \in Subs, Pay(s) \/ Changed(s)
  PROVE  StripesLog'
<1>1. Len(log) \in Nat
  BY DEF Typed, TypeOK
<1>2. CASE Pay(s)
  <2>1. /\ Len(log') = Len(log) + 2
        /\ \A i \in 1 .. Len(log) : log'[i] = log[i]
        /\ log'[Len(log) + 1] = Event("checkout", s)
        /\ log'[Len(log) + 2] = Event("invoice", s)
    BY <1>2, Paid
  <2>2. Started' = Started \cup {s} /\ sub'[s].state = "active"
    BY <1>2, Begins
  <2>3. ASSUME NEW e \in 1 .. Len(log')
        PROVE  log'[e].sub \in Started'
    <3>1. CASE e \in 1 .. Len(log)
      BY <2>1, <2>2, <3>1 DEF StripesLog
    <3>2. CASE e = Len(log) + 1 \/ e = Len(log) + 2
      <4>1. log'[e].sub = s
        BY <2>1, <3>2 DEF Event
      <4> QED
        BY <2>2, <4>1
    <3> QED
      BY <1>1, <2>1, <3>1, <3>2
  <2>4. log'[1].kind = "checkout"
    <3>1. CASE Len(log) = 0
      BY <2>1, <3>1 DEF Event
    <3>2. CASE Len(log) >= 1
      BY <1>1, <2>1, <3>2 DEF StripesLog
    <3> QED
      BY <1>1, <3>1, <3>2
  <2>5. sub'[log'[Len(log')].sub].state = "active" <=> Live(log'[Len(log')].kind)
    <3>1. log'[Len(log')].sub = s /\ log'[Len(log')].kind = "invoice"
      BY <2>1 DEF Event
    <3> QED
      BY <2>2, <3>1 DEF Live
  <2> QED
    BY <1>1, <2>1, <2>3, <2>4, <2>5 DEF StripesLog
<1>3. CASE Changed(s)
  <2>1. /\ Len(log') = Len(log) + 1
        /\ \A i \in 1 .. Len(log) : log'[i] = log[i]
    BY <1>3, Moved
  <2>2. /\ s \in Started /\ Started' = Started
        /\ log'[Len(log')].sub = s
        /\ sub'[s].state = "active" <=> Live(log'[Len(log')].kind)
    BY <1>3, <2>1, GoesOn
  <2>3. ASSUME NEW e \in 1 .. Len(log')
        PROVE  log'[e].sub \in Started'
    <3>1. CASE e \in 1 .. Len(log)
      BY <2>1, <2>2, <3>1 DEF StripesLog
    <3>2. CASE e = Len(log')
      BY <2>2, <3>2
    <3> QED
      BY <1>1, <2>1, <3>1, <3>2
  <2>4. Len(log) >= 1
    BY <2>2 DEF StripesLog
  <2>5. log'[1].kind = "checkout"
    BY <1>1, <2>1, <2>4 DEF StripesLog
  <2>6. sub'[log'[Len(log')].sub].state = "active" <=> Live(log'[Len(log')].kind)
    BY <2>2
  <2> QED
    BY <1>1, <2>1, <2>3, <2>4, <2>5, <2>6 DEF StripesLog
<1> QED
  BY <1>2, <1>3

(* The customer ids that go around stay within those Stripe created.          *)
LEMMA CustomersKnown ==
  ASSUME Typed, StripesLog, KnownCustomers, [Next]_vars
  PROVE  KnownCustomers'
<1>1. CASE \E s \in Subs : Pay(s) \/ Changed(s)
  <2>1. PICK s \in Subs : Pay(s) \/ Changed(s)
    BY <1>1
  <2>2. UNCHANGED <<user, customers, handler, checkout>>
    BY <2>1, Paid, Moved
  <2>3. sessions' \subseteq sessions
    BY <2>1, Begins, Moved
  <2>4. ASSUME NEW t \in Started'
        PROVE  sub'[t].customer \in customers
    <3>1. CASE Pay(s)
      <4>1. CASE t = s
        BY <3>1, <4>1, Begins DEF KnownCustomers
      <4>2. CASE t # s
        <5>1. t \in Started /\ t \in Subs
          BY <2>4, <3>1, <4>2, Begins DEF Started
        <5> QED
          BY <3>1, <4>2, <5>1, Begins DEF KnownCustomers
      <4> QED
        BY <4>1, <4>2
    <3>2. CASE Changed(s)
      <4>1. t \in Started /\ t \in Subs
        BY <2>4, <3>2, GoesOn DEF Started
      <4> QED
        BY <3>2, <4>1, GoesOn DEF KnownCustomers
    <3> QED
      BY <2>1, <3>1, <3>2
  <2> QED
    BY <2>2, <2>3, <2>4 DEF KnownCustomers, Computed, Paying
<1>2. CASE \E h \in Handlers : HandlerAction(h)
  <2>1. PICK h \in Handlers : HandlerAction(h)
    BY <1>2
  <2>2. UNCHANGED <<customers, sessions, sub, log, checkout>>
    BY <2>1, HandlerChanges
  <2>3. handler[h] \in Requests /\ user \in User
    BY DEF Typed, TypeOK, Requests
  <2>4. user'.customer \in customers \cup {None}
    <3>1. CASE Commit(h)
      <4>1. user'.customer \in {user.customer, handler[h].new.customer}
        BY <2>3, <3>1, WrittenColumns DEF Commit, Requests
      <4>2. handler[h].new.customer \in customers \cup {None}
        BY <3>1 DEF Commit, KnownCustomers, Computed
      <4> QED
        BY <4>1, <4>2 DEF KnownCustomers
    <3>2. CASE ~Commit(h)
      BY <2>1, <3>2, HandlerChanges DEF KnownCustomers
    <3> QED
      BY <3>1, <3>2
  <2>5. ASSUME NEW g \in Handlers, Computed(g)'
        PROVE  handler'[g].new.customer \in customers \cup {None}
    <3>1. CASE g # h
      BY <2>1, <2>5, <3>1, HandlerChanges DEF KnownCustomers, Computed
    <3>2. CASE g = h /\ Apply(h)
      <4>1. handler[h].event \in 1 .. Len(log)
        BY <3>2 DEF Apply, Typed, Known, Busy
      <4>2. handler'[h].new = Effect(user, handler[h].event)
        BY <2>1, <3>2, HandlerChanges
      <4>3. Effect(user, handler[h].event).customer
              \in {user.customer, sub[log[handler[h].event].sub].customer}
        BY <2>3, <4>1, EffectCases
      <4>4. log[handler[h].event].sub \in Started
        BY <4>1 DEF StripesLog
      <4> QED
        BY <3>2, <4>2, <4>3, <4>4 DEF KnownCustomers
    <3>3. CASE g = h /\ SetKey(h)
      <4>1. handler'[h].new = handler[h].new /\ Computed(h)
        BY <2>1, <3>3, HandlerChanges DEF SetKey, Computed
      <4> QED
        BY <3>3, <4>1 DEF KnownCustomers
    <3>4. CASE g = h /\ (Commit(h) \/ HandlerFails(h) \/ \E e \in Ids : Receive(h, e))
      <4>1. handler'[h].pc \in {"idle", "checked"}
        BY <2>1, <3>4, HandlerChanges DEF IdleHandler
      <4> QED
        BY <2>5, <3>4, <4>1 DEF Computed
    <3> QED
      BY <2>1, <3>1, <3>2, <3>3, <3>4 DEF HandlerAction
  <2> QED
    BY <2>2, <2>4, <2>5 DEF KnownCustomers, Computed, Paying, Started
<1>3. CASE \E k \in Checkouts : CheckoutAction(k)
  <2>1. PICK k \in Checkouts : CheckoutAction(k)
    BY <1>3
  <2>2. UNCHANGED <<sub, handler>> /\ customers \subseteq customers'
    BY <2>1 DEF CheckoutAction, CheckoutStep, StartCheckout, GetOrCreateCustomer, OpenSession,
       CheckoutCommit, CheckoutFails, stripeVars
  <2>3. checkout \in [Checkouts -> Bookings] /\ user \in User
    BY DEF Typed, TypeOK, Bookings
  <2>4. \A j \in Checkouts : j # k => checkout'[j] = checkout[j]
    BY <2>1, <2>3 DEF CheckoutAction, CheckoutStep, StartCheckout, GetOrCreateCustomer,
       OpenSession, CheckoutCommit, CheckoutFails
  <2>5. Paying(k)' => checkout'[k].customer \in customers'
    <3>1. CASE StartCheckout(k)
      <4>1. /\ checkout'[k].pc = (IF user.customer = None THEN "search" ELSE "session")
            /\ checkout'[k].customer = user.customer
        BY <2>3, <3>1 DEF StartCheckout
      <4> QED
        BY <2>2, <4>1 DEF Paying, KnownCustomers
    <3>2. CASE GetOrCreateCustomer(k)
      <4>1. PICK c \in Customers :
              /\ customers' = customers \cup {c}
              /\ checkout' = [checkout EXCEPT ![k].pc = "session", ![k].customer = c]
        BY <3>2 DEF GetOrCreateCustomer
      <4>2. checkout'[k].customer = c
        BY <2>3, <4>1 DEF Bookings
      <4> QED
        BY <4>1, <4>2
    <3>3. CASE OpenSession(k)
      <4>1. checkout'[k].customer = checkout[k].customer /\ Paying(k)
        BY <2>3, <3>3 DEF OpenSession, Bookings, Paying
      <4> QED
        BY <2>2, <4>1 DEF KnownCustomers
    <3>4. CASE CheckoutCommit(k) \/ CheckoutFails(k)
      <4>1. checkout'[k].pc = "idle"
        BY <2>3, <3>4 DEF CheckoutCommit, CheckoutFails, IdleCheckout
      <4> QED
        BY <4>1 DEF Paying
    <3> QED
      BY <2>1, <3>1, <3>2, <3>3, <3>4 DEF CheckoutAction, CheckoutStep
  <2>6. sessions' \subseteq customers'
    <3>1. CASE OpenSession(k)
      <4>1. checkout[k].customer \in customers
        BY <3>1 DEF OpenSession, KnownCustomers, Paying
      <4> QED
        BY <2>2, <3>1, <4>1 DEF OpenSession, KnownCustomers
    <3>2. CASE UNCHANGED sessions
      BY <2>2, <3>2 DEF KnownCustomers
    <3> QED
      BY <2>1, <3>1, <3>2 DEF CheckoutAction, CheckoutStep, StartCheckout,
         GetOrCreateCustomer, CheckoutCommit, CheckoutFails, stripeVars
  <2>7. user'.customer \in customers' \cup {None}
    <3>1. CASE CheckoutCommit(k)
      <4>1. checkout[k].customer \in customers
        BY <3>1 DEF CheckoutCommit, KnownCustomers, Paying
      <4>2. user'.customer \in {user.customer, checkout[k].customer}
        BY <2>3, <3>1 DEF CheckoutCommit, User
      <4> QED
        BY <2>2, <4>1, <4>2 DEF KnownCustomers
    <3>2. CASE UNCHANGED user
      BY <2>2, <3>2 DEF KnownCustomers
    <3> QED
      BY <2>1, <3>1, <3>2 DEF CheckoutAction, CheckoutStep, StartCheckout,
         GetOrCreateCustomer, OpenSession, CheckoutFails
  <2>8. \A j \in Checkouts : Paying(j)' => checkout'[j].customer \in customers'
    BY <2>2, <2>4, <2>5 DEF KnownCustomers, Paying
  <2> QED
    BY <2>2, <2>6, <2>7, <2>8 DEF KnownCustomers, Computed, Started
<1>4. CASE DeliveryAction \/ UNCHANGED vars
  <2>1. UNCHANGED <<user, customers, sessions, sub, handler, checkout>>
    BY <1>4 DEF DeliveryAction, Replay, SentAgain, KeyLost, stripeVars, vars
  <2> QED
    BY <2>1 DEF KnownCustomers, Computed, Paying, Started
<1> QED
  BY <1>1, <1>2, <1>3, <1>4, StepKinds

LEMMA NextStripes ==
  ASSUME Typed, Stripes, [Next]_vars
  PROVE  Stripes'
<1>1. KnownCustomers'
  BY CustomersKnown DEF Stripes
<1>2. StripesLog'
  <2>1. CASE \E s \in Subs : Pay(s) \/ Changed(s)
    BY <2>1, LogFollows DEF Stripes
  <2>2. CASE UNCHANGED <<sub, log>>
    BY <2>2 DEF Stripes, StripesLog, Started
  <2>3. ASSUME NEW h \in Handlers, HandlerAction(h)
        PROVE  UNCHANGED <<sub, log>>
    BY <2>3, HandlerChanges
  <2>4. ASSUME NEW k \in Checkouts, CheckoutAction(k)
        PROVE  UNCHANGED <<sub, log>>
    BY <2>4 DEF CheckoutAction, CheckoutStep, StartCheckout, GetOrCreateCustomer, OpenSession,
       CheckoutCommit, CheckoutFails, stripeVars
  <2>5. CASE DeliveryAction \/ UNCHANGED vars
    BY <2>2, <2>5 DEF DeliveryAction, Replay, SentAgain, KeyLost, stripeVars, vars
  <2> QED
    BY <2>1, <2>2, <2>3, <2>4, <2>5, StepKinds
<1>3. IsFiniteSet(customers)'
  <2>1. CASE UNCHANGED customers
    BY <2>1 DEF Stripes, FewOfEach
  <2>2. ASSUME NEW k \in Checkouts, GetOrCreateCustomer(k)
        PROVE  IsFiniteSet(customers')
    <3>1. PICK c : customers' = customers \cup {c}
      BY <2>2 DEF GetOrCreateCustomer
    <3> QED
      BY <3>1, FS_AddElement DEF Stripes, FewOfEach
  <2>3. ASSUME NEW k \in Checkouts, CheckoutAction(k)
        PROVE  GetOrCreateCustomer(k) \/ UNCHANGED customers
    BY <2>3 DEF CheckoutAction, CheckoutStep, StartCheckout, OpenSession, CheckoutCommit,
       CheckoutFails, stripeVars
  <2>4. CASE DeliveryAction \/ UNCHANGED vars
    BY <2>1, <2>4 DEF DeliveryAction, Replay, SentAgain, KeyLost, stripeVars, vars
  <2> QED
    BY <2>1, <2>2, <2>3, <2>4, StepKinds, Paid, Moved, HandlerChanges
<1>4. IsFiniteSet(Started)'
  <2>1. CASE \E s \in Subs : Pay(s) \/ Changed(s)
    <3>1. PICK s \in Subs : Pay(s) \/ Changed(s)
      BY <2>1
    <3>2. Started' = Started \cup {s} \/ Started' = Started
      BY <3>1, Begins, GoesOn
    <3> QED
      BY <3>2, FS_AddElement DEF Stripes, FewOfEach
  <2>2. CASE UNCHANGED sub
    BY <2>2 DEF Stripes, FewOfEach, Started
  <2>3. ASSUME NEW k \in Checkouts, CheckoutAction(k)
        PROVE  UNCHANGED sub
    BY <2>3 DEF CheckoutAction, CheckoutStep, StartCheckout, GetOrCreateCustomer, OpenSession,
       CheckoutCommit, CheckoutFails, stripeVars
  <2>4. CASE DeliveryAction \/ UNCHANGED vars
    BY <2>2, <2>4 DEF DeliveryAction, Replay, SentAgain, KeyLost, stripeVars, vars
  <2> QED
    BY <2>1, <2>2, <2>3, <2>4, StepKinds, HandlerChanges
<1> QED
  BY <1>1, <1>2, <1>3, <1>4 DEF Stripes, FewOfEach

-----------------------------------------------------------------------------
(* Events that are taken up in order.                                         *)

LEMMA HandlersInTurn ==
  ASSUME Typed, InTurn, NEW h \in Handlers, HandlerAction(h)
  PROVE  InTurn'
<1> SUFFICES ASSUME ~disorder', NEW g \in Handlers, Busy(g)'
             PROVE  /\ \A f \in Handlers : Busy(f)' => f = g
                    /\ \A d \in 1 .. handler'[g].event - 1 : d \in done'
                    /\ \A d \in done' : d <= handler'[g].event
  BY DEF InTurn, Busy
<1>1. ~disorder
  BY HandlerChanges DEF Receive
<1>2. \A f \in Handlers : f # h => handler'[f] = handler[f]
  BY HandlerChanges
<1>3. ASSUME NEW e \in Ids, Receive(h, e)
      PROVE  /\ \A f \in Handlers : Busy(f)' => f = g
             /\ \A d \in 1 .. handler'[g].event - 1 : d \in done'
             /\ \A d \in done' : d <= handler'[g].event
  <2>1. /\ \A d \in 1 .. e - 1 : d \in done
        /\ \A d \in done : ~(d > e)
        /\ \A f \in Handlers : ~Busy(f)
        /\ done' = done
    BY <1>3 DEF Receive, AlreadyProcessed, Busy
  <2>2. \A f \in Handlers : Busy(f)' => f = h
    BY <1>2, <2>1 DEF Busy
  <2>3. g = h /\ handler'[h].event = e
    BY <1>3, <2>2, HandlerChanges
  <2>4. done \subseteq Nat /\ e \in Nat
    BY DEF Typed, TypeOK, Ids
  <2> QED
    BY <2>1, <2>2, <2>3, <2>4
<1>4. CASE Apply(h) \/ SetKey(h)
  <2>1. Busy(h) /\ handler'[h].event = handler[h].event /\ done' = done
    BY <1>4, HandlerChanges DEF Apply, SetKey, Busy
  <2>2. \A f \in Handlers : Busy(f)' => Busy(f) /\ handler'[f].event = handler[f].event
    BY <1>2, <2>1 DEF Busy
  <2> QED
    BY <1>1, <2>1, <2>2 DEF InTurn
<1>5. CASE Commit(h) \/ HandlerFails(h)
  <2>1. Busy(h) /\ handler'[h] = IdleHandler
    BY <1>5, HandlerChanges DEF Commit, HandlerFails, Busy
  <2>2. g # h /\ Busy(g)
    BY <1>2, <2>1 DEF Busy, IdleHandler
  <2> QED
    BY <1>1, <2>1, <2>2 DEF InTurn
<1> QED
  BY <1>3, <1>4, <1>5 DEF HandlerAction

LEMMA NextInTurn ==
  ASSUME Typed, InTurn, [Next]_vars
  PROVE  InTurn'
<1>1. CASE UNCHANGED <<done, handler, disorder>>
  BY <1>1 DEF InTurn, Busy
<1>2. ASSUME NEW k \in Checkouts, CheckoutAction(k)
      PROVE  UNCHANGED <<done, handler, disorder>>
  BY <1>2 DEF CheckoutAction, CheckoutStep, StartCheckout, GetOrCreateCustomer, OpenSession,
     CheckoutCommit, CheckoutFails, flagVars
<1>3. CASE DeliveryAction \/ UNCHANGED vars
  BY <1>1, <1>3 DEF DeliveryAction, Replay, SentAgain, KeyLost, flagVars, vars
<1> QED
  BY <1>1, <1>2, <1>3, StepKinds, Paid, Moved, HandlersInTurn

-----------------------------------------------------------------------------
(* The row follows the newest event.                                          *)

(* A history that is orderly at its end was orderly before.                   *)
LEMMA OrderlyBefore ==
  ASSUME Typed, [Next]_vars, Orderly'
  PROVE  Orderly
<1>1. ~torn' /\ ~disorder'
  BY DEF Orderly
<1>2. ~torn /\ ~disorder
  BY <1>1, Accumulates
<1>3. /\ \A c, d \in customers' : c = d
      /\ \A s, t \in Started' : s = t
  BY DEF Orderly
<1>4. customers \subseteq customers' /\ Started \subseteq Started'
  BY Accumulates
<1> QED
  BY <1>2, <1>3, <1>4 DEF Orderly

(* What Stripe does next leaves the row where it was: the first payment finds *)
(* nothing handled, and nothing later touches an earlier event.               *)
LEMMA StripeFollowed ==
  ASSUME Typed, Stripes, RowFollows, NEW s \in Subs, Pay(s) \/ Changed(s), Orderly
  PROVE  RowFollows'
<1>1. UNCHANGED <<user, done, handler>>
  BY Paid, Moved
<1>2. \A i \in 1 .. Len(log) : log'[i] = log[i]
  BY Paid, Moved
<1>3. /\ done \subseteq 1 .. Len(log)
      /\ \A h \in Handlers : Computed(h) => handler[h].event \in 1 .. Len(log)
  BY DEF Typed, Known, Computed, Busy
<1>4. /\ IF done = {} THEN user.plan = "free" ELSE Tied(user)
      /\ \A e \in done : (\A d \in done : d <= e) => Follows(user, e)
      /\ \A h \in Handlers : Computed(h) => Follows(handler[h].new, handler[h].event)
  BY DEF RowFollows
<1>5. CASE Changed(s)
  <2>1. \A t \in Started' : t \in Started /\ sub'[t].customer = sub[t].customer
    BY <1>5, GoesOn DEF Started
  <2>2. Tied(user) => Tied(user)'
    BY <1>1, <2>1 DEF Tied
  <2>3. \A e \in 1 .. Len(log) : Follows(user, e) => Follows(user, e)'
    BY <1>1, <1>2, <2>1 DEF Follows, Tied
  <2>4. \A h \in Handlers : Computed(h) =>
          Follows(handler[h].new, handler[h].event)'
    BY <1>1, <1>2, <1>3, <1>4, <2>1 DEF Follows, Tied
  <2> QED
    BY <1>1, <1>3, <1>4, <2>2, <2>3, <2>4 DEF RowFollows, Computed
<1>6. CASE Pay(s) /\ Orderly'
  <2>1. Started = {}
    BY <1>6, Begins DEF Orderly
  <2>2. Len(log) = 0
    <3>1. Len(log) \in Nat
      BY DEF Typed, TypeOK
    <3> QED
      BY <2>1, <3>1 DEF Stripes, StripesLog
  <2>3. done = {} /\ \A h \in Handlers : ~Computed(h)
    BY <1>3, <2>2
  <2> QED
    BY <1>1, <1>4, <2>3 DEF RowFollows, Computed
<1>7. CASE ~Orderly'
  BY <1>7 DEF RowFollows
<1> QED
  BY <1>5, <1>6, <1>7

(* A handler computes what follows its event: the first is a checkout, which  *)
(* ties the row to the customer, and every later one finds it tied.           *)
LEMMA EffectFollows ==
  ASSUME Typed, Stripes, InTurn, RowFollows, Orderly, NEW h \in Handlers, Busy(h)
  PROVE  Follows(Effect(user, handler[h].event), handler[h].event)
<1> DEFINE e == handler[h].event
           kind == log[e].kind
           s == log[e].sub
           v == Effect(user, e)
<1>1. e \in 1 .. Len(log) /\ user \in User /\ Len(log) \in Nat
  BY DEF Typed, TypeOK, Known
<1>2. /\ kind \in Kind
      /\ kind = "checkout" => v.plan = "pro" /\ v.customer = sub[s].customer
      /\ kind # "checkout" /\ user.customer = sub[s].customer =>
           v.customer = sub[s].customer /\ (v.plan = "pro" <=> Live(kind))
  BY <1>1, EffectCases
<1>3. s \in Started /\ \A t \in Started : t = s
  BY <1>1 DEF Stripes, StripesLog, Orderly
<1> HIDE DEF v
<1>4. CASE kind = "checkout"
  BY <1>2, <1>3, <1>4 DEF Follows, Tied, Live, v
<1>5. CASE kind # "checkout"
  <2>1. 1 \in done
    <3>1. e # 1
      BY <1>1, <1>5 DEF Stripes, StripesLog
    <3>2. 1 \in 1 .. e - 1
      BY <1>1, <3>1
    <3> QED
      BY <3>2 DEF InTurn, Orderly
  <2>2. user.customer = sub[s].customer
    BY <1>3, <2>1 DEF RowFollows, Tied
  <2> QED
    BY <1>2, <1>3, <1>5, <2>2 DEF Follows, Tied, v
<1> QED
  BY <1>4, <1>5

(* A handler's step: what it computes follows its event, and what it commits  *)
(* over the row it had loaded becomes the row.                                *)
LEMMA HandlersFollow ==
  ASSUME Typed, Stripes, InTurn, RowFollows, NEW h \in Handlers, HandlerAction(h), Orderly
  PROVE  RowFollows'
<1> SUFFICES ASSUME Orderly'
             PROVE  /\ IF done' = {} THEN user'.plan = "free" ELSE Tied(user)'
                    /\ \A e \in done' : (\A d \in done' : d <= e) => Follows(user, e)'
                    /\ \A g \in Handlers : Computed(g)' =>
                         Follows(handler[g].new, handler[g].event)'
  BY DEF RowFollows
<1>1. UNCHANGED <<sub, log>> /\ Started' = Started
  BY HandlerChanges DEF Started
<1>2. /\ IF done = {} THEN user.plan = "free" ELSE Tied(user)
      /\ \A e \in done : (\A d \in done : d <= e) => Follows(user, e)
      /\ \A g \in Handlers : Computed(g) => Follows(handler[g].new, handler[g].event)
  BY DEF RowFollows
<1>3. handler[h] \in Requests /\ user \in User
  BY DEF Typed, TypeOK, Requests
<1>4. ASSUME NEW g \in Handlers, Computed(g)'
      PROVE  Follows(handler[g].new, handler[g].event)'
  <2>1. ASSUME Follows(handler'[g].new, handler'[g].event)
        PROVE  Follows(handler[g].new, handler[g].event)'
    BY <1>1, <2>1 DEF Follows, Tied
  <2>2. CASE g # h
    <3>1. handler'[g] = handler[g]
      BY <2>2, HandlerChanges
    <3>2. Computed(g)
      BY <1>4, <3>1 DEF Computed
    <3> QED
      BY <1>2, <2>1, <3>1, <3>2
  <2>3. CASE g = h /\ Apply(h)
    <3>1. /\ handler'[h].new = Effect(user, handler[h].event)
          /\ handler'[h].event = handler[h].event /\ Busy(h)
      BY <2>3, HandlerChanges DEF Apply, Busy
    <3>2. Follows(Effect(user, handler[h].event), handler[h].event)
      BY <3>1, EffectFollows
    <3> QED
      BY <2>1, <2>3, <3>1, <3>2
  <2>4. CASE g = h /\ SetKey(h)
    <3>1. /\ handler'[h].new = handler[h].new /\ handler'[h].event = handler[h].event
          /\ Computed(h)
      BY <2>4, HandlerChanges DEF SetKey, Computed
    <3> QED
      BY <1>2, <2>1, <2>4, <3>1
  <2>5. CASE g = h /\ (Commit(h) \/ HandlerFails(h) \/ \E e \in Ids : Receive(h, e))
    <3>1. handler'[h].pc \in {"idle", "checked"}
      BY <2>5, HandlerChanges DEF IdleHandler
    <3> QED
      BY <1>4, <2>5, <3>1 DEF Computed
  <2> QED
    BY <2>2, <2>3, <2>4, <2>5 DEF HandlerAction
<1>5. CASE Commit(h)
  <2>1. Computed(h) /\ Busy(h) /\ user = handler[h].old
    BY <1>5 DEF Commit, Computed, Busy, Orderly
  <2>2. user' = handler[h].new /\ done' = done \cup {handler[h].event}
    BY <1>3, <1>5, <2>1, WrittenColumns DEF Commit, Requests
  <2>3. Follows(handler[h].new, handler[h].event)
    BY <1>2, <2>1
  <2>4. Tied(user)' /\ (user'.plan = "pro" <=> Live(log[handler[h].event].kind))
    <3>1. Tied(user') /\ (user'.plan = "pro" <=> Live(log[handler[h].event].kind))
      BY <2>2, <2>3 DEF Follows
    <3>2. Tied(user)'
      BY <1>1, <3>1 DEF Tied
    <3> QED
      BY <3>1, <3>2
  <2>5. ASSUME NEW e \in done', \A d \in done' : d <= e
        PROVE  Follows(user, e)'
    <3>1. /\ handler[h].event \in Nat /\ done \subseteq Nat
          /\ \A d \in done : d <= handler[h].event
      BY <2>1 DEF InTurn, Orderly, Typed, TypeOK, Known, Ids
    <3>2. e <= handler[h].event /\ handler[h].event <= e
      BY <2>2, <2>5, <3>1
    <3>3. e = handler[h].event
      BY <2>2, <3>1, <3>2
    <3> QED
      BY <1>1, <2>4, <3>3 DEF Follows
  <2> QED
    BY <1>4, <2>2, <2>4, <2>5
<1>6. CASE ~Commit(h)
  <2>1. UNCHANGED <<user, done>>
    BY <1>6, HandlerChanges
  <2>2. /\ Tied(user) => Tied(user)'
        /\ \A e \in done : Follows(user, e) => Follows(user, e)'
    BY <1>1, <2>1 DEF Follows, Tied
  <2> QED
    BY <1>2, <1>4, <2>1, <2>2
<1> QED
  BY <1>5, <1>6

(* A checkout writes the only customer id there is.                           *)
LEMMA CheckoutsFollow ==
  ASSUME Typed, Stripes, RowFollows, NEW k \in Checkouts, CheckoutAction(k), Orderly
  PROVE  RowFollows'
<1>1. UNCHANGED <<sub, log, done, handler>> /\ Started' = Started
  BY DEF CheckoutAction, CheckoutStep, StartCheckout, GetOrCreateCustomer, OpenSession,
     CheckoutCommit, CheckoutFails, stripeVars, Started
<1>2. user'.plan = user.plan /\ (Tied(user) => Tied(user)')
  <2>1. CASE CheckoutCommit(k) /\ ~checkout[k].bound
    <3>1. user' = [user EXCEPT !.customer = checkout[k].customer]
      BY <2>1 DEF CheckoutCommit
    <3>2. user'.plan = user.plan /\ user'.customer = checkout[k].customer
      BY <3>1 DEF Typed, TypeOK, User
    <3>3. checkout[k].customer \in customers
      BY <2>1 DEF CheckoutCommit, Paying, Stripes, KnownCustomers
    <3>4. \A s \in Started : checkout[k].customer = sub[s].customer
      BY <3>3 DEF Orderly, Stripes, KnownCustomers
    <3> QED
      BY <1>1, <3>2, <3>4 DEF Tied
  <2>2. CASE UNCHANGED user
    BY <1>1, <2>2 DEF Tied
  <2> QED
    BY <2>1, <2>2 DEF CheckoutAction, CheckoutStep, StartCheckout, GetOrCreateCustomer,
       OpenSession, CheckoutCommit, CheckoutFails
<1>3. \A e \in done : Follows(user, e) => Follows(user, e)'
  BY <1>1, <1>2 DEF Follows
<1>4. \A h \in Handlers : Follows(handler[h].new, handler[h].event) =>
        Follows(handler[h].new, handler[h].event)'
  BY <1>1 DEF Follows, Tied
<1> QED
  BY <1>1, <1>2, <1>3, <1>4 DEF RowFollows, Computed

LEMMA NextFollowing ==
  ASSUME Following, [Next]_vars
  PROVE  Following'
<1>1. Typed' /\ Stripes' /\ InTurn'
  BY NextTyped, NextStripes, NextInTurn DEF Following
<1>2. RowFollows'
  <2>1. CASE ~Orderly'
    BY <2>1 DEF RowFollows
  <2>2. CASE Orderly'
    <3>1. Orderly
      BY <2>2, OrderlyBefore DEF Following
    <3>2. CASE DeliveryAction \/ UNCHANGED vars
      <4>1. UNCHANGED <<user, customers, sub, log, done, handler, torn, disorder>>
        BY <3>2 DEF DeliveryAction, Replay, SentAgain, KeyLost, stripeVars, flagVars, vars
      <4> QED
        BY <4>1 DEF Following, RowFollows, Orderly, Follows, Tied, Computed, Started
    <3> QED
      BY <3>1, <3>2, StepKinds, StripeFollowed, HandlersFollow, CheckoutsFollow DEF Following
  <2> QED
    BY <2>1, <2>2
<1> QED
  BY <1>1, <1>2 DEF Following

LEMMA InitialFollowing ==
  ASSUME Init
  PROVE  Following
<1>1. Typed
  BY InitialTypes
<1>2. /\ user.plan = "free" /\ user.customer = None /\ customers = {} /\ sessions = {}
      /\ log = <<>> /\ done = {}
      /\ \A h \in Handlers : handler[h].pc = "idle"
      /\ \A k \in Checkouts : checkout[k].pc = "idle"
  BY DEF Init, NewUser, IdleHandler, IdleCheckout
<1>3. Started = {} /\ Len(log) = 0
  BY <1>2 DEF Init, Started
<1>4. Stripes
  BY <1>2, <1>3, FS_EmptySet DEF Stripes, StripesLog, KnownCustomers, FewOfEach, Computed,
     Paying
<1>5. InTurn /\ RowFollows
  BY <1>2 DEF InTurn, RowFollows, Busy, Computed
<1> QED
  BY <1>1, <1>4, <1>5 DEF Following

(* When everything Stripe reported has had its effect, in order and one at a  *)
(* time, the plan of a user with one customer and one subscription is what    *)
(* Stripe says, whatever was delivered twice, failed or lost on the way.      *)
THEOREM PlanIsStripes == Spec => []PlanFollowsStripe
<1>1. Following => PlanFollowsStripe
  <2> SUFFICES ASSUME Following, ~torn, ~disorder, done = 1 .. Len(log),
                      Cardinality(customers) <= 1, Cardinality(Started) <= 1
               PROVE  user.plan = "pro" <=> \E s \in Subs : sub[s].state = "active"
    BY DEF PlanFollowsStripe, Started
  <2>1. IsFiniteSet(customers) /\ IsFiniteSet(Started)
    BY DEF Following, Stripes, FewOfEach
  <2>2. Orderly
    BY <2>1, AtMostOne DEF Orderly
  <2>3. (\E s \in Subs : sub[s].state = "active") <=> \E s \in Started : sub[s].state = "active"
    BY DEF Started
  <2>4. Len(log) \in Nat
    BY DEF Following, Typed, TypeOK
  <2>5. CASE Len(log) = 0
    <3>1. Started = {} /\ done = {}
      BY <2>5 DEF Following, Stripes, StripesLog
    <3>2. user.plan = "free"
      BY <2>2, <3>1 DEF Following, RowFollows
    <3> QED
      BY <2>3, <3>1, <3>2
  <2>6. CASE Len(log) >= 1
    <3> DEFINE n == Len(log)
               s == log[n].sub
    <3>1. n \in done /\ \A d \in done : d <= n
      BY <2>4, <2>6
    <3>2. user.plan = "pro" <=> Live(log[n].kind)
      BY <2>2, <3>1 DEF Following, RowFollows, Follows
    <3>3. s \in Started /\ (sub[s].state = "active" <=> Live(log[n].kind))
      BY <2>4, <2>6 DEF Following, Stripes, StripesLog
    <3>4. \A t \in Started : t = s
      BY <2>2, <3>3 DEF Orderly
    <3> QED
      BY <2>3, <3>2, <3>3, <3>4
  <2> QED
    BY <2>4, <2>5, <2>6
<1>2. Init => Following
  BY InitialFollowing
<1>3. Following /\ [Next]_vars => Following'
  BY NextFollowing
<1> QED
  BY <1>1, <1>2, <1>3, PTL DEF Spec

-----------------------------------------------------------------------------
(* While nothing has failed, a key without its effect belongs to a handler    *)
(* that is about to commit.                                                   *)
Marking(h, e) == handler[h].pc = "marked" /\ handler[h].event = e

KeysAwaitCommit ==
  faults = 0 => \A e \in keys : e \in done \/ \E h \in Handlers : Marking(h, e)

LEMMA NextKeys ==
  ASSUME Typed, KeysAwaitCommit, [Next]_vars
  PROVE  KeysAwaitCommit'
<1> SUFFICES ASSUME faults' = 0, NEW e \in keys'
             PROVE  e \in done' \/ \E h \in Handlers : Marking(h, e)'
  BY DEF KeysAwaitCommit
<1>1. faults \in Nat
  BY BillingAssumption DEF Typed, TypeOK
<1>2. ASSUME UNCHANGED <<keys, done, handler, faults>>
      PROVE  e \in done' \/ \E h \in Handlers : Marking(h, e)'
  BY <1>2 DEF KeysAwaitCommit, Marking
<1>3. ASSUME NEW s \in Subs, Pay(s) \/ Changed(s)
      PROVE  UNCHANGED <<keys, done, handler, faults>>
  BY <1>3 DEF Pay, Changed, Renew, Lapse, Recover, Pause, Cancel, Move
<1>4. ASSUME NEW k \in Checkouts, CheckoutAction(k)
      PROVE  UNCHANGED <<keys, done, handler, faults>>
  BY <1>1, <1>4 DEF CheckoutAction, CheckoutStep, StartCheckout, CheckoutFails,
     GetOrCreateCustomer, OpenSession, CheckoutCommit, Fault
<1>5. ASSUME DeliveryAction
      PROVE  UNCHANGED <<keys, done, handler, faults>>
  BY <1>1, <1>5 DEF DeliveryAction, Replay, SentAgain, KeyLost, Fault
<1>6. ASSUME NEW g \in Handlers, HandlerAction(g)
      PROVE  e \in done' \/ \E h \in Handlers : Marking(h, e)'
  <2>1. ~HandlerFails(g) /\ faults = 0
    <3>1. ~HandlerFails(g)
      BY <1>1 DEF HandlerFails, Fault
    <3>2. UNCHANGED faults
      BY <1>6, <3>1 DEF HandlerAction, Receive, Apply, SetKey, Commit
    <3> QED
      BY <3>1, <3>2
  <2>2. done \subseteq done' /\ keys' \subseteq keys \cup {handler[g].event}
    BY <1>6, <2>1 DEF HandlerAction, Receive, Apply, SetKey, Commit
  <2>3. CASE e \in done
    BY <2>2, <2>3
  <2>4. ASSUME NEW h \in Handlers, Marking(h, e), h # g
        PROVE  Marking(h, e)'
    BY <1>6, <2>4, HandlerChanges DEF Marking
  <2>5. CASE Marking(g, e)
    <3>1. Commit(g)
      BY <1>6, <2>1, <2>5 DEF HandlerAction, Receive, Apply, SetKey, Marking
    <3> QED
      BY <2>5, <3>1 DEF Commit, Marking
  <2>6. CASE e \notin keys
    <3>1. SetKey(g) /\ e = handler[g].event
      BY <1>6, <2>1, <2>2, <2>6 DEF HandlerAction, Receive, Apply, Commit
    <3>2. Marking(g, e)'
      BY <1>6, <3>1, HandlerChanges DEF Marking
    <3> QED
      BY <3>2
  <2>7. e \in keys => e \in done \/ \E h \in Handlers : Marking(h, e)
    BY <2>1 DEF KeysAwaitCommit
  <2> QED
    BY <2>3, <2>4, <2>5, <2>6, <2>7
<1> QED
  BY <1>2, <1>3, <1>4, <1>5, <1>6, StepKinds DEF vars

(* Without failures the idempotency key means what its comment says: when     *)
(* nothing runs, every event with a key has had its effect, however many      *)
(* handlers overlap.  It takes a failed request to break KeyMeansDone.        *)
THEOREM KeysAreDoneWithoutFaults == Spec => [](faults = 0 => KeyMeansDone)
<1>1. Init => Typed /\ KeysAwaitCommit
  BY InitialTypes DEF Init, KeysAwaitCommit
<1>2. Typed /\ KeysAwaitCommit /\ [Next]_vars => Typed' /\ KeysAwaitCommit'
  BY NextTyped, NextKeys
<1>3. KeysAwaitCommit => (faults = 0 => KeyMeansDone)
  BY DEF KeysAwaitCommit, KeyMeansDone, AtRest, Marking
<1> QED
  BY <1>1, <1>2, <1>3, PTL DEF Spec
=============================================================================
