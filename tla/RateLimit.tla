------------------------------ MODULE RateLimit ------------------------------
(***************************************************************************)
(* RateLimitCheck for one client address: the sliding windows of the       *)
(* endpoints it guards, kept in Redis sorted sets by a Lua script, and the *)
(* progressive lockout that all endpoints share.  A request takes its time *)
(* stamp in the API process and is evaluated in Redis later; between any   *)
(* two of its Redis calls other requests run.                              *)
(*                                                                         *)
(* Redis forgets a key at its expiry: a key is stored with the time of its *)
(* end, and what an expired one holds does not count.                      *)
(***************************************************************************)
EXTENDS Integers, FiniteSets

CONSTANTS
  Endpoints,   \* the prefixes that are limited
  Requests,    \* concurrent requests of the client
  Limit,       \* max_per_ip
  Window,      \* window_seconds
  MaxLag,      \* how late a stamp may reach Redis (socket timeout)
  Threshold,   \* failures of each lockout tier: 5, 10, 20
  Ban,         \* length of each tier's lock: 15 min, 1 h, 24 h
  Blur,        \* the end of a lock that its rounded TTL does not show: half a second
  FailsTtl,    \* lifetime of the failure counter: 24 h
  MaxTime,     \* bound: the clock
  MaxFaults,   \* bound: Redis calls that raise
  MaxFails,    \* bound: the count from which no request slips past a fading lock
  None

ASSUME RateLimitAssumption ==
  /\ Limit \in Nat /\ Window \in Nat /\ MaxLag \in Nat
  /\ MaxTime \in Nat /\ MaxFaults \in Nat /\ MaxFails \in Nat /\ FailsTtl \in Nat /\ Blur \in Nat
  /\ Ban \in [1 .. 3 -> Nat \ {0}] /\ Ban[1] < Ban[2] /\ Ban[2] < Ban[3]
  /\ Threshold \in [1 .. 3 -> Nat \ {0}]
  /\ Threshold[1] < Threshold[2] /\ Threshold[2] < Threshold[3]
  /\ IsFiniteSet(Requests)
  /\ None \notin Endpoints

VARIABLES
  now,
  zset,      \* rl:sw:{prefix}:ip:{ip}, the members with their scores
  zsetEnd,   \* when that key expires
  passed,    \* every request the script let in: stamp, evaluation time, id
  fails,     \* rl:fails:{ip}: the count, and its expiry once it has one
  lock,      \* rl:lock:{ip}: when it expires
  lockedAt,  \* the count when the lock in force was set
  req,
  faults

windowVars == <<zset, zsetEnd, passed>>
lockVars == <<fails, lock, lockedAt>>
vars == <<now, zset, zsetEnd, passed, fails, lock, lockedAt, req, faults>>

IdleRequest == [pc |-> "idle", ep |-> None, at |-> 0, count |-> 0]

Init ==
  /\ now = 0
  /\ zset = [e \in Endpoints |-> {}]
  /\ zsetEnd = [e \in Endpoints |-> 0]
  /\ passed = [e \in Endpoints |-> {}]
  /\ fails = [n |-> 0, timed |-> FALSE, end |-> 0]
  /\ lock = 0
  /\ lockedAt = 0
  /\ req = [q \in Requests |-> IdleRequest]
  /\ faults = 0

-----------------------------------------------------------------------------
(* Faulty variants: each replaces the definition it is named after in one     *)
(* check, which shows that the property checked there can fail.               *)

NotLockedOut_NotAsked == TRUE
Member_WindowStart(e, at) == [at |-> at - Window, when |-> now, id |-> 0]
LimitReached_Late(n) == n > Limit
ExpireAt_Dropped(t) == fails
-----------------------------------------------------------------------------
(* The clock: a stamped request reaches Redis within MaxLag, or gives up.     *)
Tick ==
  /\ now < MaxTime
  /\ \A q \in Requests : req[q].pc = "stamped" => now < req[q].at + MaxLag
  /\ now' = now + 1
  /\ UNCHANGED <<windowVars, lockVars, req, faults>>

Fault == faults < MaxFaults /\ faults' = faults + 1

SetPc(q, pc) == req' = [req EXCEPT ![q].pc = pc]

Done(q) == req' = [req EXCEPT ![q] = IdleRequest]

-----------------------------------------------------------------------------
(* 1. The lockout check. *)

Locked == lock > now

(* TTL counts whole seconds, to the nearest: in its last half a second a lock *)
(* may read 0, which is no lock.                                              *)
Firm == lock > now + Blur

NotLockedOut == ~Firm

Failures == IF fails.timed /\ fails.end <= now THEN 0 ELSE fails.n

(* A locked client is refused with 429; that is not counted as a failure.     *)
CheckLock(q, e) ==
  /\ req[q].pc = "idle"
  /\ NotLockedOut
  /\ Locked => Failures < MaxFails
  /\ req' = [req EXCEPT ![q].pc = "open", ![q].ep = e]
  /\ UNCHANGED <<now, windowVars, lockVars, faults>>

(* _get_lockout_ttl swallows the exception and reports no lock. *)
CheckLockFails(q, e) ==
  /\ req[q].pc = "idle"
  /\ Fault
  /\ req' = [req EXCEPT ![q].pc = "open", ![q].ep = e]
  /\ UNCHANGED <<now, windowVars, lockVars>>

-----------------------------------------------------------------------------
(* 2. The sliding window. *)

Stamp(q) ==
  /\ req[q].pc = "open"
  /\ req' = [req EXCEPT ![q].pc = "stamped", ![q].at = now]
  /\ UNCHANGED <<now, windowVars, lockVars, faults>>

Alive(e) == IF zsetEnd[e] > now THEN zset[e] ELSE {}

(* ZREMRANGEBYSCORE key 0 (at - Window) *)
Kept(e, at) == {m \in Alive(e) : m.at > at - Window}

LimitReached(n) == n >= Limit

HasRoom(e, at) == ~LimitReached(Cardinality(Kept(e, at)))

Member(e, at) == [at |-> at, when |-> now, id |-> Cardinality(passed[e]) + 1]

LetIn(e, at) ==
  /\ HasRoom(e, at)
  /\ zset' = [zset EXCEPT ![e] = Kept(e, at) \cup {Member(e, at)}]
  /\ zsetEnd' = [zsetEnd EXCEPT ![e] = now + Window]
  /\ passed' = [passed EXCEPT ![e] = @ \cup {Member(e, at)}]

TurnAway(e, at) ==
  /\ ~HasRoom(e, at)
  /\ zset' = [zset EXCEPT ![e] = Kept(e, at)]
  /\ UNCHANGED <<zsetEnd, passed>>

Allow(q) ==
  /\ req[q].pc = "stamped"
  /\ LetIn(req[q].ep, req[q].at)
  /\ Done(q)
  /\ UNCHANGED <<now, lockVars, faults>>

Reject(q) ==
  /\ req[q].pc = "stamped"
  /\ TurnAway(req[q].ep, req[q].at)
  /\ SetPc(q, "over")
  /\ UNCHANGED <<now, lockVars, faults>>

(* The call raises, before or after the script ran: the request is let in.    *)
FailOpen(q) ==
  /\ req[q].pc = "stamped"
  /\ Fault
  /\ \/ LetIn(req[q].ep, req[q].at)
     \/ TurnAway(req[q].ep, req[q].at)
     \/ UNCHANGED windowVars
  /\ Done(q)
  /\ UNCHANGED <<now, lockVars>>

-----------------------------------------------------------------------------
(* 3. _record_failure, before the 429 of a full window is sent. *)

(* INCR keeps the expiry of a live key and creates one without any.           *)
Incr(q) ==
  /\ req[q].pc = "over"
  /\ fails' = IF Failures = 0 THEN [n |-> 1, timed |-> FALSE, end |-> 0]
                              ELSE [fails EXCEPT !.n = @ + 1]
  /\ req' = [req EXCEPT ![q].pc = "counted", ![q].count = Failures + 1]
  /\ UNCHANGED <<now, windowVars, lock, lockedAt, faults>>

ExpireAt(t) == [n |-> fails.n, timed |-> TRUE, end |-> t]

Expire(q) ==
  /\ req[q].pc = "counted"
  /\ fails' = IF Failures = 0 THEN fails ELSE ExpireAt(now + FailsTtl)
  /\ SetPc(q, "timed")
  /\ UNCHANGED <<now, windowVars, lock, lockedAt, faults>>

BanFor(n) ==
  CASE n < Threshold[1] -> 0
    [] Threshold[1] <= n /\ n < Threshold[2] -> Ban[1]
    [] Threshold[2] <= n /\ n < Threshold[3] -> Ban[2]
    [] Threshold[3] <= n -> Ban[3]

(* SET ... NX *)
LockIsFree == ~Locked

SetLock(q) ==
  /\ req[q].pc = "timed"
  /\ LET ban == BanFor(req[q].count)
     IN IF ban > 0 /\ LockIsFree
        THEN lock' = now + ban /\ lockedAt' = Failures
        ELSE UNCHANGED <<lock, lockedAt>>
  /\ Done(q)
  /\ UNCHANGED <<now, windowVars, fails, faults>>

(* An exception is logged; what was done until then stays. *)
RecordFails(q) ==
  /\ req[q].pc \in {"over", "counted", "timed"}
  /\ Fault
  /\ Done(q)
  /\ UNCHANGED <<now, windowVars, lockVars>>

-----------------------------------------------------------------------------
(* The clock has reached its bound and no request runs. *)
Rest ==
  /\ now = MaxTime
  /\ \A q \in Requests : req[q].pc = "idle"
  /\ UNCHANGED vars

Next ==
  \/ Tick
  \/ \E q \in Requests :
       \/ \E e \in Endpoints : CheckLock(q, e) \/ CheckLockFails(q, e)
       \/ Stamp(q) \/ Allow(q) \/ Reject(q) \/ FailOpen(q)
       \/ Incr(q) \/ Expire(q) \/ SetLock(q) \/ RecordFails(q)
  \/ Rest

Spec == Init /\ [][Next]_vars

-----------------------------------------------------------------------------
(* Properties. *)

Pass == [at : Nat, when : Nat, id : Nat]

TypeOK ==
  /\ now \in 0 .. MaxTime
  /\ zset \in [Endpoints -> SUBSET Pass]
  /\ zsetEnd \in [Endpoints -> Nat]
  /\ passed \in [Endpoints -> SUBSET Pass]
  /\ fails \in [n : Nat, timed : BOOLEAN, end : Nat]
  /\ lock \in Nat
  /\ lockedAt \in Nat
  /\ req \in [Requests -> [pc : {"idle", "open", "stamped", "over", "counted", "timed"},
                           ep : Endpoints \cup {None}, at : Nat, count : Nat]]
  /\ faults \in 0 .. MaxFaults

(* The promise of the sliding window, against the clock of Redis and not the  *)
(* stamps the script compares: no stretch of time shorter than the window, by *)
(* the lag of a stamp, sees more than Limit recorded requests let in.         *)
PassedWithin(e, t) == {m \in passed[e] : t <= m.when /\ m.when < t + Window - MaxLag}

WindowBound ==
  \A e \in Endpoints, t \in 0 .. MaxTime : Cardinality(PassedWithin(e, t)) <= Limit

InFlight == {q \in Requests : req[q].pc \in {"open", "stamped", "over"}}

(* A locked client cannot lengthen its sentence by asking again: while a lock *)
(* shows in its TTL the failure count rises only by the requests that were    *)
(* past the lockout check when it was set, or went past an unanswered check.  *)
BanDoesNotEscalate ==
  Firm => Failures <= lockedAt + Cardinality(Requests) - 1 + faults

(* "Failure counter resets after 24 h of no activity": with no request        *)
(* between INCR and EXPIRE, and no call failed, the counter has an end.       *)
CounterDecays ==
  faults = 0 /\ (\A q \in Requests : req[q].pc # "counted") /\ Failures > 0
    => fails.timed

(* "10 failures -> 1 hr ban": once a failure has been recorded, the client is *)
(* locked from then on for as long as the tier of its count says.             *)
Recording == \E q \in Requests : req[q].pc \in {"over", "counted", "timed"}

LastFailure == fails.end - FailsTtl

=============================================================================
