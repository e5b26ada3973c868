-------------------------- MODULE RateLimitProofs ----------------------------
(* Proofs about RateLimit, for all limits, windows, lags and clocks.          *)
EXTENDS RateLimit, FiniteSetTheorems, TLAPS

(* A request past the lockout check knows its endpoint; a stamp is at most    *)
(* MaxLag old while its request is on the way to Redis.                       *)
Stamped(q) == req[q].pc = "stamped"

Stamps ==
  \A q \in Requests :
    /\ req[q].pc # "idle" => req[q].ep \in Endpoints
    /\ Stamped(q) => req[q].at <= now /\ now <= req[q].at + MaxLag

(* What is known of the requests let in: they were evaluated soon after their *)
(* stamp, and the key outlives each by a window.                              *)
Timely ==
  \A e \in Endpoints : \A m \in passed[e] :
    /\ m.at <= m.when /\ m.when <= m.at + MaxLag
    /\ m.when <= now
    /\ m.when + Window <= zsetEnd[e]

(* The sorted set has forgotten only what no window can see any more.         *)
Old(m) == m.when + Window <= now + MaxLag

Remembered ==
  \A e \in Endpoints :
    /\ IsFiniteSet(passed[e])
    /\ zset[e] \subseteq passed[e]
    /\ \A m \in passed[e] \ zset[e] : Old(m)

Bounded == \A e \in Endpoints, t \in Nat : Cardinality(PassedWithin(e, t)) <= Limit

WindowInv == TypeOK /\ Stamps /\ Timely /\ Remembered /\ Bounded

-----------------------------------------------------------------------------
(* What a script run drops, by score, by expiry or earlier, is old.           *)
LEMMA KeptIsRecent ==
  ASSUME TypeOK, Timely, Remembered, NEW e \in Endpoints, NEW at \in Nat,
         at <= now, now <= at + MaxLag
  PROVE  /\ Kept(e, at) \subseteq zset[e]
         /\ IsFiniteSet(Kept(e, at))
         /\ \A m \in passed[e] \ Kept(e, at) : Old(m)
<1>1. Kept(e, at) \subseteq zset[e]
  BY DEF Kept, Alive
<1>2. IsFiniteSet(Kept(e, at))
  BY <1>1, FS_Subset DEF Remembered
<1>3. ASSUME NEW m \in passed[e], m \notin Kept(e, at)
      PROVE  Old(m)
  <2>1. /\ m.at \in Nat /\ m.when \in Nat /\ zsetEnd[e] \in Nat /\ now \in Nat
        /\ m.at <= m.when /\ m.when <= m.at + MaxLag
        /\ m.when + Window <= zsetEnd[e]
    BY DEF TypeOK, Pass, Timely
  <2>2. CASE m \notin zset[e]
    BY <2>2 DEF Remembered
  <2>3. CASE m \in zset[e] /\ zsetEnd[e] <= now
    BY <2>1, <2>3, RateLimitAssumption DEF Old
  <2>4. CASE m \in zset[e] /\ ~(zsetEnd[e] <= now)
    <3>1. ~(m.at > at - Window)
      BY <1>3, <2>1, <2>4 DEF Kept, Alive
    <3> QED
      BY <2>1, <3>1, RateLimitAssumption DEF Old
  <2> QED
    BY <2>2, <2>3, <2>4
<1> QED
  BY <1>1, <1>2, <1>3

(* Letting a request in under the limit keeps every stretch within the limit: *)
(* a stretch that holds the new request holds nothing the script has dropped. *)
LEMMA LetInBounded ==
  ASSUME WindowInv, NEW e \in Endpoints, NEW at \in Nat, at <= now, now <= at + MaxLag,
         LetIn(e, at), now' = now
  PROVE  /\ Bounded'
         /\ Remembered'
         /\ Timely'
         /\ zset' \in [Endpoints -> SUBSET Pass]
         /\ zsetEnd' \in [Endpoints -> Nat]
         /\ passed' \in [Endpoints -> SUBSET Pass]
<1> DEFINE x == Member(e, at)
<1>1. /\ Kept(e, at) \subseteq zset[e]
      /\ IsFiniteSet(Kept(e, at))
      /\ \A m \in passed[e] \ Kept(e, at) : Old(m)
  BY KeptIsRecent DEF WindowInv
<1>2. /\ zset' = [zset EXCEPT ![e] = Kept(e, at) \cup {x}]
      /\ zsetEnd' = [zsetEnd EXCEPT ![e] = now + Window]
      /\ passed' = [passed EXCEPT ![e] = passed[e] \cup {x}]
  BY DEF LetIn
<1>3. /\ zset \in [Endpoints -> SUBSET Pass]
      /\ zsetEnd \in [Endpoints -> Nat]
      /\ passed \in [Endpoints -> SUBSET Pass]
      /\ now \in Nat /\ Window \in Nat /\ MaxLag \in Nat /\ Limit \in Nat
  BY RateLimitAssumption DEF WindowInv, TypeOK
<1>4. x \in Pass /\ x.at = at /\ x.when = now
  <2>1. Cardinality(passed[e]) \in Nat
    BY FS_CardinalityType DEF WindowInv, Remembered
  <2> QED
    BY <1>3, <2>1 DEF Member, Pass
<1>5. IsFiniteSet(Kept(e, at) \cup {x}) /\ Cardinality(Kept(e, at) \cup {x}) <= Limit
  <2>1. Cardinality(Kept(e, at)) \in Nat /\ Cardinality(Kept(e, at)) < Limit
    BY <1>1, <1>3, FS_CardinalityType DEF LetIn, HasRoom, LimitReached
  <2>2. /\ IsFiniteSet(Kept(e, at) \cup {x})
        /\ \/ Cardinality(Kept(e, at) \cup {x}) = Cardinality(Kept(e, at))
           \/ Cardinality(Kept(e, at) \cup {x}) = Cardinality(Kept(e, at)) + 1
    BY <1>1, FS_AddElement
  <2> QED
    BY <1>3, <2>1, <2>2
<1> HIDE DEF x
<1>6. /\ zset' \in [Endpoints -> SUBSET Pass]
      /\ zsetEnd' \in [Endpoints -> Nat]
      /\ passed' \in [Endpoints -> SUBSET Pass]
  <2>1. Kept(e, at) \cup {x} \in SUBSET Pass
    BY <1>1, <1>3, <1>4
  <2> QED
    BY <1>2, <1>3, <1>4, <2>1
<1>7. Timely'
  <2> SUFFICES ASSUME NEW d \in Endpoints, NEW m \in passed'[d]
               PROVE  /\ m.at <= m.when /\ m.when <= m.at + MaxLag
                      /\ m.when <= now
                      /\ m.when + Window <= zsetEnd'[d]
    BY DEF Timely
  <2>1. CASE d # e
    BY <1>2, <1>3, <2>1 DEF WindowInv, Timely
  <2>2. CASE d = e /\ m = x
    BY <1>2, <1>3, <1>4, <2>2
  <2>3. CASE d = e /\ m \in passed[e]
    <3>1. m.when \in Nat /\ m.when <= now /\ m.at <= m.when /\ m.when <= m.at + MaxLag
      BY <1>3, <2>3 DEF WindowInv, Timely, Pass
    <3>2. zsetEnd'[d] = now + Window
      BY <1>2, <1>3, <2>3
    <3> QED
      BY <1>3, <3>1, <3>2
  <2> QED
    BY <1>2, <1>3, <2>1, <2>2, <2>3
<1>8. Remembered'
  <2> SUFFICES ASSUME NEW d \in Endpoints
               PROVE  /\ IsFiniteSet(passed'[d])
                      /\ zset'[d] \subseteq passed'[d]
                      /\ \A m \in passed'[d] \ zset'[d] : Old(m)'
    BY DEF Remembered
  <2>1. \A m : Old(m)' <=> Old(m)
    BY DEF Old
  <2>2. CASE d # e
    BY <1>2, <1>3, <2>1, <2>2 DEF WindowInv, Remembered
  <2>3. CASE d = e
    <3>1. IsFiniteSet(passed[e] \cup {x})
      BY FS_AddElement DEF WindowInv, Remembered
    <3>2. zset[e] \subseteq passed[e]
      BY DEF WindowInv, Remembered
    <3>3. passed'[e] = passed[e] \cup {x} /\ zset'[e] = Kept(e, at) \cup {x}
      BY <1>2, <1>3
    <3> QED
      BY <1>1, <2>1, <2>3, <3>1, <3>2, <3>3
  <2> QED
    BY <2>2, <2>3
<1>9. Bounded'
  <2> SUFFICES ASSUME NEW d \in Endpoints, NEW t \in Nat
               PROVE  Cardinality(PassedWithin(d, t)') <= Limit
    BY DEF Bounded
  <2> DEFINE In(m) == t <= m.when /\ m.when < t + Window - MaxLag
  <2>1. PassedWithin(d, t)' = {m \in passed'[d] : In(m)}
    BY DEF PassedWithin
  <2>2. PassedWithin(d, t) = {m \in passed[d] : In(m)}
    BY DEF PassedWithin
  <2>3. CASE d # e \/ ~In(x)
    <3>1. PassedWithin(d, t)' = PassedWithin(d, t)
      BY <1>2, <1>3, <2>1, <2>2, <2>3
    <3> QED
      BY <3>1 DEF WindowInv, Bounded
  <2>4. CASE d = e /\ In(x)
    <3>1. ASSUME NEW m \in PassedWithin(d, t)'
          PROVE  m \in Kept(e, at) \cup {x}
      <4>1. In(m) /\ m \in passed[e] \cup {x}
        BY <1>2, <1>3, <2>1, <2>4, <3>1
      <4>2. CASE m # x
        <5>1. m \in passed[e] /\ m.when \in Nat
          BY <1>3, <4>1, <4>2 DEF Pass
        <5>2. ~Old(m)
          BY <1>3, <1>4, <2>4, <4>1, <5>1 DEF Old
        <5> QED
          BY <1>1, <5>1, <5>2
      <4> QED
        BY <4>2
    <3>2. /\ Cardinality(PassedWithin(d, t)') <= Cardinality(Kept(e, at) \cup {x})
          /\ Cardinality(PassedWithin(d, t)') \in Nat
      BY <1>5, <3>1, FS_Subset, FS_CardinalityType
    <3> QED
      BY <1>3, <1>5, <3>2, FS_CardinalityType
  <2> QED
    BY <2>3, <2>4
<1> QED
  BY <1>6, <1>7, <1>8, <1>9

(* Turning a request away only drops what is old.                             *)
LEMMA TurnAwayBounded ==
  ASSUME WindowInv, NEW e \in Endpoints, NEW at \in Nat, at <= now, now <= at + MaxLag,
         TurnAway(e, at), now' = now
  PROVE  /\ Bounded'
         /\ Remembered'
         /\ Timely'
         /\ zset' \in [Endpoints -> SUBSET Pass]
         /\ UNCHANGED <<zsetEnd, passed>>
<1>1. /\ Kept(e, at) \subseteq zset[e]
      /\ \A m \in passed[e] \ Kept(e, at) : Old(m)
  BY KeptIsRecent DEF WindowInv
<1>2. zset' = [zset EXCEPT ![e] = Kept(e, at)] /\ UNCHANGED <<zsetEnd, passed>>
  BY DEF TurnAway
<1>3. zset' \in [Endpoints -> SUBSET Pass]
  BY <1>1, <1>2 DEF WindowInv, TypeOK
<1>4. Remembered'
  BY <1>1, <1>2 DEF WindowInv, TypeOK, Remembered, Old
<1>5. Timely' /\ Bounded'
  BY <1>2 DEF WindowInv, Timely, Bounded, PassedWithin
<1> QED
  BY <1>2, <1>3, <1>4, <1>5

(* A step that leaves the windows alone and does not turn the clock back.     *)
LEMMA WindowsUntouched ==
  ASSUME WindowInv, UNCHANGED windowVars, now' \in Nat, now <= now'
  PROVE  Bounded' /\ Remembered' /\ Timely'
<1>1. now \in Nat /\ passed \in [Endpoints -> SUBSET Pass] /\ zsetEnd \in [Endpoints -> Nat]
  BY DEF WindowInv, TypeOK
<1>2. \A e \in Endpoints : \A m \in passed[e] : m.when \in Nat
  BY <1>1 DEF Pass
<1>3. Bounded'
  BY DEF WindowInv, Bounded, PassedWithin, windowVars
<1>4. Remembered'
  BY <1>1, <1>2, RateLimitAssumption DEF WindowInv, Remembered, Old, windowVars
<1>5. Timely'
  BY <1>1, <1>2 DEF WindowInv, Timely, windowVars
<1> QED
  BY <1>3, <1>4, <1>5

(* The failure count is a natural number.                                     *)
LEMMA FailuresType ==
  ASSUME TypeOK
  PROVE  Failures \in Nat
  BY DEF TypeOK, Failures

(* A ban has a length, which is a natural number.                             *)
LEMMA BanType ==
  ASSUME NEW n \in Nat
  PROVE  BanFor(n) \in Nat
<1>1. /\ Threshold[1] \in Nat /\ Threshold[2] \in Nat /\ Threshold[3] \in Nat
      /\ Threshold[1] < Threshold[2] /\ Threshold[2] < Threshold[3]
      /\ Ban[1] \in Nat /\ Ban[2] \in Nat /\ Ban[3] \in Nat
  BY RateLimitAssumption
<1>2. CASE n < Threshold[1]
  BY <1>1, <1>2 DEF BanFor
<1>3. CASE Threshold[1] <= n /\ n < Threshold[2]
  BY <1>1, <1>3 DEF BanFor
<1>4. CASE Threshold[2] <= n /\ n < Threshold[3]
  BY <1>1, <1>4 DEF BanFor
<1>5. CASE Threshold[3] <= n
  BY <1>1, <1>5 DEF BanFor
<1> QED
  BY <1>1, <1>2, <1>3, <1>4, <1>5

-----------------------------------------------------------------------------
(* The invariant holds with empty windows.                                    *)
LEMMA WindowInvInit ==
  ASSUME Init
  PROVE  WindowInv
<1>1. TypeOK /\ Stamps /\ Timely
  BY RateLimitAssumption DEF Init, TypeOK, Stamps, Timely, Stamped, IdleRequest, Pass
<1>2. Remembered
  BY FS_EmptySet DEF Init, Remembered
<1>3. ASSUME NEW e \in Endpoints, NEW t \in Nat
      PROVE  PassedWithin(e, t) = {}
  BY DEF Init, PassedWithin
<1>4. Bounded
  BY <1>3, FS_EmptySet, RateLimitAssumption DEF Bounded
<1> QED
  BY <1>1, <1>2, <1>4 DEF WindowInv

Slots == [pc : {"idle", "open", "stamped", "over", "counted", "timed"},
          ep : Endpoints \cup {None}, at : Nat, count : Nat]

\* Each step writes one request of the table, as a whole or two of its fields.
LEMMA SlotTyped ==
  ASSUME NEW table \in [Requests -> Slots], NEW q \in Requests
  PROVE  /\ \A e \in Endpoints :
              [table EXCEPT ![q].pc = "open", ![q].ep = e] \in [Requests -> Slots]
         /\ \A t \in Nat :
              [table EXCEPT ![q].pc = "stamped", ![q].at = t] \in [Requests -> Slots]
         /\ \A n \in Nat :
              [table EXCEPT ![q].pc = "counted", ![q].count = n] \in [Requests -> Slots]
<1>1. ASSUME NEW e \in Endpoints
      PROVE  [table EXCEPT ![q].pc = "open", ![q].ep = e] \in [Requests -> Slots]
  <2>1. [table[q] EXCEPT !.pc = "open", !.ep = e] \in Slots
    BY DEF Slots
  <2> QED
    BY <2>1
<1>2. ASSUME NEW t \in Nat
      PROVE  [table EXCEPT ![q].pc = "stamped", ![q].at = t] \in [Requests -> Slots]
  <2>1. [table[q] EXCEPT !.pc = "stamped", !.at = t] \in Slots
    BY DEF Slots
  <2> QED
    BY <2>1
<1>3. ASSUME NEW n \in Nat
      PROVE  [table EXCEPT ![q].pc = "counted", ![q].count = n] \in [Requests -> Slots]
  <2>1. [table[q] EXCEPT !.pc = "counted", !.count = n] \in Slots
    BY DEF Slots
  <2> QED
    BY <2>1
<1> QED
  BY <1>1, <1>2, <1>3

(* Every step of the limiter keeps the invariant.                             *)
LEMMA WindowInvStep ==
  ASSUME WindowInv, [Next]_vars
  PROVE  WindowInv'
<1> USE RateLimitAssumption
<1>1. TypeOK /\ Stamps /\ now \in Nat
  BY DEF WindowInv, TypeOK
<1>2. CASE Tick
  <2>1. now' \in Nat /\ now <= now' /\ UNCHANGED windowVars
    BY <1>1, <1>2 DEF Tick
  <2>2. TypeOK'
    BY <1>1, <1>2 DEF Tick, TypeOK, windowVars, lockVars
  <2>3. Stamps'
    BY <1>1, <1>2 DEF Tick, Stamps, Stamped, TypeOK
  <2> QED
    BY <2>1, <2>2, <2>3, WindowsUntouched DEF WindowInv
<1>3. ASSUME NEW q \in Requests, NEW e \in Endpoints, CheckLock(q, e) \/ CheckLockFails(q, e)
      PROVE  WindowInv'
  <2>1. UNCHANGED <<now, windowVars, lockVars>> /\ faults' \in 0 .. MaxFaults
    BY <1>1, <1>3 DEF CheckLock, CheckLockFails, Fault, TypeOK
  <2>2. req' = [req EXCEPT ![q].pc = "open", ![q].ep = e]
    BY <1>3 DEF CheckLock, CheckLockFails
  <2>3. TypeOK'
    <3>1. req' \in [Requests -> Slots]
      BY <1>1, <2>2, SlotTyped DEF TypeOK, Slots
    <3> QED
      BY <1>1, <2>1, <3>1 DEF TypeOK, Slots, windowVars, lockVars
  <2>4. Stamps'
    BY <1>1, <2>1, <2>2 DEF Stamps, Stamped, TypeOK
  <2> QED
    BY <1>1, <2>1, <2>3, <2>4, WindowsUntouched DEF WindowInv
<1>4. ASSUME NEW q \in Requests, Stamp(q)
      PROVE  WindowInv'
  <2>1. UNCHANGED <<now, windowVars, lockVars, faults>>
    BY <1>4 DEF Stamp
  <2>2. TypeOK'
    <3>1. req' \in [Requests -> Slots]
      BY <1>1, <1>4, SlotTyped DEF Stamp, TypeOK, Slots
    <3> QED
      BY <1>1, <2>1, <3>1 DEF TypeOK, Slots, windowVars, lockVars
  <2>3. Stamps'
    BY <1>1, <1>4, <2>1 DEF Stamp, Stamps, Stamped, TypeOK
  <2> QED
    BY <1>1, <2>1, <2>2, <2>3, WindowsUntouched DEF WindowInv
<1>5. ASSUME NEW q \in Requests, Allow(q) \/ Reject(q) \/ FailOpen(q)
      PROVE  WindowInv'
  <2> DEFINE e == req[q].ep
             at == req[q].at
  <2>1. e \in Endpoints /\ at \in Nat /\ at <= now /\ now <= at + MaxLag
    BY <1>1, <1>5 DEF Allow, Reject, FailOpen, Stamps, Stamped, TypeOK
  <2>2. /\ LetIn(e, at) \/ TurnAway(e, at) \/ UNCHANGED windowVars
        /\ UNCHANGED <<now, lockVars>>
        /\ faults' \in 0 .. MaxFaults
    BY <1>1, <1>5 DEF Allow, Reject, FailOpen, Fault, TypeOK
  <2>3. /\ Bounded' /\ Remembered' /\ Timely'
        /\ zset' \in [Endpoints -> SUBSET Pass]
        /\ zsetEnd' \in [Endpoints -> Nat]
        /\ passed' \in [Endpoints -> SUBSET Pass]
    BY <1>1, <2>1, <2>2, LetInBounded, TurnAwayBounded, WindowsUntouched
    DEF WindowInv, TypeOK, windowVars
  <2>4. Done(q) \/ SetPc(q, "over")
    BY <1>5 DEF Allow, Reject, FailOpen
  <2>5. TypeOK'
    BY <1>1, <2>2, <2>3, <2>4 DEF TypeOK, lockVars, Done, SetPc, IdleRequest
  <2>6. Stamps'
    BY <1>1, <2>1, <2>2, <2>4 DEF Stamps, Stamped, TypeOK, Done, SetPc, IdleRequest
  <2> QED
    BY <2>3, <2>5, <2>6 DEF WindowInv
<1>6. ASSUME NEW q \in Requests, Incr(q) \/ Expire(q) \/ SetLock(q) \/ RecordFails(q)
      PROVE  WindowInv'
  <2>1. /\ UNCHANGED <<now, windowVars>> /\ faults' \in 0 .. MaxFaults
        /\ req[q].pc \in {"over", "counted", "timed"}
    BY <1>1, <1>6 DEF Incr, Expire, SetLock, RecordFails, Fault, TypeOK
  <2>2. fails' \in [n : Nat, timed : BOOLEAN, end : Nat]
    <3>1. CASE Incr(q)
      BY <1>1, <3>1 DEF Incr, TypeOK
    <3>2. CASE Expire(q)
      BY <1>1, <3>2 DEF Expire, ExpireAt, TypeOK
    <3>3. CASE SetLock(q) \/ RecordFails(q)
      BY <1>1, <3>3 DEF SetLock, RecordFails, TypeOK, lockVars
    <3> QED
      BY <1>6, <3>1, <3>2, <3>3
  <2>3. lock' \in Nat /\ lockedAt' \in Nat
    <3>1. Failures \in Nat /\ BanFor(req[q].count) \in Nat
      BY <1>1, FailuresType, BanType DEF TypeOK
    <3> QED
      BY <1>1, <1>6, <3>1 DEF Incr, Expire, SetLock, RecordFails, TypeOK, lockVars
  <2>4. /\ req' \in [Requests -> [pc : {"idle", "open", "stamped", "over", "counted", "timed"},
                                 ep : Endpoints \cup {None}, at : Nat, count : Nat]]
        /\ Stamps'
    <3>1. CASE Incr(q)
      <4>1. Failures + 1 \in Nat
        BY <1>1, FailuresType
      <4>2. req' = [req EXCEPT ![q].pc = "counted", ![q].count = Failures + 1]
        BY <3>1 DEF Incr
      <4>3. req' \in [Requests -> Slots]
        BY <1>1, <4>1, <4>2, SlotTyped DEF TypeOK, Slots
      <4>4. Stamps'
        BY <1>1, <2>1, <4>2 DEF TypeOK, Stamps, Stamped
      <4> QED
        BY <4>3, <4>4 DEF Slots
    <3>2. CASE Expire(q)
      <4>1. req' = [req EXCEPT ![q].pc = "timed"]
        BY <3>2 DEF Expire, SetPc
      <4>2. Stamps'
        BY <1>1, <2>1, <4>1 DEF TypeOK, Stamps, Stamped
      <4> QED
        BY <1>1, <4>1, <4>2 DEF TypeOK
    <3>3. CASE SetLock(q) \/ RecordFails(q)
      <4>1. req' = [req EXCEPT ![q] = IdleRequest] /\ IdleRequest \in Slots
        BY <3>3 DEF SetLock, RecordFails, Done, IdleRequest, Slots
      <4>2. Stamps'
        BY <1>1, <2>1, <4>1 DEF IdleRequest, TypeOK, Stamps, Stamped
      <4> QED
        BY <1>1, <4>1, <4>2 DEF TypeOK, Slots
    <3> QED
      BY <1>6, <3>1, <3>2, <3>3
  <2>5. TypeOK'
    BY <1>1, <2>1, <2>2, <2>3, <2>4 DEF TypeOK, windowVars
  <2> QED
    BY <1>1, <2>1, <2>4, <2>5, WindowsUntouched DEF WindowInv
<1>7. CASE UNCHANGED vars
  <2>1. TypeOK' /\ Stamps'
    BY <1>1, <1>7 DEF vars, TypeOK, Stamps, Stamped
  <2> QED
    BY <1>1, <1>7, <2>1, WindowsUntouched DEF WindowInv, vars, windowVars
<1> QED
  BY <1>2, <1>3, <1>4, <1>5, <1>6, <1>7 DEF Next, Rest

(* Every variable keeps its type. *)
THEOREM TypeCorrect == Spec => []TypeOK
<1>1. WindowInv => TypeOK
  BY DEF WindowInv
<1> QED
  BY <1>1, WindowInvInit, WindowInvStep, PTL DEF Spec

(* No stretch of time shorter than the window, by the lag of a stamp, sees    *)
(* more than Limit recorded requests let in.                                  *)
THEOREM WindowBoundAlways == Spec => []WindowBound
<1>1. WindowInv => WindowBound
  BY RateLimitAssumption DEF WindowInv, Bounded, WindowBound
<1> QED
  BY <1>1, WindowInvInit, WindowInvStep, PTL DEF Spec

-----------------------------------------------------------------------------
(* The failure counter.  Time and failures move it as follows: a step that is *)
(* neither Incr nor Expire leaves it alone, or lets it expire.                *)
LEMMA FailuresFall ==
  ASSUME TypeOK, UNCHANGED fails, now' \in Nat, now <= now'
  PROVE  Failures' \in Nat /\ Failures' <= Failures /\ (Failures' > 0 => Failures > 0)
<1>1. fails' = fails /\ fails.n \in Nat /\ fails.end \in Nat /\ now \in Nat
  BY DEF TypeOK
<1> QED
  BY <1>1 DEF Failures

LEMMA IncrCounts ==
  ASSUME TypeOK, NEW q \in Requests, Incr(q)
  PROVE  Failures' = Failures + 1
<1>1. now' = now /\ now \in Nat /\ fails.n \in Nat /\ fails.end \in Nat
  BY DEF Incr, TypeOK
<1>2. CASE Failures = 0
  BY <1>1, <1>2 DEF Incr, Failures
<1>3. CASE Failures # 0
  <2>1. fails' = [fails EXCEPT !.n = fails.n + 1] /\ Failures = fails.n
    BY <1>3 DEF Incr, Failures
  <2> QED
    BY <1>1, <1>3, <2>1 DEF Failures, TypeOK
<1> QED
  BY <1>2, <1>3

LEMMA ExpireFalls ==
  ASSUME TypeOK, NEW q \in Requests, Expire(q)
  PROVE  Failures' \in Nat /\ Failures' <= Failures
<1>1. now' = now /\ now \in Nat /\ fails.n \in Nat /\ fails.end \in Nat /\ FailsTtl \in Nat
  BY RateLimitAssumption DEF Expire, TypeOK
<1>2. CASE Failures = 0
  BY <1>1, <1>2 DEF Expire, Failures
<1>3. CASE Failures # 0
  <2>1. fails' = [n |-> fails.n, timed |-> TRUE, end |-> now + FailsTtl] /\ Failures = fails.n
    BY <1>3 DEF Expire, ExpireAt, Failures
  <2> QED
    BY <1>1, <2>1 DEF Failures
<1> QED
  BY <1>2, <1>3

(* What is left of a step that touches no failure.                            *)
Uncounted ==
  /\ UNCHANGED fails /\ now' \in Nat /\ now <= now' /\ faults' \in Nat /\ faults <= faults'
  /\ \A q \in Requests : req[q].pc = "counted" =>
       req'[q].pc = "counted" \/ faults < faults'

LEMMA CounterStep ==
  ASSUME TypeOK, CounterDecays, [Next]_vars
  PROVE  CounterDecays'
<1>1. /\ now \in Nat /\ faults \in Nat
      /\ req \in [Requests -> [pc : {"idle", "open", "stamped", "over", "counted", "timed"},
                               ep : Endpoints \cup {None}, at : Nat, count : Nat]]
  BY DEF TypeOK
<1>2. CASE Uncounted
  <2>1. Failures' > 0 => Failures > 0
    BY <1>2, FailuresFall DEF Uncounted
  <2> QED
    BY <1>1, <1>2, <2>1 DEF Uncounted, CounterDecays
<1>3. CASE Tick
  BY <1>1, <1>2, <1>3 DEF Tick, Uncounted, lockVars
<1>4. ASSUME NEW q \in Requests, NEW e \in Endpoints, CheckLock(q, e) \/ CheckLockFails(q, e)
      PROVE  Uncounted
  BY <1>1, <1>4 DEF CheckLock, CheckLockFails, Fault, Uncounted, lockVars
<1>5. ASSUME NEW q \in Requests, Stamp(q) \/ Allow(q) \/ Reject(q) \/ FailOpen(q)
      PROVE  Uncounted
  BY <1>1, <1>5 DEF Stamp, Allow, Reject, FailOpen, Fault, SetPc, Done, Uncounted, lockVars
<1>6. ASSUME NEW q \in Requests, SetLock(q) \/ RecordFails(q)
      PROVE  Uncounted
  BY <1>1, <1>6 DEF SetLock, RecordFails, Fault, Done, Uncounted, lockVars
<1>7. ASSUME NEW q \in Requests, Incr(q)
      PROVE  req'[q].pc = "counted"
  BY <1>1, <1>7 DEF Incr
<1>8. ASSUME NEW q \in Requests, Expire(q)
      PROVE  CounterDecays'
  <2>1. CASE Failures = 0
    BY <1>1, <1>8, <2>1, ExpireFalls DEF CounterDecays
  <2>2. CASE Failures # 0
    BY <1>8, <2>2 DEF Expire, ExpireAt, CounterDecays
  <2> QED
    BY <2>1, <2>2
<1>9. CASE UNCHANGED vars
  BY <1>1, <1>2, <1>9 DEF vars, Uncounted
<1> QED
  BY <1>2, <1>3, <1>4, <1>5, <1>6, <1>7, <1>8, <1>9 DEF Next, Rest, CounterDecays

(* A counter that no request is about to give its expiry has one, unless a    *)
(* call to Redis failed.                                                      *)
THEOREM CounterDecaysAlways == Spec => []CounterDecays
<1>1. Init => CounterDecays
  BY DEF Init, CounterDecays, Failures
<1> QED
  BY <1>1, TypeCorrect, CounterStep, PTL DEF Spec

-----------------------------------------------------------------------------
(* How far the count can rise under a lock that shows: each request past the  *)
(* lockout check will count one failure more, and only an unanswered check    *)
(* adds a request to them.                                                    *)
SentenceInv ==
  Firm => Failures + Cardinality(InFlight) <= lockedAt + Cardinality(Requests) - 1 + faults

LEMMA InFlightType ==
  IsFiniteSet(InFlight) /\ Cardinality(InFlight) \in Nat /\ Cardinality(Requests) \in Nat
BY RateLimitAssumption, FS_Subset, FS_CardinalityType DEF InFlight

\* Under a lock that stays, count and requests in flight rise by a fault at most.
LEMMA SentenceKept ==
  ASSUME TypeOK, TypeOK', SentenceInv, Firm' => Firm, lockedAt' = lockedAt,
         Cardinality(InFlight') \in Nat,
         Failures' + Cardinality(InFlight') <=
           Failures + Cardinality(InFlight) + (faults' - faults)
  PROVE  SentenceInv'
<1>1. /\ Failures \in Nat /\ Failures' \in Nat /\ faults \in Nat /\ faults' \in Nat
      /\ lockedAt \in Nat /\ Cardinality(Requests) \in Nat /\ Cardinality(InFlight) \in Nat
  BY InFlightType DEF TypeOK, Failures
<1> QED
  BY <1>1 DEF SentenceInv

LEMMA SentenceStep ==
  ASSUME TypeOK, TypeOK', SentenceInv, [Next]_vars
  PROVE  SentenceInv'
<1> DEFINE n == Cardinality(InFlight)
<1>1. /\ now \in Nat /\ lock \in Nat /\ faults \in Nat /\ faults' \in Nat /\ lockedAt \in Nat
      /\ req \in [Requests -> [pc : {"idle", "open", "stamped", "over", "counted", "timed"},
                               ep : Endpoints \cup {None}, at : Nat, count : Nat]]
      /\ n \in Nat /\ Cardinality(Requests) \in Nat /\ Failures \in Nat
  BY InFlightType DEF TypeOK, Failures
<1>2. ASSUME NEW q \in Requests, InFlight' \subseteq InFlight \cup {q}
      PROVE  Cardinality(InFlight') \in Nat /\ Cardinality(InFlight') <= n + 1
  <2>1. IsFiniteSet(InFlight \cup {q}) /\ Cardinality(InFlight \cup {q}) \in {n, n + 1}
    BY InFlightType, FS_AddElement
  <2> QED
    BY <1>1, <1>2, <2>1, FS_Subset, FS_CardinalityType
<1>3. ASSUME InFlight' \subseteq InFlight
      PROVE  Cardinality(InFlight') \in Nat /\ Cardinality(InFlight') <= n
  BY <1>3, InFlightType, FS_Subset, FS_CardinalityType
<1>4. ASSUME NEW q \in InFlight, InFlight' \subseteq InFlight \ {q}
      PROVE  Cardinality(InFlight') \in Nat /\ Cardinality(InFlight') + 1 <= n
  <2>1. IsFiniteSet(InFlight \ {q}) /\ Cardinality(InFlight \ {q}) = n - 1
    BY <1>4, InFlightType, FS_RemoveElement
  <2> QED
    BY <1>1, <1>4, <2>1, FS_Subset, FS_CardinalityType
<1> HIDE DEF n
<1>5. CASE Tick \/ UNCHANGED vars
  <2>1. /\ InFlight' = InFlight /\ now' \in Nat /\ now <= now'
        /\ UNCHANGED <<lock, lockedAt, fails, faults>>
    BY <1>1, <1>5 DEF Tick, vars, InFlight, lockVars
  <2>2. Failures' \in Nat /\ Failures' <= Failures
    BY <2>1, FailuresFall
  <2>3. Firm' => Firm
    <3>1. /\ Blur \in Nat /\ now \in Nat /\ now' \in Nat /\ lock \in Nat
          /\ now <= now' /\ lock' = lock
      BY <1>1, <2>1, RateLimitAssumption
    <3>2. \A a, b, c, d \in Nat : a <= b /\ d > b + c => d > a + c
      OBVIOUS
    <3> QED
      BY <3>1, <3>2 DEF Firm
  <2> QED
    BY <1>1, <1>3, <2>1, <2>2, <2>3, SentenceKept DEF n
<1>6. ASSUME NEW q \in Requests, NEW e \in Endpoints, CheckLock(q, e)
      PROVE  SentenceInv'
  BY <1>6 DEF CheckLock, NotLockedOut, Firm, lockVars, SentenceInv
<1>7. ASSUME NEW q \in Requests, NEW e \in Endpoints, CheckLockFails(q, e)
      PROVE  SentenceInv'
  <2>1. InFlight' \subseteq InFlight \cup {q}
    BY <1>1, <1>7 DEF CheckLockFails, InFlight
  <2>2. /\ UNCHANGED <<now, lock, lockedAt, fails>> /\ faults' = faults + 1
    BY <1>7 DEF CheckLockFails, Fault, lockVars
  <2>3. Failures' = Failures /\ (Firm' <=> Firm)
    BY <2>2 DEF Failures, Firm
  <2> QED
    BY <1>1, <1>2, <2>1, <2>2, <2>3, SentenceKept DEF n
<1>8. ASSUME NEW q \in Requests,
             Stamp(q) \/ Allow(q) \/ Reject(q) \/ FailOpen(q) \/ RecordFails(q)
      PROVE  SentenceInv'
  <2>1. /\ InFlight' \subseteq InFlight /\ UNCHANGED <<now, lock, lockedAt, fails>>
        /\ faults' \in {faults, faults + 1}
    BY <1>1, <1>8 DEF Stamp, Allow, Reject, FailOpen, RecordFails, Fault, SetPc, Done,
       IdleRequest, InFlight, lockVars
  <2>2. Failures' = Failures /\ (Firm' <=> Firm)
    BY <2>1 DEF Failures, Firm
  <2> QED
    BY <1>1, <1>3, <2>1, <2>2, SentenceKept DEF n
<1>9. ASSUME NEW q \in Requests, Incr(q)
      PROVE  SentenceInv'
  <2>1. q \in InFlight /\ InFlight' \subseteq InFlight \ {q}
    BY <1>1, <1>9 DEF Incr, InFlight
  <2>2. Failures' = Failures + 1 /\ UNCHANGED <<now, lock, lockedAt, faults>>
    BY <1>9, IncrCounts DEF Incr
  <2>3. Firm' <=> Firm
    BY <2>2 DEF Firm
  <2> QED
    BY <1>1, <1>4, <2>1, <2>2, <2>3, SentenceKept DEF n
<1>10. ASSUME NEW q \in Requests, Expire(q)
       PROVE  SentenceInv'
  <2>1. InFlight' \subseteq InFlight /\ UNCHANGED <<now, lock, lockedAt, faults>>
    BY <1>1, <1>10 DEF Expire, SetPc, InFlight
  <2>2. Failures' \in Nat /\ Failures' <= Failures /\ (Firm' <=> Firm)
    BY <1>10, <2>1, ExpireFalls DEF Firm
  <2> QED
    BY <1>1, <1>3, <2>1, <2>2, SentenceKept DEF n
<1>11. ASSUME NEW q \in Requests, SetLock(q)
       PROVE  SentenceInv'
  <2>1. /\ InFlight' \subseteq InFlight /\ UNCHANGED <<now, fails, faults>>
        /\ Failures' = Failures /\ q \notin InFlight' /\ q \notin InFlight
    BY <1>1, <1>11 DEF SetLock, Done, IdleRequest, InFlight, Failures
  <2>2. CASE UNCHANGED <<lock, lockedAt>>
    <3>1. Firm' <=> Firm
      BY <2>1, <2>2 DEF Firm
    <3> QED
      BY <1>1, <1>3, <2>1, <2>2, <3>1, SentenceKept DEF n
  \* A new lock: q is not in flight any more, so there is one to spare.
  <2>3. CASE lockedAt' = Failures
    <3>1. InFlight' \subseteq Requests \ {q}
      BY <2>1 DEF InFlight
    <3>2. /\ IsFiniteSet(Requests \ {q})
          /\ Cardinality(Requests \ {q}) = Cardinality(Requests) - 1
      BY RateLimitAssumption, FS_RemoveElement
    <3>3. Cardinality(InFlight') \in Nat
          /\ Cardinality(InFlight') <= Cardinality(Requests) - 1
      BY <3>1, <3>2, FS_Subset, FS_CardinalityType
    <3> QED
      BY <1>1, <2>1, <2>3, <3>3 DEF SentenceInv
  <2> QED
    BY <1>11, <2>2, <2>3 DEF SetLock
<1> QED
  BY <1>5, <1>6, <1>7, <1>8, <1>9, <1>10, <1>11 DEF Next, Rest

(* A locked client cannot lengthen its sentence by asking again: the count    *)
(* rises above the one it was locked for by the other requests that were past *)
(* the lockout check, and by unanswered checks, only.                         *)
THEOREM BanDoesNotEscalateEver == Spec => []BanDoesNotEscalate
<1>1. Init => SentenceInv
  BY RateLimitAssumption DEF Init, SentenceInv, Firm
<1>2. TypeOK /\ SentenceInv => BanDoesNotEscalate
  <2> SUFFICES ASSUME TypeOK, SentenceInv PROVE BanDoesNotEscalate
    OBVIOUS
  <2>1. /\ Failures \in Nat /\ faults \in Nat /\ lockedAt \in Nat
        /\ Cardinality(InFlight) \in Nat /\ Cardinality(Requests) \in Nat
    BY InFlightType DEF TypeOK, Failures
  <2> QED
    BY <2>1 DEF SentenceInv, BanDoesNotEscalate
<1>3. TypeOK /\ TypeOK' /\ SentenceInv /\ [Next]_vars => SentenceInv'
  BY SentenceStep
<1> QED
  BY <1>1, <1>2, <1>3, TypeCorrect, PTL DEF Spec
=============================================================================
