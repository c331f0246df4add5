--------------------------- MODULE RedisRateLimiter ---------------------------
(***************************************************************************)
(* RedisRateLimiter::is_rate_limited (src/relay-quotas/src/redis.rs) run   *)
(* by several pipeline workers against one shared Redis.                   *)
(*                                                                         *)
(* A call has two steps.  Start reads the caller's clock (timestamp),      *)
(* turns zero-limit quotas into local rejections and the trackable quotas  *)
(* into (key, refund key, limit, expiry + GRACE, quantity, over_accept)    *)
(* tuples, and may return early.  Invoke runs is_rate_limited.lua          *)
(* atomically in Redis and maps its rejections to rate limits.  Between    *)
(* the two, other callers' scripts run and the Redis clock advances; the   *)
(* caller's clock may lag the Redis clock by up to MaxSkew seconds.        *)
(*                                                                         *)
(* The Lua script is not in this repository: it is modelled from the spec  *)
(* (section 4.1) and the doc comment of is_rate_limited: all counters are  *)
(* incremented when no quota rejects, none otherwise; a counter key gets   *)
(* its EXPIREAT only when created.  Refund keys (written by other flows)   *)
(* are assumed to expire with their counter.                               *)
(***************************************************************************)
EXTENDS Integers, FiniteSets

CONSTANTS
    Callers,      \* concurrent workers calling is_rate_limited
    QuotaSets,    \* the quota lists a call may be made with (sets of Quota)
    Quantities,   \* the quantities a call may pass
    OrgId,        \* scoping.organization_id
    ScopeIds,     \* [project |-> project id, key |-> key id] of the scoping
    GRACE,        \* seconds added to every key's expiry
    REJECT_ALL_SECS, \* retry-after of a zero-sized quota
    MaxLimit,     \* RedisRateLimiter.max_limit: NoMax or a number of seconds
    MaxSkew,      \* how far a caller's clock may lag the Redis clock
    Epoch,        \* first second of the model (>= every shift)
    MaxTime,      \* last second of the model
    MaxCalls,     \* bound on the number of calls
    MaxRefunds,   \* bound on refunds written by other flows
    RedisCanFail, \* whether pool.client or invoke may return a Redis error
    None, NoMax   \* model values

Quotas == UNION QuotaSets

ASSUME \A q \in Quotas : q.scope \in {"organization", "project", "key"}
ASSUME Epoch >= MaxSkew /\ MaxTime >= Epoch /\ RedisCanFail \in BOOLEAN

VARIABLES
    now,        \* the Redis clock (unix seconds)
    counters,   \* live counter keys -> value
    expireAt,   \* live counter keys -> EXPIREAT set when the key was created
    refunds,    \* live counter keys -> value of their "r:" refund key
    callers,    \* per caller: pc, timestamp, call arguments, result
    calls,      \* number of calls started (bounded)
    refunded,   \* number of refunds written (bounded)
    accepted,   \* history: quantity ever accepted per key, across recreations
    returned    \* history: quantity ever refunded per key

vars == <<now, counters, expireAt, refunds, callers, calls, refunded,
          accepted, returned>>

-----------------------------------------------------------------------------
(* RedisQuota (redis.rs:50-115).                                           *)

\* RedisQuota::new: a quota is trackable iff it has an id and a window.
Trackable(q) == q.id # None /\ q.window # None

\* RedisQuota::limit: -1 for unlimited.
RedisLimit(q) == IF q.limit = None THEN -1 ELSE q.limit

Shift(q) == OrgId % q.window

Slot(q, ts) == (ts - Shift(q)) \div q.window

\* RedisQuota::expiry: start of the next slot.
Expiry(q, ts) == (Slot(q, ts) + 1) * q.window + Shift(q)

\* RedisQuota::key: "quota:{id}{{org}}{subscope}:{slot}", where the subscope
\* is the project or key id, and nothing for organization quotas.  The
\* key is kept as the tuple of its fields.
Key(q, ts) ==
    <<q.id, OrgId, IF q.scope = "organization" THEN None ELSE ScopeIds[q.scope],
      Slot(q, ts)>>

\* RedisRateLimiter::retry_after: bounded by max_limit.
RetryAfter(secs) ==
    IF MaxLimit = NoMax \/ secs <= MaxLimit THEN secs ELSE MaxLimit

\* RateLimits::is_limited: some retry_after lies in the future.
IsLimited(retryAfters) == \E s \in retryAfters : s > 0

-----------------------------------------------------------------------------
(* is_rate_limited.lua (spec 4.1, spec_modelled).                          *)

Get(k) == IF k \in DOMAIN counters THEN counters[k] ELSE 0
GetRefund(k) == IF k \in DOMAIN refunds THEN refunds[k] ELSE 0

\* Consumption of a key: counter minus refunds.
Consumed(k) == Get(k) - GetRefund(k)

\* The script's decision for one tuple.
Rejects(t) ==
    /\ t.limit >= 0
    /\ Consumed(t.key) + t.qty > t.limit
    /\ ~(t.over /\ Consumed(t.key) <= t.limit)

\* The counter keys one run of the script increments: all of them when no
\* tuple rejects, none otherwise.
CountedKeys(ts) ==
    IF \E t \in ts : Rejects(t) THEN {} ELSE {t.key : t \in ts}

-----------------------------------------------------------------------------

\* The EXPIREAT argument of a tuple (redis.rs:208).
\* Mutant: the grace period left out.
TTLArgWithoutGrace(q, ts) == Expiry(q, ts)
TTLArg(q, ts) == Expiry(q, ts) + GRACE

\* The early return before the script (redis.rs:223-227).
SkipsScript(tracked, limits) ==
    tracked = {} \/ IsLimited({l.retry : l \in limits})

Idle == [pc |-> "idle", ts |-> 0, quotas |-> {}, tracked |-> {}, qty |-> 0,
         over |-> FALSE, limits |-> {}, err |-> FALSE]

\* is_rate_limited up to the script call (redis.rs:185-227): read the
\* clock, build the tuples in quota order, and return early when nothing is trackable or a
\* zero-sized quota already limits the call.
Start(c, qs, qty, over) ==
    /\ callers[c].pc = "idle"
    /\ calls < MaxCalls
    /\ calls' = calls + 1
    /\ \E lag \in 0..MaxSkew :
        LET ts == now - lag
            zero == {q \in qs : q.limit = 0}
            tracked == {[key |-> Key(q, ts), limit |-> RedisLimit(q),
                         expiry |-> TTLArg(q, ts), qty |-> qty,
                         over |-> over, quota |-> q, retry |-> Expiry(q, ts) - ts]
                        : q \in {p \in qs : p.limit # 0 /\ Trackable(p)}}
            limits == {[quota |-> q, retry |-> RetryAfter(REJECT_ALL_SECS)] : q \in zero}
        IN callers' = [callers EXCEPT ![c] =
                [pc |-> IF SkipsScript(tracked, limits) THEN "done" ELSE "invoking",
                 ts |-> ts, quotas |-> qs, tracked |-> tracked, qty |-> qty,
                 over |-> over, limits |-> limits, err |-> FALSE]]
    /\ UNCHANGED <<now, counters, expireAt, refunds, refunded, accepted, returned>>

\* One atomic run of is_rate_limited.lua for caller c: the counted keys
\* grow by the quantity and a new key gets its EXPIREAT.
RunScript(c) ==
    LET ts == callers[c].tracked
        keys == CountedKeys(ts)
        qty == callers[c].qty
        ExpireAt(k) == IF k \in DOMAIN counters THEN expireAt[k]
                       ELSE (CHOOSE t \in ts : t.key = k).expiry
        \* an EXPIREAT already in the past deletes the new key at once
        dom == {k \in DOMAIN counters \cup keys : ExpireAt(k) > now}
    IN /\ counters' = [k \in dom |-> Get(k) + (IF k \in keys THEN qty ELSE 0)]
       /\ expireAt' = [k \in dom |-> ExpireAt(k)]
       /\ refunds' = [k \in dom |-> GetRefund(k)]
       /\ accepted' = [k \in DOMAIN accepted \cup keys |->
                         (IF k \in DOMAIN accepted THEN accepted[k] ELSE 0)
                         + (IF k \in keys THEN qty ELSE 0)]
       /\ returned' = [k \in DOMAIN returned \cup keys |->
                         IF k \in DOMAIN returned THEN returned[k] ELSE 0]

\* The script runs (redis.rs:229-233) and its rejections become rate
\* limits with retry_after = expiry - timestamp (redis.rs:235-240).
Invoke(c) ==
    /\ callers[c].pc = "invoking"
    /\ RunScript(c)
    /\ callers' = [callers EXCEPT ![c].pc = "done",
          ![c].limits = @ \cup {[quota |-> t.quota, retry |-> RetryAfter(t.retry)]
                                : t \in {u \in callers[c].tracked : Rejects(u)}}]
    /\ UNCHANGED <<now, calls, refunded>>

\* pool.client() or invoke fails (redis.rs:229-233) and the call returns
\* Err(RateLimitingError::Redis) with no rate limits.  The failure may
\* come before the script ran (no client, connection refused) or after
\* it ran in Redis (the reply lost), in which case the counters have
\* been incremented although the caller only sees the error.
InvokeFails(c) ==
    /\ RedisCanFail
    /\ callers[c].pc = "invoking"
    /\ \/ UNCHANGED <<counters, expireAt, refunds, accepted, returned>>
       \/ RunScript(c)
    /\ callers' = [callers EXCEPT ![c].pc = "done", ![c].err = TRUE]
    /\ UNCHANGED <<now, calls, refunded>>

\* The caller consumes the result and may call again.
Finish(c) ==
    /\ callers[c].pc = "done"
    /\ callers' = [callers EXCEPT ![c] = Idle]
    /\ UNCHANGED <<now, counters, expireAt, refunds, calls, refunded, accepted,
                   returned>>

\* Another flow refunds one unit of a live counter (spec P7).
Refund(k) ==
    /\ refunded < MaxRefunds
    /\ refunded' = refunded + 1
    /\ refunds' = [refunds EXCEPT ![k] = @ + 1]
    /\ returned' = [returned EXCEPT ![k] = @ + 1]
    /\ UNCHANGED <<now, counters, expireAt, callers, calls, accepted>>

\* Mutant: keys never expire.
TickKeepingKeys ==
    /\ now < MaxTime
    /\ now' = now + 1
    /\ UNCHANGED <<counters, expireAt, refunds, callers, calls, refunded, accepted, returned>>

\* The Redis clock advances; keys whose EXPIREAT has passed disappear.  A
\* caller's timestamp lags the Redis clock at its script run by at most
\* MaxSkew seconds (clock skew plus the latency of pool.client and invoke).
Tick ==
    /\ now < MaxTime
    /\ \A c \in Callers : callers[c].pc = "invoking" => now + 1 - callers[c].ts <= MaxSkew
    /\ now' = now + 1
    /\ LET live == {k \in DOMAIN counters : expireAt[k] > now'} IN
       /\ counters' = [k \in live |-> counters[k]]
       /\ expireAt' = [k \in live |-> expireAt[k]]
       /\ refunds' = [k \in live |-> refunds[k]]
    /\ UNCHANGED <<callers, calls, refunded, accepted, returned>>

Init ==
    /\ now = Epoch
    /\ counters = <<>> /\ expireAt = <<>> /\ refunds = <<>>
    /\ callers = [c \in Callers |-> Idle]
    /\ calls = 0 /\ refunded = 0
    /\ accepted = <<>> /\ returned = <<>>

Next ==
    \/ \E c \in Callers, qs \in QuotaSets, qty \in Quantities, over \in BOOLEAN :
          Start(c, qs, qty, over)
    \/ \E c \in Callers : Invoke(c)
    \/ \E c \in Callers : InvokeFails(c)
    \/ \E c \in Callers : Finish(c)
    \/ \E k \in DOMAIN counters : Refund(k)
    \/ Tick

Spec == Init /\ [][Next]_vars

-----------------------------------------------------------------------------
(* Properties.                                                             *)

Keys == {<<q.id, OrgId, IF q.scope = "organization" THEN None ELSE ScopeIds[q.scope], s>>
         : q \in {p \in Quotas : Trackable(p)}, s \in 0..MaxTime}

\* The limit of the quota a key belongs to (quota ids are unique).
KeyLimit(k) == RedisLimit(CHOOSE q \in Quotas : Trackable(q) /\ q.id = k[1])

MaxQuantity == CHOOSE m \in Quantities : \A n \in Quantities : n <= m

TypeOK ==
    /\ now \in Epoch..MaxTime
    /\ DOMAIN counters \subseteq Keys /\ DOMAIN expireAt = DOMAIN counters
    /\ DOMAIN refunds = DOMAIN counters
    /\ \A k \in DOMAIN counters : counters[k] \in Nat /\ expireAt[k] > now
    /\ \A c \in Callers : callers[c].pc \in {"idle", "invoking", "done"}
    /\ calls \in 0..MaxCalls /\ refunded \in 0..MaxRefunds
    /\ DOMAIN accepted = DOMAIN returned

\* P3 and the comment at redis.rs:194-196: a call whose quotas include a
\* zero-sized quota never runs the script (and so never counts anything).
ZeroQuotaNoScript ==
    \A c \in Callers :
        callers[c].pc = "invoking" => \A q \in callers[c].quotas : q.limit # 0

\* Consumption of one quota window stays within its limit plus what a
\* single over-accepted call adds, summed over every incarnation of its
\* counter key: a key must not expire (EXPIREAT expiry + GRACE) while
\* callers with a lagging timestamp still count into the same slot, or the
\* window's count starts again from zero.
WindowConsumptionBounded ==
    \A k \in DOMAIN accepted :
        KeyLimit(k) >= 0 => accepted[k] - returned[k] <= KeyLimit(k) + MaxQuantity

=============================================================================
