------------------------------ MODULE QuotaKey ------------------------------
(***************************************************************************)
(* The Redis keys of one RedisRateLimiter::is_rate_limited call            *)
(* (src/relay-quotas/src/redis.rs), character by character.                *)
(*                                                                         *)
(* For every trackable quota the loop pushes two keys into the script      *)
(* invocation: RedisQuota::key, "quota:{id}{{{org}}}{subscope}:{slot}",    *)
(* and get_refunded_quota_key, "r:" before it.  RedisRateLimiter models a  *)
(* key as the tuple it is formatted from; this module checks that the      *)
(* formatting keeps the tuple apart (it can be parsed back) and that every *)
(* key of one invocation carries the organization as its Redis Cluster     *)
(* hash tag, as the script needs all its keys in one slot.                 *)
(*                                                                         *)
(* A key is a sequence of one-character strings.  Quota ids are sequences  *)
(* over a small alphabet; numbers are formatted in decimal.                *)
(***************************************************************************)
EXTENDS Naturals, Sequences, SequencesExt

CONSTANTS
    IdChars,     \* the characters quota ids are made of
    MaxIdLen,    \* bound on the length of a quota id
    Orgs,        \* organization ids
    ProjectIds,  \* project ids
    KeyIds,      \* key ids, None when the scoping has no key
    Timestamps,  \* UnixTimestamp::now() as seconds
    Windows,     \* quota windows, None when the quota has none
    MaxQuotas,   \* bound on the quotas of one call
    None

Ids == BoundedSeq(IdChars, MaxIdLen) \cup {None}
Scopes == {"organization", "project", "key"}
Quotas == [id : Ids, scope : Scopes, window : Windows]

VARIABLES
    org,      \* scoping.organization_id
    project,  \* scoping.project_id
    keyId,    \* scoping.key_id
    now,      \* the timestamp taken at the start of the call
    pending,  \* the quotas the loop has still to visit
    keys,     \* the keys pushed into the invocation, in order
    tracked   \* per tracked quota: the parts its key was formatted from

vars == <<org, project, keyId, now, pending, keys, tracked>>

-----------------------------------------------------------------------------
(* Formatting.                                                             *)

DigitChar == <<"0", "1", "2", "3", "4", "5", "6", "7", "8", "9">>

\* Display for u64: decimal, most significant digit first, no leading zero.
RECURSIVE Digits(_)
Digits(n) ==
    IF n < 10 THEN <<DigitChar[n + 1]>>
    ELSE Digits(n \div 10) \o <<DigitChar[(n % 10) + 1]>>

\* OptionalDisplay: Some(v) displays v, None displays nothing.
OptionalDisplay(v) == IF v = None THEN <<>> ELSE Digits(v)

\* ItemScoping::scope_id, and the match in RedisQuota::key that leaves the
\* subscope out for organization quotas.
Subscope(q) ==
    CASE q.scope = "organization" -> None
      [] q.scope = "project"      -> project
      [] q.scope = "key"          -> keyId

\* RedisQuota::shift and RedisQuota::slot.
Slot(q) == (now - (org % q.window)) \div q.window

\* The parts a key is formatted from.
Parts(q) == [id |-> q.id, org |-> org, sub |-> Subscope(q), slot |-> Slot(q)]

\* Mutant: the escaped braces around the organization left out.
KeyWithoutHashTag(p) ==
    <<"q", "u", "o", "t", "a", ":">> \o p.id \o Digits(p.org)
        \o OptionalDisplay(p.sub) \o <<":">> \o Digits(p.slot)

\* Mutant: no separator between the subscope and the slot.
KeyWithoutSeparator(p) ==
    <<"q", "u", "o", "t", "a", ":">> \o p.id \o <<"{">> \o Digits(p.org)
        \o <<"}">> \o OptionalDisplay(p.sub) \o Digits(p.slot)

\* RedisQuota::key: format!("quota:{id}{{{org}}}{subscope}:{slot}").
Key(p) ==
    <<"q", "u", "o", "t", "a", ":">> \o p.id \o <<"{">> \o Digits(p.org)
        \o <<"}">> \o OptionalDisplay(p.sub) \o <<":">> \o Digits(p.slot)

\* get_refunded_quota_key: format!("r:{}", counter_key).
RefundKey(k) == <<"r", ":">> \o k

-----------------------------------------------------------------------------
(* The loop of is_rate_limited over the quotas that reach RedisQuota::new  *)
(* (quotas that do not match the scoping, and zero-limit quotas, are       *)
(* handled before it and are the subject of RedisRateLimiter).             *)

Init ==
    /\ org \in Orgs /\ project \in ProjectIds /\ keyId \in KeyIds
    /\ now \in Timestamps
    /\ pending \in BoundedSeq(Quotas, MaxQuotas)
    /\ keys = <<>>
    /\ tracked = <<>>

\* Mutant: the refund key is not pushed.
TrackWithoutRefundKey ==
    /\ pending # <<>>
    /\ LET q == Head(pending) IN
       IF q.id # None /\ q.window # None
       THEN /\ keys' = Append(keys, Key(Parts(q)))
            /\ tracked' = Append(tracked, Parts(q))
       ELSE UNCHANGED <<keys, tracked>>
    /\ pending' = Tail(pending)
    /\ UNCHANGED <<org, project, keyId, now>>

\* RedisQuota::new returns None without an id or a window: the quota is
\* skipped with a warning.  Otherwise its key and refund key are pushed.
Track ==
    /\ pending # <<>>
    /\ LET q == Head(pending) IN
       IF q.id # None /\ q.window # None
       THEN /\ keys' = keys \o <<Key(Parts(q)), RefundKey(Key(Parts(q)))>>
            /\ tracked' = Append(tracked, Parts(q))
       ELSE UNCHANGED <<keys, tracked>>
    /\ pending' = Tail(pending)
    /\ UNCHANGED <<org, project, keyId, now>>

Next == Track

Spec == Init /\ [][Next]_vars

-----------------------------------------------------------------------------
(* Reference definitions.                                                  *)

\* The characters of s from position m (at least 1) to n, as far as s goes.
Slice(s, m, n) == SubSeq(s, m, IF n > Len(s) THEN Len(s) ELSE n)

\* A key read back from the right: the slot follows the last ":", the
\* subscope the last "}", the organization the last "{" before that, and
\* the id is what lies between "quota:" and that "{".
Parse(k) ==
    LET c    == SelectLastInSeq(k, LAMBDA x : x = ":")
        rest == Slice(k, 1, c - 1)
        b    == SelectLastInSeq(rest, LAMBDA x : x = "}")
        o    == SelectLastInSeq(Slice(rest, 1, b - 1), LAMBDA x : x = "{")
    IN [prefix |-> Slice(rest, 1, 6), id |-> Slice(rest, 7, o - 1),
        org |-> Slice(rest, o + 1, b - 1), sub |-> Slice(rest, b + 1, Len(rest)),
        slot |-> Slice(k, c + 1, Len(k))]

\* The parts as the parser sees them.
Printed(p) ==
    [prefix |-> <<"q", "u", "o", "t", "a", ":">>, id |-> p.id, org |-> Digits(p.org),
     sub |-> OptionalDisplay(p.sub), slot |-> Digits(p.slot)]

\* The hash tag Redis Cluster hashes: what lies between the first "{" and
\* the first "}" after it, when that is not empty; otherwise the whole key.
HashTag(k) ==
    LET o == SelectInSeq(k, LAMBDA x : x = "{")
        c == IF o = 0 THEN 0 ELSE SelectInSubSeq(k, o + 1, Len(k), LAMBDA x : x = "}")
    IN IF c = 0 \/ c = o + 1 THEN k ELSE SubSeq(k, o + 1, c - 1)

-----------------------------------------------------------------------------
(* Properties.                                                             *)

TypeOK ==
    /\ org \in Orgs /\ now \in Timestamps
    /\ pending \in Seq(Quotas) /\ Len(pending) <= MaxQuotas
    /\ Len(keys) = 2 * Len(tracked)

\* The key of every tracked quota can be read back into the id, the
\* organization, the subscope and the slot it was formatted from, and its
\* refund key is "r:" before it: quotas that differ in id, organization,
\* formatted subscope or slot never share a counter (RedisQuota::key, get_refunded_quota_key).
KeysRoundTrip ==
    \A i \in 1..Len(tracked) :
        /\ Parse(keys[2 * i - 1]) = Printed(tracked[i])
        /\ keys[2 * i] = RefundKey(keys[2 * i - 1])

\* Every key pushed into one script invocation hashes on the organization
\* id, so Redis Cluster finds them all in one slot (spec 4.2: "all keys
\* passed to a single script invocation must share the same {org} tag").
SameHashTag ==
    \A i \in 1..Len(keys) : HashTag(keys[i]) = Digits(org)

=============================================================================
