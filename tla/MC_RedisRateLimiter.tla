------------------------- MODULE MC_RedisRateLimiter -------------------------
(* A rate limiter with two workers, one project key and three quotas:      *)
(* a limited project quota, an unlimited organization quota, and a         *)
(* zero-sized reject-all quota without id.                                 *)
EXTENDS RedisRateLimiter

CONSTANTS c1, c2

MCCallers == {c1, c2}

QLimited == [id |-> "a", limit |-> 2, window |-> 2, scope |-> "project"]
QUnlimited == [id |-> "b", limit |-> None, window |-> 3, scope |-> "organization"]
QZero == [id |-> None, limit |-> 0, window |-> None, scope |-> "organization"]

MCQuotaSets == {{QLimited}, {QLimited, QUnlimited}, {QZero, QLimited}}

MCScopeIds == [project |-> 42, key |-> 7]
=============================================================================
