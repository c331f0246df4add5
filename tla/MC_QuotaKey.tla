----------------------------- MODULE MC_QuotaKey -----------------------------
(* Model values for QuotaKey.  The organization, project and timestamp of  *)
(* the scoped-key test of redis.rs (test_get_redis_key_scoped) are among   *)
(* the inputs.                                                             *)
EXTENDS QuotaKey

\* Quota ids over letters, digits and the key's own separator.
MCIdChars == {"a", "7", ":"}

\* Quota ids that also contain the hash-tag braces.
MCBraceIdChars == {"a", "{", "}"}

=============================================================================
