-------------------------- MODULE MC_ServiceStartup --------------------------
(* A processing relay with Redis and TLS; the bounds let metrics go round  *)
(* the aggregator and the project cache twice.                             *)
EXTENDS ServiceStartup
=============================================================================
