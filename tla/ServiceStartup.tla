---------------------------- MODULE ServiceStartup ----------------------------
(***************************************************************************)
(* Relay startup (src/relay-server/src/service.rs) and the metrics path     *)
(* that reaches Registry::aggregator().                                    *)
(*                                                                         *)
(* service::start runs ServiceState::start, which starts the services one  *)
(* after the other on their runtimes, publishes their addresses in the     *)
(* REGISTRY OnceBox, and only then binds the HTTP server.  Each started    *)
(* service runs concurrently with the rest of startup.  Project methods    *)
(* (project.rs) reach the aggregator through Registry::aggregator(), which *)
(* unwraps the OnceBox and so panics if it is called before REGISTRY is    *)
(* set.  The model follows metrics from the HTTP endpoint through the      *)
(* project cache to the aggregator and back (flush_buckets), and records   *)
(* such a panic.                                                           *)
(*                                                                         *)
(* The project's state in the project cache is abstracted to what          *)
(* flush_buckets and metrics_allowed branch on: none usable, disabled, or  *)
(* valid; it is chosen per call.                                           *)
(***************************************************************************)
EXTENDS Naturals, Sequences

CONSTANTS
    ProcessingEnabled, \* config.processing_enabled()
    RedisConfigured,   \* config.redis() is Some
    TlsConfigured,     \* any tls_* option is set
    SslFeature,        \* relay built with the "ssl" feature
    MaxRequests,       \* bound on metric submissions over HTTP
    MaxFlushes         \* bound on aggregator flushes

ASSUME {ProcessingEnabled, RedisConfigured, TlsConfigured, SslFeature} \subseteq BOOLEAN

VARIABLES
    status,     \* "starting", "serving" or "failed" (start returned Err)
    phase,      \* index of the next startup step
    started,    \* the services running so far
    registry,   \* REGISTRY has been set
    pcInbox,    \* the project cache's mailbox
    aggBuckets, \* buckets held by the aggregator
    requests,   \* metric submissions so far
    flushes,    \* aggregator flushes so far
    panicked    \* Registry::aggregator() was called with REGISTRY unset

vars == <<status, phase, started, registry, pcInbox, aggBuckets, requests,
          flushes, panicked>>

-----------------------------------------------------------------------------
(* The startup sequence of service::start and ServiceState::start.         *)

\* The order in which ServiceState::start and service::start start things.
StartupOrder ==
    <<"upstream", "outcomes", "redis", "processor", "store", "envelope_manager",
      "test_store", "project_cache", "health_check", "relay_cache", "aggregator",
      "registry", "listen", "listen_ssl", "http">>

\* Steps the configuration skips: the Redis pool and the store service
\* exist only with processing enabled.
Enabled(step) ==
    CASE step = "redis" -> RedisConfigured /\ ProcessingEnabled
      [] step = "store" -> ProcessingEnabled
      [] OTHER          -> TRUE

\* The outcomes a step may have: OutcomeProducerService::create,
\* RedisPool::new, EnvelopeProcessorService::new, StoreService::create and
\* listen may return an error with ?; listen_ssl may fail when a TLS option
\* is set (TlsInitFailed, BindFailed) and always fails without the ssl
\* feature (TlsNotSupported).
Outcomes(step) ==
    CASE ~Enabled(step) -> {TRUE}
      [] step \in {"outcomes", "redis", "processor", "store", "listen"} -> BOOLEAN
      [] step = "listen_ssl" /\ TlsConfigured -> IF SslFeature THEN BOOLEAN ELSE {FALSE}
      [] OTHER -> {TRUE}

\* Registry::aggregator(): REGISTRY.get().unwrap().
RegistryAggregator == IF registry THEN "ok" ELSE "panic"

\* The last step: service::start returns the running server after it.
\* Mutant: off by one.
LastStepOffByOne(i) == i = Len(StartupOrder) - 1
LastStep(i) == i = Len(StartupOrder)

\* One step of startup.  A failing step makes start return Err; the
\* runtimes are dropped with ServiceState and nothing is served.
StartupStep ==
    /\ status = "starting"
    /\ LET step == StartupOrder[phase] IN
       \E ok \in Outcomes(step) :
          IF ok
          THEN /\ started' = IF Enabled(step) THEN started \cup {step} ELSE started
               /\ registry' = (registry \/ step = "registry")
               /\ phase' = phase + 1
               /\ status' = IF LastStep(phase) THEN "serving" ELSE "starting"
          ELSE /\ status' = "failed"
               /\ UNCHANGED <<started, registry, phase>>
    /\ UNCHANGED <<pcInbox, aggBuckets, requests, flushes, panicked>>

-----------------------------------------------------------------------------
(* The services.                                                           *)

\* A metrics submission accepted by the HTTP server reaches the project
\* cache, which calls insert_metrics/merge_buckets on the project.
Request ==
    /\ "http" \in started
    /\ requests < MaxRequests
    /\ requests' = requests + 1
    /\ pcInbox' = Append(pcInbox, "metrics")
    /\ UNCHANGED <<status, phase, started, registry, aggBuckets, flushes, panicked>>

\* Project::insert_metrics / merge_buckets: unless the project is disabled
\* (metrics_allowed), non-empty metrics go to Registry::aggregator().
InsertMetrics ==
    /\ "project_cache" \in started
    /\ pcInbox # <<>> /\ Head(pcInbox) = "metrics"
    /\ pcInbox' = Tail(pcInbox)
    /\ \E allowed \in BOOLEAN :
          IF allowed /\ RegistryAggregator = "ok"
          THEN aggBuckets' = aggBuckets + 1 /\ UNCHANGED panicked
          ELSE /\ panicked' = (panicked \/ allowed)
               /\ UNCHANGED aggBuckets
    /\ UNCHANGED <<status, phase, started, registry, requests, flushes>>

\* The aggregator flushes its due buckets to the project cache (the
\* recipient it was created with).
AggregatorFlush ==
    /\ "aggregator" \in started
    /\ aggBuckets > 0
    /\ flushes < MaxFlushes
    /\ flushes' = flushes + 1
    /\ aggBuckets' = 0
    /\ pcInbox' = Append(pcInbox, "flush")
    /\ UNCHANGED <<status, phase, started, registry, requests, panicked>>

\* Project::flush_buckets: without a usable cached state, or without
\* scoping, the buckets are merged back through Registry::aggregator();
\* a disabled project drops them; otherwise they go on to the processor
\* or the envelope manager.
FlushBuckets ==
    /\ "project_cache" \in started
    /\ pcInbox # <<>> /\ Head(pcInbox) = "flush"
    /\ pcInbox' = Tail(pcInbox)
    /\ \E state \in {"none", "disabled", "valid"} :
          IF state = "none"
          THEN IF RegistryAggregator = "ok"
               THEN aggBuckets' = aggBuckets + 1 /\ UNCHANGED panicked
               ELSE panicked' = TRUE /\ UNCHANGED aggBuckets
          ELSE UNCHANGED <<aggBuckets, panicked>>
    /\ UNCHANGED <<status, phase, started, registry, requests, flushes>>

Init ==
    /\ status = "starting"
    /\ phase = 1
    /\ started = {}
    /\ registry = FALSE
    /\ pcInbox = <<>>
    /\ aggBuckets = 0
    /\ requests = 0
    /\ flushes = 0
    /\ panicked = FALSE

Next == StartupStep \/ Request \/ InsertMetrics \/ AggregatorFlush \/ FlushBuckets

Spec == Init /\ [][Next]_vars

-----------------------------------------------------------------------------
(* Properties.                                                             *)

Services == {StartupOrder[i] : i \in 1..Len(StartupOrder)}

TypeOK ==
    /\ status \in {"starting", "serving", "failed"}
    /\ phase \in 1..Len(StartupOrder) + 1
    /\ (status = "serving") = (phase = Len(StartupOrder) + 1)
    /\ started \subseteq Services
    /\ registry \in BOOLEAN /\ panicked \in BOOLEAN
    /\ pcInbox \in Seq({"metrics", "flush"})
    /\ aggBuckets \in Nat /\ requests \in 0..MaxRequests /\ flushes \in 0..MaxFlushes

=============================================================================
