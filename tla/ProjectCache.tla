---------------------------- MODULE ProjectCache ----------------------------
(***************************************************************************)
(* The per-project-key actor of relay-server (src/relay-server/src/actors/ *)
(* project.rs, struct Project): the cached ProjectState, the debounced     *)
(* fetch channel (StateChannel) with its no_cache upgrade, the one         *)
(* no_cache-per-second throttle, the queue of envelopes waiting for a      *)
(* state (pending_validations), the callers of get_state attached to the   *)
(* channel, and update_state, which installs a fetched state, keeps a      *)
(* usable state over an invalid one and drains every waiter.  The actor   *)
(* also serves AddSamplingState messages (enqueue_sampling): envelopes of  *)
(* another project that need this project's state as their dynamic        *)
(* sampling state, queued in pending_sampling like envelopes.             *)
(*                                                                         *)
(* The actor is single threaded: every action below is one message         *)
(* handler and runs atomically.  Time is abstracted: the age of the held   *)
(* state (check_expiry) and the one-second no_cache window advance by      *)
(* their own actions, in any interleaving with the handlers.               *)
(*                                                                         *)
(* The upstream fetcher (actors/project_cache.rs, not in this repository)  *)
(* is modelled from the spec (section 4.6, 5): each RequestUpdate is served *)
(* with the upstream's current config or with ProjectState::err(), and the *)
(* answers reach update_state in any order.                                *)
(***************************************************************************)
EXTENDS Naturals, Sequences, FiniteSets, Bags, BagsExt

CONSTANTS
    Envelopes,     \* envelopes submitted to this project key, each once
    Receivers,     \* callers of get_state (e.g. CheckEnvelope)
    Samplings,     \* AddSamplingState messages for this project key, each once
    MaxVersion,    \* bound on the number of config changes upstream
    MaxPrefetches, \* bound on prefetch calls (each may send a RequestUpdate)
    FetchCanFail,  \* whether upstream may answer with ProjectState::err()
    ProjectCanBeMissing, \* whether upstream may stop knowing the project
    MaxBuckets,    \* bound on the project's buckets in the aggregator or on the way back
    None           \* model value: Option::None

ASSUME MaxVersion \in Nat \ {0} /\ MaxPrefetches \in Nat
ASSUME FetchCanFail \in BOOLEAN /\ ProjectCanBeMissing \in BOOLEAN
ASSUME MaxBuckets \in Nat

VARIABLES
    state,          \* Project.state: None or a ProjectState
    channel,        \* Project.state_channel: None or [no_cache, receivers]
    pending,        \* Project.pending_validations (FIFO of envelope ids)
    noCacheRecent,  \* last_no_cache.elapsed() < 1s
    rateLimited,    \* Project.rate_limits holds an active limit for the items
    requests,       \* bag of RequestUpdate(no_cache) sent, not yet served
    responses,      \* bag of fetched states travelling back to update_state
    upstream,       \* the upstream's current config [version, disabled]
    prefetches,     \* number of prefetch calls so far (bounded)
    env,            \* per-envelope history: where it went and with which state
    recv,           \* per-receiver history: waiting / answered and with what
    samp,           \* per AddSamplingState message: where it went and with what
    agg,            \* this project's buckets held by the aggregator
    merging         \* buckets in MergeBuckets messages on their way back

metricVars == <<agg, merging>>

vars == <<state, channel, pending, noCacheRecent, rateLimited, requests,
          responses, upstream, prefetches, env, recv, samp, agg, merging>>

Ages == {"Updated", "Stale", "Expired"}

\* A ProjectState reduced to what the handlers and properties tell apart:
\* its config version, the disabled and invalid flags, whether it has a
\* project_id (scoped), and its age.
States == [version : 0..MaxVersion, disabled : BOOLEAN, invalid : BOOLEAN,
           scoped : BOOLEAN, age : Ages]

\* ProjectState::missing(): disabled, no project_id (an entry absent from
\* the upstream response, spec 4.6).
MissingState(v) ==
    [version |-> v, disabled |-> TRUE, invalid |-> FALSE, scoped |-> FALSE,
     age |-> "Updated"]

\* ProjectState::err(): missing() with invalid set.
ErrState == [MissingState(0) EXCEPT !.invalid = TRUE]

EnvStatus == {"new", "pending", "processed", "invalid", "rate_limited"}


-----------------------------------------------------------------------------
(* ProjectState and Project helpers.                                       *)

\* Project::expiry_state / valid_state: the held state unless it has expired.
ValidState == IF state # None /\ state.age # "Expired" THEN state ELSE None

\* ProjectState::check_disabled: an expired state passes; otherwise the
\* state must be neither invalid nor disabled.
CheckDisabledOk(st) == st.age = "Expired" \/ (~st.invalid /\ ~st.disabled)

\* ProjectState::check_request then check_disabled.  metaOk abstracts the
\* project id, origin and public key checks of the request's meta.
\* Mutant: the disabled flag is not checked.
CheckRequestOkIgnoringDisabled(st, metaOk) ==
    /\ metaOk
    /\ st.age = "Expired" \/ ~st.invalid
CheckRequestOk(st, metaOk) == metaOk /\ CheckDisabledOk(st)

\* Project::check_envelope, against the state valid at that moment: the
\* request check, then the cached rate limits (the EnvelopeLimiter with a
\* check_local callback only), then the empty-envelope rejection.
CheckEnvelope(st, metaOk) ==
    IF st # None /\ ~CheckRequestOk(st, metaOk) THEN "invalid"
    ELSE IF rateLimited THEN "rate_limited"
    ELSE "processed"

\* Project::flush_validation: check the envelope against the current state
\* and forward what survives, together with the state it was handed.
Flushed(metaOk, checked, handed) ==
    LET outcome == CheckEnvelope(checked, metaOk) IN
    [status |-> outcome, metaOk |-> metaOk,
     carried |-> IF outcome = "processed" THEN handed ELSE None]

\* Project::flush_sampling: the message goes to the processor, with this
\* project's valid_state as its sampling state only when that state is of
\* the message's organization ("never use rules from another
\* organization").  err() has no organization; sameOrg, chosen with the
\* message, says whether this project's organization is the message's.
\* Only whether a sampling state is attached is kept.
FlushSampling(sameOrg, valid) ==
    [status |-> "processed", sameOrg |-> sameOrg,
     sampled |-> valid # None /\ ~valid.invalid /\ sameOrg]

\* Mutant: update_state does not drain pending_sampling.
FlushPendingSamplingSkipped(valid) == samp

\* The loop of update_state over pending_sampling: every queued message is
\* flushed against the valid_state after the update.
FlushPendingSampling(valid) ==
    [m \in Samplings |->
        IF samp[m].status = "pending" THEN FlushSampling(samp[m].sameOrg, valid)
                                      ELSE samp[m]]

-----------------------------------------------------------------------------
(* get_or_fetch_state and fetch_state.                                     *)

\* A no_cache request is honoured at most once per second.
Honoured(noCache) == noCache /\ ~noCacheRecent

\* The state get_or_fetch_state hands out, or None when it schedules.
CachedState(noCache) ==
    IF Honoured(noCache) \/ ValidState = None THEN None ELSE ValidState

\* Whether get_or_fetch_state calls fetch_state (it returns early only for
\* an Updated state without an honoured no_cache).
NeedsFetch(noCache) ==
    Honoured(noCache) \/ ValidState = None \/ ValidState.age = "Stale"

\* Project::fetch_state: join the running fetch unless it must be upgraded
\* to no_cache; otherwise (re)flag the channel and send a RequestUpdate.
ShouldFetch(noCache) ==
    /\ NeedsFetch(noCache)
    /\ channel = None \/ (~channel.no_cache /\ Honoured(noCache))

\* The channel once fetch_state has run: created, or flagged no_cache.
\* Mutant: the flag is set from the request before the one-per-second
\* downgrade.
ChannelAfterFetchUndowngraded(noCache) ==
    IF ShouldFetch(noCache)
    THEN [no_cache |-> noCache,
          receivers |-> IF channel = None THEN {} ELSE channel.receivers]
    ELSE channel
ChannelAfterFetch(noCache) ==
    IF ShouldFetch(noCache)
    THEN [no_cache |-> Honoured(noCache),
          receivers |-> IF channel = None THEN {} ELSE channel.receivers]
    ELSE channel

\* Project::get_or_fetch_state: the throttle and the RequestUpdate it may
\* send; the caller sets channel' and reads CachedState(noCache).
GetOrFetch(noCache) ==
    /\ noCacheRecent' = (noCacheRecent \/ noCache)
    /\ requests' = IF ShouldFetch(noCache)
                   THEN BagAdd(requests, Honoured(noCache)) ELSE requests

-----------------------------------------------------------------------------
(* Message handlers of the project actor.                                  *)

\* Project::enqueue_validation: flush against the cached state, or queue.
EnqueueValidation(e, noCache, metaOk) ==
    /\ env[e].status = "new"
    /\ GetOrFetch(noCache)
    /\ channel' = ChannelAfterFetch(noCache)
    /\ LET st == CachedState(noCache)
       IN IF st # None
          THEN /\ env' = [env EXCEPT ![e] = Flushed(metaOk, ValidState, st)]
               /\ UNCHANGED pending
          ELSE /\ env' = [env EXCEPT ![e] = [status |-> "pending", metaOk |-> metaOk,
                                                carried |-> None]]
               /\ pending' = Append(pending, e)
    /\ UNCHANGED <<state, rateLimited, responses, upstream, prefetches, recv, samp,
                   metricVars>>

\* Project::enqueue_sampling: flush against the cached state, or queue in
\* pending_sampling.
EnqueueSampling(m, noCache, sameOrg) ==
    /\ samp[m].status = "new"
    /\ GetOrFetch(noCache)
    /\ channel' = ChannelAfterFetch(noCache)
    /\ samp' = [samp EXCEPT ![m] =
                   IF CachedState(noCache) # None
                   THEN FlushSampling(sameOrg, ValidState)
                   ELSE [status |-> "pending", sameOrg |-> sameOrg, sampled |-> FALSE]]
    /\ UNCHANGED <<state, pending, rateLimited, responses, upstream, prefetches,
                   env, recv,
                   metricVars>>

\* Project::get_state: answer with the cached state or attach to the channel.
GetState(r, noCache) ==
    /\ recv[r].status = "idle"
    /\ GetOrFetch(noCache)
    /\ LET st == CachedState(noCache) IN
       IF st # None
       THEN /\ recv' = [recv EXCEPT ![r] = [status |-> "answered", got |-> st,
                                            honoured |-> Honoured(noCache)]]
            /\ channel' = ChannelAfterFetch(noCache)
       ELSE /\ recv' = [recv EXCEPT ![r] = [status |-> "waiting", got |-> None,
                                            honoured |-> Honoured(noCache)]]
            /\ channel' = [ChannelAfterFetch(noCache) EXCEPT
                                !.receivers = @ \cup {r}]
    /\ UNCHANGED <<state, pending, rateLimited, responses, upstream,
                   prefetches, env, samp,
                   metricVars>>

\* Project::prefetch: get_cached_state with the result thrown away.
Prefetch(noCache) ==
    /\ prefetches < MaxPrefetches
    /\ prefetches' = prefetches + 1
    /\ GetOrFetch(noCache)
    /\ channel' = ChannelAfterFetch(noCache)
    /\ UNCHANGED <<state, pending, rateLimited, responses, upstream, env, recv, samp,
                   metricVars>>

\* Project::merge_rate_limits: the processor reports a rate limit.
MergeRateLimits ==
    /\ ~rateLimited
    /\ rateLimited' = TRUE
    /\ UNCHANGED <<state, channel, pending, noCacheRecent, requests, responses,
                   upstream, prefetches, env, recv, samp,
                   metricVars>>

\* Project::metrics_allowed: metrics are allowed without a valid state,
\* and otherwise when check_disabled passes.
MetricsAllowed == ValidState = None \/ CheckDisabledOk(ValidState)

\* Project::rate_limit_metrics: the cached rate limits apply only when a
\* state is held (expired or not) and scoping() finds a project_id.
MetricsRateLimited == state # None /\ state.scoped /\ rateLimited

\* Project::insert_metrics / merge_buckets: one bucket, sent to the
\* aggregator unless metrics are not allowed or the cached rate limits
\* remove it.
InsertMetrics ==
    /\ agg + merging < MaxBuckets
    /\ agg' = IF MetricsAllowed /\ ~MetricsRateLimited THEN agg + 1 ELSE agg
    /\ UNCHANGED <<state, channel, pending, noCacheRecent, rateLimited, requests,
                   responses, upstream, prefetches, env, recv, samp, merging>>

\* flush_buckets puts the buckets back into the aggregator when
\* get_cached_state(false) finds no cached state, and when scoping() finds
\* no project_id in the held state.
MergesBack == CachedState(FALSE) = None \/ ~state.scoped

\* Mutant: flush_buckets reads valid_state() instead of get_cached_state,
\* so an outdated state schedules no fetch.
FlushBucketsWithoutFetch ==
    /\ agg > 0
    /\ agg' = 0
    /\ merging' = IF ValidState = None \/ ~state.scoped THEN merging + agg ELSE merging
    /\ UNCHANGED <<state, channel, pending, noCacheRecent, rateLimited, requests,
                   responses, upstream, prefetches, env, recv, samp>>

\* Project::flush_buckets with every bucket the aggregator holds for this
\* project.  get_cached_state(false) runs first and may schedule a fetch.
\* The aggregator hands all of them over.  Merged-back buckets are sent
\* back in a MergeBuckets message; otherwise they are gone: a
\* disabled or invalid state drops them, the cached rate limits may drop
\* them, and the rest go to the processor (RateLimitFlushBuckets) or the
\* envelope manager (SendMetrics).
FlushBuckets ==
    /\ agg > 0
    /\ agg' = 0
    /\ merging' = IF MergesBack THEN merging + agg ELSE merging
    /\ GetOrFetch(FALSE)
    /\ channel' = ChannelAfterFetch(FALSE)
    /\ UNCHANGED <<state, pending, rateLimited, responses, upstream, prefetches,
                   env, recv, samp>>

\* The aggregator handles a MergeBuckets message: the buckets are held
\* again until its next flush (spec_modelled: the aggregator is not in
\* this repository).
AggregatorMerges ==
    /\ merging > 0
    /\ agg' = agg + merging
    /\ merging' = 0
    /\ UNCHANGED <<state, channel, pending, noCacheRecent, rateLimited, requests,
                   responses, upstream, prefetches, env, recv, samp>>

\* update_state returns early when there is no channel, and puts a no_cache
\* channel back when a plain answer arrives: it has been superseded.
\* Mutant: the channel's flag is not consulted.
SupersededIgnoringFlag(resp) == channel = None \/ ~resp.no_cache
Superseded(resp) == channel = None \/ (channel.no_cache /\ ~resp.no_cache)

\* The state update_state installs and hands out: the held one if it is
\* still usable and the fetched one invalid, else the fetched one.
\* Mutant: the state held before the update is handed out.
HandedBeforeUpdate(fetched) == state
\* Mutant: only an Updated state is kept over an invalid one.
HandedKeepingOnlyUpdated(fetched) ==
    IF ValidState # None /\ ValidState.age = "Updated" /\ fetched.invalid
    THEN state ELSE fetched
Handed(fetched) == IF ValidState # None /\ fetched.invalid THEN state ELSE fetched

\* Project::update_state with a fetched state and the no_cache flag of the
\* request it answers: install, flush pending_validations in order against
\* the new state, then pending_sampling, and send the state to every
\* attached receiver.
UpdateState(resp) ==
    /\ responses' = BagRemove(responses, resp)
    /\ IF Superseded(resp)
       THEN UNCHANGED <<state, channel, pending, env, recv, samp>>
       ELSE LET handed == Handed([resp.state EXCEPT !.age = "Updated"])
                queued == {pending[i] : i \in 1..Len(pending)}
            IN /\ state' = handed
               /\ channel' = None
               /\ pending' = <<>>
               /\ env' = [e \in Envelopes |->
                            IF e \in queued THEN Flushed(env[e].metaOk, state', handed)
                                            ELSE env[e]]
               /\ recv' = [r \in Receivers |->
                            IF r \in channel.receivers
                            THEN [recv[r] EXCEPT !.status = "answered",
                                                 !.got = handed]
                            ELSE recv[r]]
               /\ samp' = FlushPendingSampling(ValidState')
    /\ UNCHANGED <<noCacheRecent, rateLimited, requests, upstream, prefetches,
                   metricVars>>

-----------------------------------------------------------------------------
(* Time and the environment.                                               *)

\* ProjectState::check_expiry: elapsed time moves the state past expiry,
\* then past expiry plus the grace period.
StateAges ==
    /\ state # None
    /\ state.age # "Expired"
    /\ state' = [state EXCEPT !.age = IF @ = "Updated" THEN "Stale" ELSE "Expired"]
    /\ UNCHANGED <<channel, pending, noCacheRecent, rateLimited, requests,
                   responses, upstream, prefetches, env, recv, samp,
                   metricVars>>

\* One second passes since the last honoured no_cache request.
NoCacheWindowPasses ==
    /\ noCacheRecent
    /\ noCacheRecent' = FALSE
    /\ UNCHANGED <<state, channel, pending, rateLimited, requests, responses,
                   upstream, prefetches, env, recv, samp,
                   metricVars>>

\* RateLimits::clean_expired: the cached rate limit runs out.
RateLimitExpires ==
    /\ rateLimited
    /\ rateLimited' = FALSE
    /\ UNCHANGED <<state, channel, pending, noCacheRecent, requests, responses,
                   upstream, prefetches, env, recv, samp,
                   metricVars>>

\* The project's config changes upstream (spec_modelled).
UpstreamChanges ==
    /\ upstream.version < MaxVersion
    /\ \E d \in BOOLEAN, x \in IF ProjectCanBeMissing THEN BOOLEAN ELSE {TRUE} :
          upstream' = [version |-> upstream.version + 1, disabled |-> d, exists |-> x]
    /\ UNCHANGED <<state, channel, pending, noCacheRecent, rateLimited,
                   requests, responses, prefetches, env, recv, samp,
                   metricVars>>

\* The upstream serves one RequestUpdate with its current config, with
\* ProjectState::missing() when it no longer knows the project, or with
\* ProjectState::err() when the fetch fails (spec_modelled).
ServeRequest(nc) ==
    /\ nc \in BagToSet(requests)
    /\ requests' = BagRemove(requests, nc)
    /\ \E failed \in IF FetchCanFail THEN BOOLEAN ELSE {FALSE} :
          LET st == IF failed THEN ErrState
                    ELSE IF ~upstream.exists THEN MissingState(upstream.version)
                    ELSE [version |-> upstream.version,
                          disabled |-> upstream.disabled, invalid |-> FALSE,
                          scoped |-> TRUE, age |-> "Updated"]
          IN responses' = BagAdd(responses, [no_cache |-> nc, state |-> st])
    /\ UNCHANGED <<state, channel, pending, noCacheRecent, rateLimited,
                   upstream, prefetches, env, recv, samp,
                   metricVars>>

\* A fetch times out and no state is ever delivered for it (spec 5: "on
\* timeout the state remains whatever it was").  Only in SpecLossy.
LoseRequest(nc) ==
    /\ nc \in BagToSet(requests)
    /\ requests' = BagRemove(requests, nc)
    /\ UNCHANGED <<state, channel, pending, noCacheRecent, rateLimited,
                   responses, upstream, prefetches, env, recv, samp,
                   metricVars>>

-----------------------------------------------------------------------------

\* Project::new: no state, no channel, empty queues, last_no_cache = now.
Init ==
    /\ state = None
    /\ channel = None
    /\ pending = <<>>
    /\ noCacheRecent = TRUE
    /\ rateLimited = FALSE
    /\ requests = EmptyBag
    /\ responses = EmptyBag
    /\ upstream = [version |-> 1, disabled |-> FALSE, exists |-> TRUE]
    /\ prefetches = 0
    /\ env = [e \in Envelopes |-> [status |-> "new", metaOk |-> TRUE,
                                    carried |-> None]]
    /\ recv = [r \in Receivers |-> [status |-> "idle", got |-> None,
                                    honoured |-> FALSE]]
    /\ samp = [m \in Samplings |-> [status |-> "new", sameOrg |-> FALSE,
                                     sampled |-> FALSE]]
    /\ agg = 0 /\ merging = 0

Next ==
    \/ \E e \in Envelopes, nc, ok \in BOOLEAN : EnqueueValidation(e, nc, ok)
    \/ \E r \in Receivers, nc \in BOOLEAN : GetState(r, nc)
    \/ \E m \in Samplings, nc, so \in BOOLEAN : EnqueueSampling(m, nc, so)
    \/ \E nc \in BOOLEAN : Prefetch(nc)
    \/ MergeRateLimits
    \/ InsertMetrics
    \/ FlushBuckets
    \/ AggregatorMerges
    \/ \E resp \in BagToSet(responses) : UpdateState(resp)
    \/ StateAges
    \/ NoCacheWindowPasses
    \/ RateLimitExpires
    \/ UpstreamChanges
    \/ \E nc \in BOOLEAN : ServeRequest(nc)

\* The background fetch always completes and its result is applied
\* (spec 5: it is never cancelled); clients and time need no fairness.
Fairness ==
    /\ WF_vars(\E nc \in BOOLEAN : ServeRequest(nc))
    /\ WF_vars(\E resp \in BagToSet(responses) : UpdateState(resp))

Spec == Init /\ [][Next]_vars /\ Fairness

\* The same actor when an upstream fetch may time out without an answer.
SpecLossy ==
    Init /\ [][Next \/ \E nc \in BOOLEAN : LoseRequest(nc)]_vars /\ Fairness

-----------------------------------------------------------------------------
(* Properties.                                                             *)

TypeOK ==
    /\ state \in States \cup {None}
    /\ channel \in [no_cache : BOOLEAN, receivers : SUBSET Receivers] \cup {None}
    /\ pending \in Seq(Envelopes)
    /\ noCacheRecent \in BOOLEAN /\ rateLimited \in BOOLEAN
    /\ IsABag(requests) /\ BagToSet(requests) \subseteq BOOLEAN
    /\ IsABag(responses)
    /\ BagToSet(responses) \subseteq [no_cache : BOOLEAN, state : States]
    /\ upstream \in [version : 1..MaxVersion, disabled : BOOLEAN, exists : BOOLEAN]
    /\ prefetches \in 0..MaxPrefetches
    /\ \A e \in Envelopes : env[e].status \in EnvStatus
    /\ \A r \in Receivers :
          recv[r] \in [status : {"idle", "waiting"}, got : {None}, honoured : BOOLEAN]
                      \cup [status : {"answered"}, got : States, honoured : BOOLEAN]
    /\ \A m \in Samplings :
          samp[m] \in [status : {"new", "pending", "processed"}, sameOrg : BOOLEAN,
                       sampled : BOOLEAN]
    /\ agg \in 0..MaxBuckets /\ merging \in 0..MaxBuckets

\* The no_cache flags of fetches still on their way (requested or answered).
InFlight == BagToSet(requests) \cup {x.no_cache : x \in BagToSet(responses)}

\* Debouncing never strands a waiter (fetch_state / update_state): while an
\* envelope is queued in pending_validations, an AddSamplingState message in
\* pending_sampling, or a get_state caller waits,
\* there is a channel, the caller is attached to it, and some fetch in flight
\* can still consume it (update_state puts a no_cache channel back when a
\* plain response arrives, so a no_cache channel needs a no_cache fetch).
WaitersHaveFetch ==
    /\ \A e \in Envelopes : env[e].status = "pending" <=>
            \E i \in 1..Len(pending) : pending[i] = e
    /\ (\/ pending # <<>>
        \/ \E m \in Samplings : samp[m].status = "pending"
        \/ \E r \in Receivers : recv[r].status = "waiting") =>
          /\ channel # None
          /\ \A r \in Receivers : recv[r].status = "waiting" => r \in channel.receivers
          /\ \E nc \in InFlight : nc \/ ~channel.no_cache

\* The aggregator flush of a project without a usable state schedules the
\* fetch its buckets wait for (flush_buckets: "Schedule an update to the
\* project state if it is outdated ... If the state is outdated, we need to
\* wait for an updated state. Put them back into the aggregator."): after
\* such a flush a channel is open and some fetch in flight can consume it.
OutdatedBucketsAwaitFetch ==
    [][(agg > 0 /\ agg' = 0 /\ ValidState = None) =>
          /\ channel' # None
          /\ \E nc \in InFlight' : nc \/ ~channel'.no_cache
      ]_<<agg, merging, channel, requests, responses>>

\* Every bucket flush_buckets puts back into the aggregator waits on a
\* fetch that can install a new state, as the comment at the merge-back
\* says: after any flush that merges back, a channel is open and some
\* fetch in flight can consume it.
MergedBackAwaitsFetch ==
    [][(agg > 0 /\ agg' = 0 /\ merging' > merging) =>
          /\ channel' # None
          /\ \E nc \in InFlight' : nc \/ ~channel'.no_cache
      ]_<<agg, merging, channel, requests, responses>>

\* The processor only ever receives an envelope together with a project
\* state that is usable: neither err() nor disabled, and not expired
\* (enqueue_validation, update_state and flush_validation / check_envelope).
ForwardedWithUsableState ==
    \A e \in Envelopes : env[e].status = "processed" =>
        /\ env[e].carried \in States
        /\ ~env[e].carried.invalid /\ ~env[e].carried.disabled
        /\ env[e].carried.age # "Expired"

\* A usable, valid state is never given up for err() (update_state keeps
\* the old state when the fetch failed), and no get_state caller answered
\* while it is held receives err() (spec P8).
NeverDowngradedToErr ==
    [][(ValidState # None /\ ~state.invalid) =>
          /\ ~state'.invalid
          /\ \A r \in Receivers :
                (recv[r].status # "answered" /\ recv'[r].status = "answered")
                    => ~recv'[r].got.invalid]_<<state, recv>>

\* Every queued envelope and AddSamplingState message is eventually flushed
\* and every get_state caller eventually answered, given that every fetch
\* completes (update_state).
WaitersEventuallyServed ==
    /\ \A e \in Envelopes : env[e].status = "pending" ~> env[e].status # "pending"
    /\ \A m \in Samplings : samp[m].status = "pending" ~> samp[m].status = "processed"
    /\ \A r \in Receivers : recv[r].status = "waiting" ~> recv[r].status = "answered"

\* "Updates with no_cache will always take precedence" (update_state): the
\* config version of the held, valid state never goes back.
HeldVersionNeverDecreases ==
    [][(state \in States /\ state' \in States /\ ~state.invalid /\ ~state'.invalid)
         => state'.version >= state.version]_state


\* Refinement mapping onto FetchCoalescing: an envelope not yet enqueued
\* is idle, a queued one waits, a handled one is done, and so for an
\* AddSamplingState message; a get_state receiver waits while attached to
\* the channel and holds what it got.
WaiterStatus ==
    [w \in Envelopes \cup Samplings \cup Receivers |->
        IF w \in Envelopes
        THEN CASE env[w].status = "new" -> "idle"
               [] env[w].status = "pending" -> "waiting"
               [] OTHER -> "done"
        ELSE IF w \in Samplings
        THEN CASE samp[w].status = "new" -> "idle"
               [] samp[w].status = "pending" -> "waiting"
               [] OTHER -> "done"
        ELSE CASE recv[w].status = "idle" -> "idle"
               [] recv[w].status = "waiting" -> "waiting"
               [] OTHER -> "done"]

FC == INSTANCE FetchCoalescing WITH
        Waiters <- Envelopes \cup Samplings \cup Receivers,
        held <- state, wstatus <- WaiterStatus,
        got <- [r \in Receivers |-> recv[r].got]

\* The actor implements the coalescing promise: each caller is answered
\* either at once with the usable held state (get_or_fetch_state), or by
\* the update_state that installs a state, together with every other
\* waiter and with exactly that state; a superseded answer changes
\* nothing; and a usable state is never replaced by err() (P8).
FetchCoalescingRefined == FC!Spec

=============================================================================
