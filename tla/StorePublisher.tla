--------------------------- MODULE StorePublisher ---------------------------
(***************************************************************************)
(* StoreService (src/relay-server/src/actors/store.rs): the single task    *)
(* that takes StoreEnvelope messages from its mailbox in FIFO order and    *)
(* publishes each envelope to Kafka item by item.                          *)
(*                                                                         *)
(* handle_store_envelope is synchronous, so one envelope is one atomic     *)
(* step.  Its effect is the sequence of produce calls the envelope         *)
(* yields (Steps), cut short at the first failure: a missing event id      *)
(* (StoreError::NoEventId) or a Kafka send error, each returned with ?.    *)
(* What was produced before the failure stays in the log.                  *)
(*                                                                         *)
(* Payloads are sequences of small symbols, so that chunk slices can be    *)
(* concatenated and compared with the original; other message fields are  *)
(* left out.  Uuid::new_v4 attachment ids are <<envelope, item index>>;    *)
(* a nil partitioning key is replaced by a fresh random key per message.   *)
(***************************************************************************)
EXTENDS Naturals, Sequences, FiniteSets, SequencesExt

CONSTANTS
    Envelopes,           \* [eid : event id or None, items : Seq(Item)]
    AttachmentChunkSize, \* config.attachment_chunk_size()
    ReplayMaxPayload,    \* 1000 * 1000 - 2000 in produce_replay_recording
    MaxExploded,         \* MAX_EXPLODED_SESSIONS
    KafkaCanFail,        \* whether a produce call may return an error
    None,                \* an absent event id (Option::None)
    Nil                  \* Uuid::nil(), as a literal key or an envelope's event id

ASSUME AttachmentChunkSize > 0 /\ ReplayMaxPayload > 0 /\ KafkaCanFail \in BOOLEAN

VARIABLES
    inbox,   \* the StoreService mailbox: StoreEnvelope messages in order
    log,     \* every message produced to Kafka, in produce order
    result   \* per envelope: unsent, queued, or the Result sent back

vars == <<inbox, log, result>>

-----------------------------------------------------------------------------
(* Routing and keys.                                                       *)

\* is_slow_item: slow items are routed to the attachments topic.
\* Mutant: only user reports count as slow.
IsSlowItemWithoutAttachment(item) == item.ty = "user_report"
IsSlowItem(item) == item.ty \in {"attachment", "user_report"}

\* The items of an envelope, as get_item_by searches them.
Items(env) == {env.items[i] : i \in 1..Len(env.items)}

IsEventItem(item) == item.ty \in {"event", "transaction", "security"}

\* The topic of the envelope's event message (handle_store_envelope).
EventTopic(env) ==
    IF \E it \in Items(env) : IsSlowItem(it) THEN "attachments"
    ELSE IF \E i \in 1..Len(env.items) :
                IsEventItem(env.items[i])
                /\ \A j \in 1..i - 1 : ~IsEventItem(env.items[j])
                /\ env.items[i].ty = "transaction"
         THEN "transactions"
    ELSE "events"

\* KafkaMessage::key: the message's event or replay id, or Uuid::nil() for
\* sessions, metrics, profiles and not-chunked recordings.  A nil id, the
\* literal one or an envelope's nil event id, is replaced by a fresh
\* Uuid::new_v4(): the n-th message of the log gets <<"v4", n>>; any
\* other id is its own key, <<"id", id>>.
\* Mutant: the nil id is used as the key.
PartitionKeyWithoutRandom(id, n) == <<"id", id>>
PartitionKey(id, n) == IF id = Nil THEN <<"v4", n>> ELSE <<"id", id>>

-----------------------------------------------------------------------------
(* The chunk loop of produce_attachment_chunks and                         *)
(* produce_replay_recording_chunks: slices of min(size, remaining).        *)

MinOf(a, b) == IF a <= b THEN a ELSE b
MaxOf(a, b) == IF a >= b THEN a ELSE b

\* Mutant: the loop runs only while a full chunk remains.
RECURSIVE ChunkLoopFullOnly(_, _, _)
ChunkLoopFullOnly(payload, offset, size) ==
    IF offset + size > Len(payload) THEN <<>>
    ELSE <<SubSeq(payload, offset + 1, offset + size)>>
            \o ChunkLoopFullOnly(payload, offset + size, size)

RECURSIVE ChunkLoop(_, _, _)
ChunkLoop(payload, offset, size) ==
    IF offset >= Len(payload) THEN <<>>
    ELSE LET n == MinOf(size, Len(payload) - offset) IN
         <<SubSeq(payload, offset + 1, offset + n)>>
            \o ChunkLoop(payload, offset + n, size)

\* Reference: the i-th chunk holds bytes (i-1)*size+1 .. i*size.
ChunksReference(payload, size) ==
    [i \in 1..((Len(payload) + size - 1) \div size) |->
        SubSeq(payload, (i - 1) * size + 1, MinOf(i * size, Len(payload)))]

-----------------------------------------------------------------------------
(* The produce calls an envelope yields, in order.                         *)

Fail == [call |-> "fail"]
Produce(topic, key, msg) == [call |-> "produce", topic |-> topic, key |-> key, msg |-> msg]

\* event_id.ok_or(StoreError::NoEventId)? before a produce call.
NeedsId(env, steps) == IF env.eid = None THEN <<Fail>> ELSE steps

\* The chunk messages of one attachment or recording, then its summary.
ChunkSteps(env, i, topic, size) ==
    LET chunks == ChunkLoop(env.items[i].payload, 0, size) IN
    [n \in 1..Len(chunks) |->
        Produce(topic, env.eid, [kind |-> "chunk", id |-> <<env, i>>,
                                    index |-> n - 1, payload |-> chunks[n]])]

Summary(env, i, size) ==
    [id |-> <<env, i>>, chunks |-> Len(ChunkLoop(env.items[i].payload, 0, size)),
     size |-> Len(env.items[i].payload)]


\* produce_user_report.
UserReportSteps(env) ==
    NeedsId(env, <<Produce("attachments", env.eid, [kind |-> "user_report"])>>)

\* The message produce_sessions_from_aggregate builds once, before the loop.
SessionBase == [status |-> "exited", errors |-> 0, quantity |-> 1]

\* The four branches of the loop body, in order: the count each reads, and
\* the errors and status it sets (None: the exited branch keeps the status).
SessionBranches ==
    <<[count |-> "exited", errors |-> 0, status |-> None],
      [count |-> "errored", errors |-> 1, status |-> "errored"],
      [count |-> "abnormal", errors |-> 1, status |-> "abnormal"],
      [count |-> "crashed", errors |-> 1, status |-> "crashed"]>>

\* One loop iteration on aggregate grp, starting from message msg: each
\* branch with a non-zero count mutates the message and sends a copy.
\* Yields the mutated message and the messages sent.
ExplodeGroup(msg, grp) ==
    FoldLeft(LAMBDA acc, b :
                IF grp[b.count] = 0 THEN acc
                ELSE LET m == [acc.msg EXCEPT !.errors = b.errors,
                                              !.quantity = grp[b.count],
                                              !.status = IF b.status = None THEN @ ELSE b.status]
                     IN [msg |-> m, out |-> Append(acc.out, m)],
             [msg |-> msg, out |-> <<>>], SessionBranches)

\* The groups the loop visits: aggregates.into_iter().take(MAX_EXPLODED_SESSIONS).
Explored(groups) == 1..MinOf(Len(groups), MaxExploded)

WithGroup(out, g) == [k \in DOMAIN out |-> out[k] @@ [group |-> g]]

\* As SessionMessages, but with the message cloned once outside the loop,
\* so the status one aggregate set carries over into the next.
SessionMessagesReusingMessage(groups) ==
    FoldLeft(LAMBDA acc, g :
                LET r == ExplodeGroup(acc.msg, groups[g])
                IN [msg |-> r.msg, out |-> acc.out \o WithGroup(r.out, g)],
             [msg |-> SessionBase, out |-> <<>>],
             [g \in Explored(groups) |-> g]).out

\* produce_sessions_from_aggregate: every iteration starts from a fresh
\* clone of the base message (let mut message = message.clone()).
SessionMessages(groups) ==
    FlattenSeq([g \in Explored(groups) |->
                    WithGroup(ExplodeGroup(SessionBase, groups[g]).out, g)])

\* produce_sessions for an update, then produce_session_update: errored is
\* rewritten to exited, and errors is clamped to [crashed as u16, u16::MAX].
SessionUpdate(item) ==
    LET status == IF item.status = "errored" THEN "exited" ELSE item.status
    IN [status |-> status, quantity |-> 1, group |-> 0,
        errors |-> MinOf(MaxOf(item.errors, IF status = "crashed" THEN 1 ELSE 0), 65535)]

\* produce_sessions: a payload that does not parse is dropped with Ok(());
\* an update is one message, aggregates are exploded.
SessionSteps(env, i) ==
    LET item == env.items[i]
        msgs == IF item.ty = "session" THEN <<SessionUpdate(item)>>
                ELSE SessionMessages(item.groups)
    IN IF ~item.parses THEN <<>>
       ELSE [k \in 1..Len(msgs) |->
                Produce("sessions", Nil,
                        [kind |-> "session", id |-> <<env, i>>] @@ msgs[k])]

\* send_metric_message: buckets of an unsupported namespace are dropped.
MetricTopic == [transactions |-> "metrics_transactions",
                sessions |-> "metrics_sessions"]

\* produce_metrics: one send_metric_message per parsed bucket, in order.
MetricSteps(item) ==
    LET known == SelectSeq(item.buckets, LAMBDA ns : ns \in DOMAIN MetricTopic)
    IN [b \in 1..Len(known) |->
           Produce(MetricTopic[known[b]], Nil, [kind |-> "metric"])]

\* produce_profile.
ProfileSteps == <<Produce("profiles", Nil, [kind |-> "profile"])>>

\* produce_replay_event.
ReplayEventSteps(env) ==
    NeedsId(env, <<Produce("replay_events", env.eid, [kind |-> "replay_event"])>>)

\* produce_replay_recording: below the size limit one not-chunked message
\* (key nil); otherwise the chunks first, then the recording message.
ReplayRecordingSteps(env, i) ==
    IF Len(env.items[i].payload) < ReplayMaxPayload
    THEN NeedsId(env, <<Produce("replay_recordings", Nil,
                                [kind |-> "recording_not_chunked"])>>)
    ELSE NeedsId(env, ChunkSteps(env, i, "replay_recordings", ReplayMaxPayload)
            \o <<Produce("replay_recordings", env.eid,
                         [kind |-> "recording",
                          refs |-> <<Summary(env, i, ReplayMaxPayload)>>])>>)

\* The item loop of handle_store_envelope: the produce calls of item i.
ItemSteps(env, i) ==
    LET ty == env.items[i].ty IN
    CASE ty = "attachment" ->
            NeedsId(env, ChunkSteps(env, i, "attachments", AttachmentChunkSize))
      [] ty = "user_report"      -> UserReportSteps(env)
      [] ty \in {"session", "sessions"} -> SessionSteps(env, i)
      [] ty = "metric_buckets"   -> MetricSteps(env.items[i])
      [] ty = "profile"          -> ProfileSteps
      [] ty = "replay_recording" -> ReplayRecordingSteps(env, i)
      [] ty = "replay_event"     -> ReplayEventSteps(env)
      [] OTHER -> <<>>

\* After the item loop: the event message referencing every attachment, or
\* one Attachment message per attachment when there is no event item.
TailSteps(env) ==
    LET atts == SelectSeq([i \in 1..Len(env.items) |-> i],
                          LAMBDA i : env.items[i].ty = "attachment")
        refs == [n \in 1..Len(atts) |-> Summary(env, atts[n], AttachmentChunkSize)]
    IN IF \E it \in Items(env) : IsEventItem(it)
       THEN NeedsId(env, <<Produce(EventTopic(env), env.eid,
                                   [kind |-> "event", refs |-> refs])>>)
       ELSE FlattenSeq([n \in 1..Len(refs) |->
                NeedsId(env, <<Produce(EventTopic(env), env.eid,
                                       [kind |-> "attachment", refs |-> <<refs[n]>>])>>)])

Steps(env) ==
    FlattenSeq([i \in 1..Len(env.items) |-> ItemSteps(env, i)]) \o TailSteps(env)

\* Steps of every envelope, a constant that TLC evaluates once.
StepsOf == [env \in Envelopes |-> Steps(env)]

-----------------------------------------------------------------------------

\* The processor sends StoreEnvelope for an accepted envelope.
Submit(e) ==
    /\ result[e] = "unsent"
    /\ inbox' = Append(inbox, e)
    /\ result' = [result EXCEPT ![e] = "queued"]
    /\ UNCHANGED log

\* StoreService::handle_message: handle the oldest message and send back
\* its Result.  The produce calls run in order until the first one that
\* fails (NoEventId, or a Kafka error at any produce when KafkaCanFail).
HandleMessage ==
    /\ inbox # <<>>
    /\ LET e == Head(inbox)
           s == StepsOf[e]
           idFail == {k \in 1..Len(s) : s[k].call = "fail"}
           kafkaFail == IF KafkaCanFail THEN {k \in 1..Len(s) : s[k].call = "produce"} ELSE {}
       IN \E stop \in {k \in idFail \cup kafkaFail : \A j \in idFail : k <= j}
                     \cup (IF idFail = {} THEN {Len(s) + 1} ELSE {}) :
            /\ log' = log \o [k \in 1..stop - 1 |->
                                [topic |-> s[k].topic, kid |-> s[k].key, env |-> e,
                                 key |-> PartitionKey(s[k].key, Len(log) + k)]
                                @@ s[k].msg]
            /\ result' = [result EXCEPT ![e] = IF stop = Len(s) + 1 THEN "ok" ELSE "err"]
    /\ inbox' = Tail(inbox)

Init ==
    /\ inbox = <<>>
    /\ log = <<>>
    /\ result = [e \in Envelopes |-> "unsent"]

Next == (\E e \in Envelopes : Submit(e)) \/ HandleMessage

Spec == Init /\ [][Next]_vars

-----------------------------------------------------------------------------
(* Properties.                                                             *)

Summaries(m) == IF m.kind \in {"event", "attachment", "recording"} THEN m.refs ELSE <<>>

\* The payload of the item an attachment or recording id was made for.
Original(id) == id[1].items[id[2]].payload

TypeOK ==
    /\ inbox \in Seq(Envelopes)
    /\ \A k \in 1..Len(log) : log[k].env \in Envelopes /\ log[k].kind \in
          {"chunk", "event", "attachment", "user_report", "session", "metric",
           "profile", "recording", "recording_not_chunked", "replay_event"}
    /\ \A k \in 1..Len(log) :
          /\ log[k].kid \in ({e.eid : e \in Envelopes} \cup {Nil}) \ {None}
          /\ log[k].key \in {<<"id", e.eid>> : e \in {e \in Envelopes : e.eid \notin {None, Nil}}}
                             \cup {<<"v4", n>> : n \in 1..Len(log)}
    /\ result \in [Envelopes -> {"unsent", "queued", "ok", "err"}]

\* The chunk loop of produce_attachment_chunks and
\* produce_replay_recording_chunks yields exactly the reference slicing
\* for the payload of every item the service has handled, at every chunk
\* size from 1 to 3 (P11 for the loop alone: no byte lost, repeated or
\* reordered, and the last chunk short).
ChunkLoopMatchesReference ==
    \A k \in 1..Len(log) : \A it \in Items(log[k].env), n \in 1..3 :
        "payload" \in DOMAIN it => ChunkLoop(it.payload, 0, n) = ChunksReference(it.payload, n)

\* P11 and the ordering rule of spec 5, over the whole log: a message that
\* references a chunked object (an event's attachments, a standalone
\* attachment, a replay recording) comes after all of the object's chunks,
\* numbered 0..chunks-1, on the same topic, and those chunks concatenate
\* to the original payload.  When the event id is not nil they are also on
\* the reference's partition key; a nil event id gives every message its
\* own random key (KafkaMessage::key, spec P12), so chunks and reference
\* are spread over partitions.  A failure part way through an envelope may
\* leave chunks behind, but never a dangling reference.
ChunkedObjectsComplete ==
    \A j \in 1..Len(log) : \A r \in 1..Len(Summaries(log[j])) :
        LET ref == Summaries(log[j])[r]
            chunks == SelectSeq(SubSeq(log, 1, j - 1),
                                LAMBDA m : m.kind = "chunk" /\ m.id = ref.id)
        IN /\ Len(chunks) = ref.chunks
           /\ ref.size = Len(Original(ref.id))
           /\ \A n \in 1..Len(chunks) :
                 /\ chunks[n].index = n - 1
                 /\ chunks[n].topic = log[j].topic
                 /\ log[j].kid # Nil => chunks[n].key = log[j].key
           /\ FlattenSeq([n \in 1..Len(chunks) |-> chunks[n].payload]) = Original(ref.id)

\* Spec 4.7: an aggregate explodes into one message per non-zero status
\* count of each of its first MAX_EXPLODED_SESSIONS groups, with the count
\* as quantity, that count's status, and errors 0 only for exited.
SessionsReference(groups) ==
    FlattenSeq([g \in DOMAIN groups |->
        IF g > MaxExploded THEN <<>> ELSE
        LET sts == SelectSeq(<<"exited", "errored", "abnormal", "crashed">>,
                             LAMBDA st : groups[g][st] > 0)
        IN [k \in 1..Len(sts) |->
              [group |-> g, status |-> sts[k], quantity |-> groups[g][sts[k]],
               errors |-> IF sts[k] = "exited" THEN 0 ELSE 1]]])

SentFor(id) ==
    LET sent == SelectSeq(log, LAMBDA m : m.kind = "session" /\ m.id = id)
    IN [n \in DOMAIN sent |-> Restrict(sent[n], {"group", "status", "quantity", "errors"})]

\* The session messages that produce_sessions_from_aggregate sends for an
\* aggregate item are the reference explosion, cut short only if a Kafka
\* send failed (then the envelope's result is an error); an update is
\* published once, never as errored, and a crashed update counts an error.
SessionMessagesMatchItems ==
    \A e \in Envelopes : \A i \in 1..Len(e.items) :
        LET id == <<e, i>>
            item == e.items[i]
            sent == SentFor(id)
        IN sent # <<>> =>
           IF item.ty = "sessions"
           THEN /\ IsPrefix(sent, SessionsReference(item.groups))
                /\ result[id[1]] = "ok" => sent = SessionsReference(item.groups)
           ELSE /\ Len(sent) = 1
                /\ sent[1].status # "errored"
                /\ sent[1].status = "crashed" => sent[1].errors >= 1

\* Spec 4.8: an envelope with any slow item (attachment, user report or
\* replay recording) has its event routed to the attachments topic.
EventRoutedAsSpecified ==
    \A j \in 1..Len(log) :
        (log[j].kind = "event"
         /\ \E it \in Items(log[j].env) :
                it.ty \in {"attachment", "user_report", "replay_recording"})
            => log[j].topic = "attachments"

=============================================================================
