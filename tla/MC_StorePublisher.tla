-------------------------- MODULE MC_StorePublisher --------------------------
(* Four envelopes that together reach every produce path of                *)
(* handle_store_envelope.                                                  *)
EXTENDS StorePublisher

\* An event with a three-byte attachment and a session update.
EvAttach == [eid |-> "ev1",
             items |-> <<[ty |-> "attachment", payload |-> <<1, 2, 1>>],
                         [ty |-> "session", parses |-> TRUE, status |-> "errored", errors |-> 0],
                         [ty |-> "event"]>>]

\* No event id: session aggregates are published, then the attachment
\* fails with NoEventId.
NoId == [eid |-> None,
         items |-> <<[ty |-> "sessions", parses |-> TRUE,
                      groups |-> <<[exited |-> 1, errored |-> 0, abnormal |-> 0, crashed |-> 2],
                                   [exited |-> 1, errored |-> 1, abnormal |-> 0, crashed |-> 0],
                                   [exited |-> 0, errored |-> 0, abnormal |-> 1, crashed |-> 0]>>],
                     [ty |-> "session", parses |-> FALSE],
                     [ty |-> "sessions", parses |-> FALSE],
                     [ty |-> "attachment", payload |-> <<2>>]>>]

\* A transaction with a chunked replay recording, metrics, a profile and a
\* replay event.
TxReplay == [eid |-> "ev3",
             items |-> <<[ty |-> "transaction"],
                         [ty |-> "replay_recording", payload |-> <<1, 2, 2>>],
                         [ty |-> "metric_buckets",
                          buckets |-> <<"transactions", "unsupported", "sessions">>],
                         [ty |-> "profile"],
                         [ty |-> "session", parses |-> TRUE, status |-> "crashed", errors |-> 0],
                         [ty |-> "replay_event"]>>]

\* A nil event id and no event item: standalone attachments (one chunked
\* in two, one empty), a user report and a small replay recording.
Standalone == [eid |-> Nil,
               items |-> <<[ty |-> "attachment", payload |-> <<2, 1, 1>>],
                           [ty |-> "user_report"],
                           [ty |-> "attachment", payload |-> <<>>],
                           [ty |-> "replay_recording", payload |-> <<1>>]>>]

MCEnvelopes == {EvAttach, NoId, TxReplay, Standalone}
=============================================================================
