\* Spec 4.8 routing of envelopes with a replay recording.
CONSTANTS
    None = None
    Nil = Nil
    Envelopes <- MCEnvelopes
    AttachmentChunkSize = 2
    ReplayMaxPayload = 2
    MaxExploded = 1
    KafkaCanFail = FALSE
SPECIFICATION Spec
INVARIANT EventRoutedAsSpecified
\* Every envelope is eventually handled and the service then waits.
CHECK_DEADLOCK FALSE
