\* Four envelopes in any submission order; every produce may fail.
CONSTANTS
    None = None
    Nil = Nil
    Envelopes <- MCEnvelopes
    AttachmentChunkSize = 2
    ReplayMaxPayload = 2
    MaxExploded = 2
    KafkaCanFail = TRUE
SPECIFICATION Spec
INVARIANT TypeOK ChunkLoopMatchesReference ChunkedObjectsComplete SessionMessagesMatchItems 
\* Every envelope is eventually handled and the service then waits.
CHECK_DEADLOCK FALSE
