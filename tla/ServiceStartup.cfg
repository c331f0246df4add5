\* A processing relay with Redis and TLS, built with the ssl feature.
CONSTANTS
    ProcessingEnabled = TRUE
    RedisConfigured = TRUE
    TlsConfigured = TRUE
    SslFeature = TRUE
    MaxRequests = 3
    MaxFlushes = 4
SPECIFICATION Spec
INVARIANT TypeOK
\* A failed startup, and the bounded traffic after it, end every behaviour.
CHECK_DEADLOCK FALSE
