SPECIFICATION Spec
CONSTANTS
    Servers = {p1, p2}
    Business = {d1}
    Acks = {a1}
    Chats = {c1, c2}
    None = None
    FirstChat = c1
    Lease = 5
    AttemptTimeout = 3
    TelegramTimeout = 1
    ResultMargin = 1
    CleanupTimeout = 1
    PermitSpan = 1
    Backoff = 2
    MaxAttempts = 2
    Delays <- MCDelays
    RetryAfters <- MCRetryAfters
    MaxTokens = 1
    MaxIntents = 2
    MaxFaults = 2
SYMMETRY ServerSymmetry
INVARIANT NoOverlappingCalls
CHECK_DEADLOCK FALSE
