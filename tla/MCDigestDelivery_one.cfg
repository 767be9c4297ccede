SPECIFICATION Spec
CONSTANTS
    Servers = {p1}
    Business = {d1}
    Acks = {a1, a2}
    Chats = {c1, c2}
    None = None
    FirstChat = None
    Lease = 5
    AttemptTimeout = 3
    TelegramTimeout = 1
    ResultMargin = 1
    CleanupTimeout = 1
    PermitSpan = 1
    Backoff = 2
    MaxAttempts = 2
    Delays <- MCDelays
    RetryAfters <- MCRetryAfters
    MaxTokens = 2
    MaxIntents = 2
    MaxFaults = 1
INVARIANTS DuplicateNeedsFault
PROPERTIES NoCallToOldChat ImplementsContract
CHECK_DEADLOCK FALSE
