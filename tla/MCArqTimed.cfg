SPECIFICATION TimedSpec
CONSTANTS
    ArqSeqs = {0, 1}
    MaxRetries = 3
    Base = 2
    Jitter = 1
    Defer = 1
INVARIANT GiveUpOnlyAfterEveryAttempt
PROPERTIES BackoffKept EveryFrameSettles
