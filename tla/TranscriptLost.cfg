SPECIFICATION TranscriptSpec
CONSTANTS
    RetryLimit = 1
    MaxEvents = 5
INVARIANTS
    EveryEventIsKept
