\* One stream and all that happens to it: every interleaving of an ingest, a
\* reconcile of one chunk or two, and a discovery.
CONSTANTS
    s1 = s1  s2 = s2
    Mode = {"ingest", "reconcile"}
    Stream = {s1}
    HoursOf <- HourOne
    MaybeSubhourly = {s1}
    Overlap = 1
    Window = 1
    Backfill = 2
    Lookback = 4
    Chunk = 2
    RetireAfter = 2
    MaxRequests = 2
    MaxAttempts = 1
    MaxTime = 3
    MaxRev = 2
SPECIFICATION Spec
INVARIANT NothingInTimeFallsBehind
PROPERTIES NoStepBack
