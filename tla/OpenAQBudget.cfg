\* Streams that compete for the requests of the hourly ingest.
CONSTANTS
    s1 = s1  s2 = s2
    Mode = {"ingest"}
    Stream = {s1, s2}
    HoursOf <- NoHours
    MaybeSubhourly = {}
    Overlap = 1
    Window = 1
    Backfill = 1
    Lookback = 2
    Chunk = 1
    RetireAfter = 1
    MaxRequests = 2
    MaxAttempts = 2
    MaxTime = 2
    MaxRev = 1
SPECIFICATION FairSpec
PROPERTIES ListedStreamsCatchUp
