\* Two HTTP requests for the job at the same time, each with a task object of its own.
CONSTANTS
    h = h  w = w  s1 = s1  s2 = s2
    Task = {h, w}
    Reused = {}
    Listed = {s1, s2}
    Dormant = {s2}
    Concurrency = 1
    DbFallback = FALSE
SPECIFICATION FairSpec
INVARIANTS RecordTellsWhatHappened FetchedIsKept RejectionIsContained UnreadableIsOwn
PROPERTIES StationsAreReadAgain
