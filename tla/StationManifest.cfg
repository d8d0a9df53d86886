\* Runs of one scope: they exclude each other, the bucket always answers a read.
CONSTANTS
    i = i  j = j  s = s  t = t  c = c  d = d  A = A  B = B
    Instance = {i, j}
    Station = {s}
    City = {c}
    State = {A}
    CityOf <- OneCity
    StateOf <- TwoStates
    Scope <- Nationwide
    InactiveAfter = 2
    Faults = {"list", "upload", "mirror", "crash"}
SPECIFICATION FairSpec
INVARIANTS SyncedCopyIsComplete
PROPERTIES RowsNeverDeleted DeactivationIsEarned ListedIsLive DroppedIsSwitchedOff
