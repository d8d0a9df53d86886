\* Runs of overlapping scopes and a bucket that may not answer.
CONSTANTS
    i = i  j = j  s = s  t = t  c = c  d = d  A = A  B = B
    Instance = {i, j}
    Station = {s}
    City = {c}
    State = {A, B}
    CityOf <- OneEach
    StateOf <- TwoStates
    Scope <- Overlapping
    InactiveAfter = 1
    Faults = {"list", "sync", "upload", "union", "upsert", "mirror", "crash", "disk"}
SPECIFICATION Spec
INVARIANT NoInventedMisses
SYMMETRY SameInstance
