\* Four runs of one job in two processes; the manager of p1 is required, as
\* every task asks for, that of p2 may degrade.
CONSTANTS
    k1 = k1  a = a  b = b  c = c  d = d  p1 = p1  p2 = p2
    Key = {k1}
    Holder = {a, b, c, d}
    Process = {p1, p2}
    KeyOf <- OneKey
    ProcOf <- TwoProcs
    Required <- OnePublic
    TTL = 1
    MaxFence = 3
    NoRow = NoRow
SPECIFICATION FairSpec
INVARIANT OneEntitledRun
PROPERTIES OnlyItsHolderEndsALiveLease ImplementsExclusion NeverLockedOut
