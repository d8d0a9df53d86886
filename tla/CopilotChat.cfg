\* Two chats from two addresses and a briefing from one of them, on one session: one
\* request a day for an address, two in all, and a cap one turn can reach.
CONSTANTS
    a = a  b = b  c = c  i = i  j = j  s = s
    None = None
    Request = {a, b, c}
    Ip = {i, j}
    IpOf <- TwoFromOne
    Session = {s}
    SessionOf <- OneSession
    Briefing = {c}
    Place <- PlaceOf
    Tools <- SomeTools
    GlobalLimit = 2
    IpLimit = 1
    TokenCap = 1
    MaxCost = 1
    InFlight = 2
    Models = 2
    MaxHistory = 2
    LastDay = 1
SPECIFICATION FairSpec
INVARIANTS AdmissionsAreCounted SpendIsBounded TurnContextIsItsOwn
PROPERTIES HistoryIsNotOverwritten EveryRequestEnds
CHECK_DEADLOCK FALSE
