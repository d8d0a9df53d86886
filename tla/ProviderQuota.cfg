\* Two callers, one in a public instance that may degrade: a minute limit of 1,
\* an hour of three minutes with a limit of 2.
CONSTANTS
    a = a  b = b  p = p  q = q
    Call = {a, b}
    Process = {p, q}
    ProcOf <- TwoProcs
    Required <- OnePublic
    MinuteLimit <- One
    HourLimit <- Two
    SlotsPerMinute = 1
    MinutesPerHour = 3
    MaxWait = 2
    TxAge = 1
    Keep = 2
SPECIFICATION FairSpec
INVARIANT WindowBudgets
PROPERTIES WasteIsHarmless EveryCallSettles
