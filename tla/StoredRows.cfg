\* Two runs that write one row of two fields, and its curator; two devices that appear, move and
\* are renamed, a curator, and discoveries one of which fails.
CONSTANTS
    w1 = w1  w2 = w2  pm25 = pm25  o3 = o3
    d1 = d1  d2 = d2  n1 = n1  n2 = n2  n3 = n3  x1 = x1  x2 = x2  c1 = c1
    Focus = {"readings", "stations"}
    Writer = {w1, w2}
    Field = {pm25, o3}
    Primary = {pm25}
    Value = {1}
    UnitsDiffer = {w1}
    Units = units
    NoValue = none
    Device = {d1, d2}
    Name = {n1, n2, n3}
    Site = {x1, x2}
    Edit = {c1}
    None = None
    MaxChanges = 3
    MaxFaults = 1
SPECIFICATION Spec
INVARIANTS FlagsExplainState ReplayIsIdle CleanWriteHeals OneIdPerDevice CuratedKeysSurvive
PROPERTIES ValuesSurvive CuratedStays
SYMMETRY Alike
CHECK_DEADLOCK FALSE
