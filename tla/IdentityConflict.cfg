\* Two devices of one city, and no failure at all.
CONSTANTS
    w1 = w1  w2 = w2  pm25 = pm25  o3 = o3
    d1 = d1  d2 = d2  n1 = n1  n2 = n2  n3 = n3  x1 = x1  x2 = x2  c1 = c1
    Focus = {"stations"}
    Writer = {w1, w2}
    Field = {pm25, o3}
    Primary = {pm25}
    Value = {1, 2}
    UnitsDiffer = {w1}
    Units = units
    NoValue = none
    Device = {d1, d2}
    Name = {n1, n2}
    Site = {x1, x2}
    Edit = {}
    None = None
    MaxChanges = 3
    MaxFaults = 0
SPECIFICATION Spec
PROPERTIES ConflictIsNeverMerged
SYMMETRY Alike
CHECK_DEADLOCK FALSE
