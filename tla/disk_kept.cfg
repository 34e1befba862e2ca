\* A server restarted after stops and crashes.
SPECIFICATION Spec
CONSTANTS
    Asset = {a1}
    Name = {n1, n2}
    None = None
    Absent = Absent
    Torn = Torn
    Cut = Cut
    FutureWorlds = {TRUE, FALSE}
    MaxIssued = 1
    MaxFaults = 2
    MaxCrashes = 2
SYMMETRY Symmetry
INVARIANTS CountersGoOn
PROPERTIES AssetsAreKept ReplacesWhole
