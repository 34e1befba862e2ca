\* A client that leaves before its welcome.
SPECIFICATION Spec
CONSTANTS
    MaxClients = 2
    MaxRequests = 1
    MaxTicks = 1
    Fields = {"x"}
    Values = {0, 1}
    InitValue = 0
    EditorTypes = {"Light"}
    Requests <- LiveRequests
INVARIANTS
    GhostFree
