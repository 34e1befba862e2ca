\* Two clients, one request: what must eventually happen.
SPECIFICATION Spec
CONSTANTS
    MaxClients = 2
    MaxRequests = 1
    MaxTicks = 1
    Fields = {"x"}
    Values = {0, 1}
    InitValue = 0
    EditorTypes = {"Light"}
    Requests <- LiveRequests
PROPERTIES
    ClientsAreServed
