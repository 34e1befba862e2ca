\* Two clients come and go, or one edits either field of its avatar twice; the
\* first is followed.
SPECIFICATION MCSpec
CONSTANTS
    MaxClients = 2
    MaxRequests = 2
    MaxTicks = 1
    Fields = {"x", "y"}
    Values = {0, 1}
    InitValue = 0
    EditorTypes = {"Light"}
    Requests <- EditRequests
    Observer = {1}
INVARIANTS
    ReplicaComplete
    PoseWasReal
