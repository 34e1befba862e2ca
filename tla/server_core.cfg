\* Two clients join, edit, undo, redo and leave in every interleaving.
SPECIFICATION Spec
CONSTANTS
    MaxClients = 2
    MaxRequests = 3
    MaxTicks = 0
    Fields = {"x"}
    Values = {0, 1}
    InitValue = 0
    EditorTypes = {"Light"}
    Requests <- CoreRequests
INVARIANTS
    AvatarPerClient
    JoinComplete
    DepartureTold
    PoseComesFromOwner
    PoseIsLatestApplied
PROPERTIES
    ImplementsSharedWorld
