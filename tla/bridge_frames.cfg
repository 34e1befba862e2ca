\* Two editors, one entity, each editor uploads the same asset once.
SPECIFICATION Spec
CONSTANTS
    Editor = {c1, c2}
    Entity = {e1}
    Nobody = Nobody
    Kind <- Uploads
    MaxRequests = 0
    ChunkCount = 1
SYMMETRY Symmetry
INVARIANTS EditorsUpToDate ReadersAreJoined UploadsArrive
