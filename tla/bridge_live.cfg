\* One editor that comes, reads or not, asks and leaves, and a bridge that stops.
SPECIFICATION Spec
CONSTANTS
    Editor = {c1}
    Entity = {e1}
    Nobody = Nobody
    Kind <- Requests
    MaxRequests = 2
    ChunkCount = 1
PROPERTIES StopReturns EditorsAreServed
