\* Two uploads of one asset, by one client or by two.
SPECIFICATION Spec
CONSTANTS
    Client = {c1, c2}
    Asset = {a1}
    ChunkCount = 2
    SaveOutcomes = {TRUE, FALSE}
    MaxUploads = 2
SYMMETRY Symmetry
INVARIANTS
    TransfersArrive
PROPERTIES
    ImplementsAssetStore
CHECK_DEADLOCK FALSE
