SPECIFICATION Spec
CONSTANTS
    Body = {1, 2, 3}
    Desc <- MCDesc
    Impulse = {0, 2, 4}
    Cascade <- MCCascade
    FrameTime = {1, 5}
    Shape <- MCShape
    MaxConstraints = 3
    MaxSubsteps = 2
    MaxBreaks = 2
    Clip <- MCClip
    Transitions <- MCTransitions
    Forced <- MCForced
    Elapse = {1, 2}
    MaxTriggers = 1
    NoTrigger = "auto"
    Nowhere = "nowhere"
    Texture = {"bark", "moss"}
    Version = {0, 1, 2}
    Budget = 1
    MaxFrames = 2
    Image = {0, 1, 2}
    Bank <- MCBank
    Level = {0, 1}
    Tag = {"ambient"}
    MaxSounds = 2
    MaxHandle = 3
    MaxTime = 2
    Release = {1, 2, 3}
    Ranged <- MCRanged
    Anchor <- MCAnchor
    Weather <- MCWeather
    Biome <- MCBiome
    TransitionTime = 5
    Value = {0}
    Off <- MCOff
    OldFile <- MCOldFile
    Document <- MCDocument
    Unreadable = Unreadable
    None = ""
    PoolSize = 4
    BuiltIn <- MCBuiltIn
    Plugin <- MCPlugin
    Initial <- MCInitial
    Undefined = "undefined"
    FramesInFlight = 2
    Path = {"v", "f", "c", "e", "k"}
    Watched = "k"
    Graphics <- MCGraphics
    Compute <- MCCompute
    Hash <- MCHash
    NoStage = ""
    Gpu = {"a", "b"}
    MaxEdits = 2
    Key = {"w"}
    Button = {0, 1}
    PadButton = {"A"}
    Action = {"jump"}
    Default <- MCDefault
    Binding <- MCBinding
    NoBinding <- MCNoBinding
    MaxHold = 2
    Swap = {0, 1}
    Picture = {"bark", "moss"}
    Levels = {1, 3}
    BloomPasses = 2
INVARIANTS BreaksAreExact FramesDoNotCollide ThumbnailsAreTrue VoicesCounted ScenesReturn SceneStands PipelinesAreCurrent PicturesAreTrue FramesAreWhole
PROPERTIES NothingPops PassesAreComposed InputIsFaithful
