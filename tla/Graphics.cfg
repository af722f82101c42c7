SPECIFICATION MCSpec
CONSTANTS
    Surfaces = {1, 2}
    Slots = {1}
    MaxSlot = 1
    Buffers = {101, 102}
    Sizes = {3}
    Strips <- MCStrips
    Points = {0, 1}
    Output = 4
    MaxPdus = 3
    MaxCalls = 2
    MaxCommits = 2
    MAX_BUFFERS = 2
    QUEUE_DEPTH = 1
    OutputSizes = {1, 2}
    MaxFrames = 4
    MaxRecordings = 2
    s1 = s1
    s2 = s2
    q1 = q1
    q2 = q2
    SpsSets = {s1, s2}
    PpsSets = {q1, q2}
    Payloads <- MCPayloads
    SpsFields <- MCFields
    MaxUnits = 4
    None = None
    TileSurfaces = {1}
    TileContexts = {1, 2}
    Widths = {3}
    TILE_SIZE = 2
    Streams <- MCStreams
    MaxMessages = 6
    NoTile = NoTile
INVARIANT RenderedIsExact
INVARIANT FilmIsExact
INVARIANT VideoIsFaithful
PROPERTY MirrorsSequential
PROPERTY ToggleReturns
CHECK_DEADLOCK FALSE
