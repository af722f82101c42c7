SPECIFICATION MCSpec
CONSTANTS
    Keys <- MCKeys
    Users <- MCUsers
    Prefs <- MCPrefs
    MIN_MONITOR_DIMENSION = 4
    MAX_MONITOR_DIMENSION = 12
    UNITS_PER_NOTCH = 2
    MAX_UNITS_PER_EVENT = 3
    MAX_UNITS_PER_PUSH = 6
    LayoutProbes <- MCLayoutProbes
    PlacementProbes <- MCPlacementProbes
    HUD_INSET = 2
    BANNER_WIDTH = 8
    BANNER_HEIGHT = 3
    STATS_WIDTH = 6
    STATS_HEIGHT = 2
    TITLEBAR_HEIGHT = 3
    MIN_VISIBLE = 2
    CASCADE = 1
    Template <- MCTemplate
    THUMBNAIL_MAX <- MCThumbnail
    WindowProbes <- MCWindowProbes
    FrameProbes <- MCFrameProbes
    PreviewProbes <- MCPreviewProbes
    ScrollDeltas <- MCScrollDeltas
    MaxScroll = 4
    RESIZE_DEBOUNCE = 1
    TYPE_DELAY = 2
    Views <- MCViews
    Profiles <- MCProfiles
    Areas = {15, 50}
    MaxClock = 2
    Window = 2
    MaxFrames = 3
    MaxLegs = 2
    MaxFlips = 3
INVARIANT WireIsSound
INVARIANT NoStuckKeys
INVARIANT PixelsAreExact
INVARIANT LayoutSettles
INVARIANT NoLostWakeup
INVARIANT AcksAreHonest
INVARIANT SuspendsOnce
PROPERTY TimersFireInTime
PROPERTY NeverStalls
CHECK_DEADLOCK FALSE
