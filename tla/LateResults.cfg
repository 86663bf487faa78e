SPECIFICATION LateSpec
CONSTANTS
    NULL = NULL
    Channels <- ChannelsDef
    Devices <- DevicesDef
    Formats = {44, 48}
    RefreshTicks = 2
    ReconnectTicks = 2
    MaxChanges = 2
    Specs <- SpecsDef
    Canvases = {"hd", "4k"}
    MaxSelections = 3
INVARIANTS SelectionIsPinned LoadsAreCurrent
PROPERTIES DefaultIsFollowed StingerSettles
