CONSTANTS
    Infos <- MCInfos
    Bodies = {"plain", "zlibish", "dcxish", "selfzlib"}
    MaxLayers = 3
    MaxDepth = 3
    MaxLive = 2
    NULL = NULL
SPECIFICATION FairSpec
INVARIANTS TypeOK RoundTrips OnlyEdgeLeaks ReaderOwnership
PROPERTIES UnwrapPeelsAll UnwrapEnds
