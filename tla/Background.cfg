SPECIFICATION FairSpec
CONSTANTS
    None = None
    Workspaces = {w1}
    Paths = {p1}
    UseAnchor = TRUE
    FirstQuiet = 1
    MinInterval = 2
    MaxDirty = 3
    PublishQuiet = 1
    MaxPublish = 2
    Threshold = 2
    MaxGeneration = 1
    MaxQueue = 1
INVARIANT NoEditForgotten
PROPERTY EditsGetProtected
