SPECIFICATION MCSpec
CONSTANTS
    b1 = b1
    s1 = s1
    s2 = s2
    Tabs = {b1}
    Streams = {s1, s2}
    Sessions <- MCSessions
    ChanCap = 1
    SockCap = 1
    MaxWrites = 3
    Files <- MCFiles
    Panels <- MCPanels
    Target <- MCTarget
    Root <- MCRoot
    Inputs <- MCInputs
    NewBodies <- MCNewBodies
    Notes <- MCNotes
    Frame <- MCFrame
    Setups <- MCSetups
    Prose <- MCProse
    Names <- MCNames
PROPERTY DocsFollowSources
CHECK_DEADLOCK FALSE
