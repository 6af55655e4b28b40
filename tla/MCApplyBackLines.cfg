SPECIFICATION Spec
CONSTANTS
    Letters = {"a", "b", "c", "d", "s", "t", "n"}
    DefOpen <- MCDefOpen
    CallOpen <- MCCallOpen
    Computed <- MCComputed
    Projects <- MCOneFile
    Open <- MCOpen
    Close <- MCClose
    Retyped <- MCRetyped
    Added <- MCAdded
    Written <- MCWritten
    Hints = {0}
    Window = 2
    MaxRuns = 1
PROPERTY
    NextTangleProceeds
CHECK_DEADLOCK FALSE
