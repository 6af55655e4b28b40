SPECIFICATION Spec
CONSTANTS
    Letters = {"a", "b", "c", "d", "s", "t", "n"}
    DefOpen <- MCDefOpen
    CallOpen <- MCCallOpen
    Computed <- MCComputed
    Projects <- MCProjects
    Open <- MCOpen
    Close <- MCClose
    Retyped <- MCRetyped
    Added <- MCAdded
    Written <- MCWritten
    Hints = {0, 2}
    Window = 2
    MaxRuns = 2
PROPERTIES
    RecordedIsGenerated
    RepeatIsHarmless
    SourceEditSurvives
CHECK_DEADLOCK FALSE
