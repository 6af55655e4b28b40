SPECIFICATION MCSpec
CONSTANTS
    RecursionLimit = 3
    LineEnds <- MCLineEnds
    Untraced = Untraced
    Files <- MCFiles
    Projects <- MCProjects
    Inputs <- MCInputs
    Probes <- MCProbes
    MaxPasses = 2
    Unknown = Unknown
    Sources <- MCSources
    Spellings <- MCSpellings
INVARIANTS
    TwinsAgree
    AttributionExact
    CallIsSubstitution
    CallsAreLocal
    Balanced
    NoFileLost
    StacksAgree
    ReadsBack
PROPERTY
    HereIsUsedUp
CHECK_DEADLOCK FALSE
