SPECIFICATION IncSpec
CONSTANTS
    file = file
    chunk1 = chunk1
    chunk2 = chunk2
    outside = outside
    line1 = line1
    line2 = line2
    Plain = {chunk1, chunk2}
    Files = {file}
    Unsafe = {outside}
    Inputs <- MCInputs
    MaxDepth = 2
    Fences <- MCFences
    Headings <- MCHeadings
    MarkdownFences <- MCMarkdownFences
    MarkdownHeadings <- MCMarkdownHeadings
    LintFences <- MCLintFences
    LintCloses <- MCLintCloses
    Trivial <- MCTrivial
    Settings <- MCSettings
    Projects <- MCProjects
    Revisions <- MCRevisions
    Reports <- MCReports
    Added <- MCAdded
    MaxPasses = 2
    MaxTop = 2
INVARIANTS
    DefinitionsMatchText
    MapPointsAtText
    DepsExact
    FailsExactly
    ExpansionIsSubstitution
    LintedDefinitionsHold
    SkippedFilesAreFresh
    MapFitsFormattedFile
    LinesUnderTheirSection
    EveryRecordCounted
CHECK_DEADLOCK FALSE
