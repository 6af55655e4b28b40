SPECIFICATION Spec
CONSTANTS
    Langs = {"rust"}
    NoLang = "none"
    MaxServers = 3
    Worlds <- MCWorlds
INVARIANTS
    AnswersFit
    ServersAreKept
    NoDiagnosticsLost
PROPERTIES
    ServesInOrder
    EveryRequestAnswered
CHECK_DEADLOCK FALSE
