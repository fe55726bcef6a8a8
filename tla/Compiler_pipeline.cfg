\* One caller thread; PCH requests may name an included unit (the process
\* then terminates, so a stop is a real end of the system).
CONSTANTS
    Workers = {w1}
    Modules <- MC_Modules
    ModPath <- MC_ModPath
    PchPath = "u.pch"
    PreVersions <- MC_PreVersions
    BodyVersions <- MC_BodyVersions
    PreSize <- MC_PreSize
    PreEol <- MC_PreEol
    AllowIncluder = TRUE
    NoPath = NoPath
    NoFile = NoFile
    NoInstance = NoInstance
    None = None
SPECIFICATION Spec
INVARIANT TypeOK
INVARIANT ReusedPreambleMatches
INVARIANT TreeBuildHasTokens
CHECK_DEADLOCK FALSE
