\* One caller thread that only asks for PCHs of self-contained units: every
\* call must come back (deadlock is checked: the caller can always act), and
\* the stepwise pipeline implements the atomic build of CompilerAbstract.
CONSTANTS
    Workers = {w1}
    Modules <- MC_Modules
    ModPath <- MC_ModPath
    PchPath = "u.pch"
    PreVersions <- MC_PreVersions
    BodyVersions <- MC_BodyVersions
    PreSize <- MC_PreSize
    PreEol <- MC_PreEol
    AllowIncluder = FALSE
    NoPath = NoPath
    NoFile = NoFile
    NoInstance = NoInstance
    None = None
SPECIFICATION Spec
PROPERTY RequestAnswered
PROPERTY ImplementsAbstract
