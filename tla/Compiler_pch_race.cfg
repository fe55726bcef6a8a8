\* Two caller threads share the PCH output path of the unit.
CONSTANTS
    Workers = {w1, w2}
    Modules <- MC_NoModules
    ModPath <- MC_NoModPath
    PchPath = "u.pch"
    PreVersions <- MC_TwoPreVersions
    BodyVersions <- MC_OneBody
    PreSize <- MC_PreSize
    PreEol <- MC_PreEol
    AllowIncluder = FALSE
    NoPath = NoPath
    NoFile = NoFile
    NoInstance = NoInstance
    None = None
SPECIFICATION Spec
INVARIANT ReusedPreambleMatches
