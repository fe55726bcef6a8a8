\* A PCH request for an included unit: buildPCH calls std::terminate.
CONSTANTS
    Workers = {w1}
    Modules <- MC_Modules
    ModPath <- MC_ModPath
    PchPath = "u.pch"
    PreVersions <- MC_PreVersions
    BodyVersions <- MC_BodyVersions
    PreSize <- MC_PreSize
    PreEol <- MC_PreEol
    AllowIncluder = TRUE
    NoPath = NoPath
    NoFile = NoFile
    NoInstance = NoInstance
    None = None
SPECIFICATION Spec
PROPERTY RequestAnswered
CHECK_DEADLOCK FALSE
