\* An index of a header whose block closes before a "//" comment; the
\* main file has its comment elsewhere.
CONSTANTS
    Files <- MC_Files
    Main = "main.cpp"
    EOF <- MC_WideEOF
    Newlines <- MC_Newlines
    CommentAt <- MC_HeaderComment
    EntryPoints = {"index"}
    Config <- MC_Request
    LspConfig <- MC_Request
    NoConfig = NoConfig
    Garbage = {3}
    RequestRanges <- MC_Ranges
    LabelLens = {6}
    MaxNodes = 2
    MaxDepth = 3
    MaxArgs = 2
    SizeBits = 20
    MaxSize = 262144
SPECIFICATION Spec
INVARIANT NoHintBeforeComment
CHECK_DEADLOCK FALSE
