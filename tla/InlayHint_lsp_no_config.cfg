\* toLspType called without a config: the empty optional's maxLength is read.
CONSTANTS
    Files <- MC_Files
    Main = "main.cpp"
    EOF <- MC_EOF
    Newlines <- MC_Newlines
    CommentAt <- MC_CommentAt
    EntryPoints = {"request"}
    Config <- MC_Request
    LspConfig = NoConfig
    NoConfig = NoConfig
    Garbage = {0, 30}
    RequestRanges <- MC_Ranges
    LabelLens = {6}
    MaxNodes = 3
    MaxDepth = 3
    MaxArgs = 2
    SizeBits = 20
    MaxSize = 262144
SPECIFICATION Spec
INVARIANT NoLengthError
CHECK_DEADLOCK FALSE
