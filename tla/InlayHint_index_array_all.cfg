\* Initializer lists in an index, collected with maxArrayElements 0.
CONSTANTS
    Files <- MC_Files
    Main = "main.cpp"
    EOF <- MC_EOF
    Newlines <- MC_Newlines
    CommentAt <- MC_CommentAt
    EntryPoints = {"index"}
    Config <- MC_Request
    LspConfig <- MC_Request
    NoConfig = NoConfig
    Garbage = {3}
    RequestRanges <- MC_Ranges
    LabelLens = {6}
    MaxNodes = 3
    MaxDepth = 3
    MaxArgs = 2
    SizeBits = 20
    MaxSize = 262144
SPECIFICATION Spec
PROPERTY ArrayIndexHintsShown
CHECK_DEADLOCK FALSE
