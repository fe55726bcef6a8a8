\* Two nested blocks closing on one line, with a hint between their openings.
CONSTANTS
    Files <- MC_Files
    Main = "main.cpp"
    EOF <- MC_WideEOF
    Newlines <- MC_Newlines
    CommentAt <- MC_CommentAt
    EntryPoints = {"request"}
    Config <- MC_Request
    LspConfig <- MC_Request
    NoConfig = NoConfig
    Garbage = {3}
    RequestRanges <- MC_Ranges
    LabelLens = {6}
    MaxNodes = 3
    MaxDepth = 3
    MaxArgs = 2
    SizeBits = 20
    MaxSize = 262144
SPECIFICATION Spec
INVARIANT OneBlockEndPerLine
CHECK_DEADLOCK FALSE
