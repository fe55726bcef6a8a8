\* A request over one file: a call whose callee is not a declaration, or a
\* call through a pointer to member, inside a function body.
CONSTANTS
    Files <- MC_Files
    Main = "main.cpp"
    EOF <- MC_EOF
    Newlines <- MC_Newlines
    CommentAt <- MC_CommentAt
    EntryPoints = {"request"}
    Config <- MC_Request
    LspConfig <- MC_Request
    NoConfig = NoConfig
    Garbage = {3}
    RequestRanges <- MC_Ranges
    LabelLens = {6}
    MaxNodes = 2
    MaxDepth = 3
    MaxArgs = 2
    SizeBits = 20
    MaxSize = 262144
SPECIFICATION Spec
INVARIANT CollectorReturns
CHECK_DEADLOCK FALSE
