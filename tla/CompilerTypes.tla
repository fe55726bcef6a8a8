--------------------------- MODULE CompilerTypes ---------------------------
(***************************************************************************)
(* Constants and data shared by the pipeline model (Compiler) and its      *)
(* abstract specification (CompilerAbstract): paths, source texts          *)
(* abstracted to preamble and body versions, preamble bounds, remapped     *)
(* buffers, CompliationParams, and the preamble boundary detector.         *)
(***************************************************************************)
EXTENDS Naturals, FiniteSets, TLC

CONSTANTS
    Workers,          \* caller threads, each building with its own instance
    Modules,          \* module names the caller may build and then import
    ModPath,          \* [Modules -> path]: where each module's PCM is written
    PchPath,          \* where the unit's PCH is written
    PreVersions,      \* contents the unit's preamble can have
    BodyVersions,     \* contents the rest of the unit can have
    PreSize,          \* [PreVersions -> Nat]: Size that ComputePreamble finds
    PreEol,           \* [PreVersions -> BOOLEAN]: PreambleEndsAtStartOfLine
    AllowIncluder,    \* the caller may ask for a PCH of a unit whose mainpath # path
    NoPath,           \* an empty path string (also a moved-from std::string)
    NoFile,           \* nothing at a path / nothing read / nothing remapped
    NoInstance,       \* a worker that holds no CompilerInstance
    None              \* no artifact kept / no result yet

ASSUME ModPath \in [Modules -> STRING \ {PchPath}]
ASSUME \A v \in PreVersions : PreSize[v] \in Nat /\ PreEol[v] \in BOOLEAN
ASSUME AllowIncluder \in BOOLEAN

-----------------------------------------------------------------------------
Paths == {PchPath} \cup {ModPath[m] : m \in Modules}

Text == [pre : PreVersions, body : BodyVersions]

\* clang::PreambleBounds
Bounds == [Size : Nat, PreambleEndsAtStartOfLine : BOOLEAN]
NoBounds == [Size |-> 0, PreambleEndsAtStartOfLine |-> FALSE]

\* A remapped MemoryBuffer: a prefix of a text, its preamble or all of it.
Buffer == [src : Text, upto : {"preamble", "end"}]
Whole(t) == [src |-> t, upto |-> "end"]

\* A partial function from module names (the pcms map, PrebuiltModuleFiles).
ModuleMaps == UNION {[D -> Paths \cup {NoPath}] : D \in SUBSET Modules}

Params == [content : Text, mainIsPath : BOOLEAN, pch : Paths \cup {NoPath},
           bounds : Bounds, pcms : ModuleMaps, outpath : Paths]

Kinds == {"ParseSyntaxOnly", "GeneratePCH", "GenerateReducedModuleInterface"}
Entries == {"buildAST", "buildPCH", "buildPCM", "codeCompleteAt"}

\* Mutant: an off-by-one in the preamble size.
ComputePreambleOffByOne(t) ==
    [Size |-> PreSize[t.pre] - 1, PreambleEndsAtStartOfLine |-> PreEol[t.pre]]

\* Lexer::ComputePreamble over the unit's own text.
ComputePreamble(t) ==
    [Size |-> PreSize[t.pre], PreambleEndsAtStartOfLine |-> PreEol[t.pre]]

=============================================================================
