------------------------- MODULE InlayHintCollector -------------------------
(***************************************************************************)
(* InlayHintCollector of src/src/Feature/InlayHint.cpp: a                  *)
(* RecursiveASTVisitor that walks the translation unit in pre-order and    *)
(* pushes hints into a map FileID -> vector<InlayHint>, driven by the two  *)
(* inlayHints entry points (an LSP request: main file only, within the     *)
(* requested range, texts shrunk; an index: every file, every option) and  *)
(* followed by toLspType, which filters and shrinks the hints of a file.  *)
(*                                                                         *)
(* The tree is not fixed in advance: the traversal meets it one node at a  *)
(* time.  Entering a node picks its kind, its source range (inside its     *)
(* parent, after its previous sibling) and the attributes the handlers     *)
(* test, then runs the handler RecursiveASTVisitor calls for it; leaving   *)
(* it returns to the parent.  So every tree within the bounds is walked.   *)
(* A source location is a file and an offset; a file's lines are given by  *)
(* the offsets of its newlines.  A hint text is its length.                *)
(***************************************************************************)
EXTENDS InlayHintOption, SequencesExt

CONSTANTS
    Files,          \* the main file and the headers it includes
    Main,           \* the main FileID
    EntryPoints,    \* the inlayHints entry points called: "request", "index"
    EOF,            \* [Files -> Nat]: the size of each file
    Newlines,       \* [Files -> SUBSET Nat]: offsets of '\n' in each file
    CommentAt,      \* [Files -> SUBSET Nat]: offsets where the rest of the line is a comment
    Config,         \* the request's config::InlayHintOption
    LspConfig,      \* the optional config given to toLspType, or NoConfig
    NoConfig,
    Garbage,        \* values config->maxLength may read from an empty optional
    RequestRanges,  \* the requested ranges, as offset pairs of the main file
    LabelLens,      \* the lengths a hint text may have
    MaxNodes,       \* bound on the nodes of the tree
    MaxDepth,       \* bound on its depth
    MaxArgs         \* bound on the arguments of a call and the elements of a list

ASSUME Main \in Files /\ EOF \in [Files -> Nat] /\ EntryPoints \subseteq {"request", "index"}
ASSUME Config \in Option /\ (LspConfig = NoConfig \/ LspConfig \in Option)

VARIABLES
    phase,   \* "idle", "collect", "done", "converted", "thrown" or "crashed"
    onlyMain, \* the collector's onlyMain: TRUE for a request, FALSE for an index
    limit,   \* the collector's restrict range
    stack,   \* the nodes being traversed, outermost first
    tuNext,  \* [Files -> Nat]: where the next top-level declaration may begin
    opened,  \* how many nodes the traversal has met
    result,  \* the collector's Storage: [Files -> Seq(Hint)]
    lsp      \* what toLspType returned

vars == <<phase, onlyMain, limit, stack, tuNext, opened, result, lsp>>

-----------------------------------------------------------------------------
(* Data                                                                    *)

\* CallExpr, CXXOperatorCallExpr, CXXMemberCallExpr, CXXConstructExpr.
CallKinds == {"call", "opcall", "membercall", "construct"}

NodeKinds == {"namespace", "tag", "function", "var", "lambda", "initlist"} \cup CallKinds

\* The nodes TraverseDecl is called for; the others are expressions.
DeclKinds == {"namespace", "tag", "function", "var"}

\* Which nodes may appear directly inside which: declarations at namespace
\* and class scope; local declarations and expressions in bodies; the
\* initializer of a variable; lambdas as call arguments.
Kids == LET body == {"tag", "var", "lambda", "initlist"} \cup CallKinds
            arg  == {"lambda"}
        IN  [tu |-> {"namespace", "tag", "function", "var"},
             namespace |-> {"namespace", "tag", "function", "var"},
             tag |-> {"tag", "function", "var"},
             function |-> body, lambda |-> body,
             var |-> {"lambda", "initlist"} \cup CallKinds,
             call |-> arg, opcall |-> arg, membercall |-> arg, construct |-> arg,
             initlist |-> {}]

\* An argument of a call or an element of an initializer list: where it
\* begins, and what the handler sees of it ("hint": to be hinted; "skip":
\* needHintArgument is false, or the element is designated or preceded by
\* a /*comment*/; "tail": a pack expansion or a default argument).
Slot == [at : Nat, what : {"hint", "skip", "tail"}]

Frame == [kind : NodeKinds, file : Files, b : Nat, e : Nat, next : Nat, slots : Seq(Slot)]

\* A hint: InlayHint{kind, offset, lable}; file is the FileID of the
\* SourceLocation the offset was decomposed from, and idx the number an
\* ArrayIndex label prints.
Hint == [kind : Kinds, file : Files, at : Nat, len : Nat \cup {LengthError}, idx : Nat]

LspHint == [kind : {"Type", "Parameter"}, at : Nat, len : Nat \cup {LengthError}]

Cfg == IF onlyMain THEN Config ELSE EnableAll

\* The line of an offset in a file (SourceConverter::toPosition).
LineOf(f, o) == Cardinality({n \in Newlines[f] : n < o})

-----------------------------------------------------------------------------
(* Helpers of the collector                                                *)

\* needFilter: in request mode a declaration outside the main file, or
\* outside the restrict range, is skipped with its whole subtree.
NeedFilter(s) ==
    /\ onlyMain
    /\ \/ s.file # Main
       \/ s.e < limit.begin \/ s.b > limit.end

\* tryShrinkHintText
TryShrinkHintText(len) == IF onlyMain THEN ShrinkHintText(len, Cfg.maxLength) ELSE len

\* The FileID a hint is stored under: the main file in request mode, the
\* file of its location otherwise.
HintFile(f) == IF onlyMain THEN Main ELSE f

\* A hint as the collect functions build it, its text shrunk.
MkHint(kind, f, at, len) ==
    [kind |-> kind, file |-> f, at |-> at, len |-> TryShrinkHintText(len), idx |-> 0]

\* collectAutoDeclTypeHint: a ": T" hint at the end of the identifier.
CollectAutoDeclTypeHint(f, at, len, kind) == MkHint(kind, f, at, len)

\* collectReturnTypeHint: a "-> T" hint after the parameter list.
CollectReturnTypeHint(f, at, len, kind) == MkHint(kind, f, at, len)

\* isMultiLineRange
IsMultiLineRange(s) == LineOf(s.file, s.b) < LineOf(s.file, s.e)

\* needHintArgument with takeExprIdentifier, hasHandWriteComment and the
\* parameter name test, as the argument's "what".
NeedHintArgument(a) == a.what = "hint"

\* collectArgumentHint: parameters and arguments are paired in order up to
\* the shorter list, and the pairing stops at a pack expansion or a default
\* argument; a pair is hinted when needHintArgument holds.
CollectArgumentHint(nParams, args, kind, f, len) ==
    LET tails == {i \in 1..Len(args) : args[i].what = "tail"}
        upto  == IF tails = {} THEN Min({nParams, Len(args)})
                 ELSE Min({nParams, Min(tails) - 1})
        paired == SelectSeq(SubSeq(args, 1, upto), NeedHintArgument)
    IN  [i \in DOMAIN paired |-> MkHint(kind, f, paired[i].at, len)]

\* collectArrayElemIndexHint: the label "[index]=" is not shrunk.
CollectArrayElemIndexHint(f, index, at) ==
    [kind |-> "ArrayIndex", file |-> f, at |-> at,
     len |-> 3 + (IF index < 10 THEN 1 ELSE 2), idx |-> index]

\* The loop of VisitInitListExpr from element i on, count elements hinted
\* so far: skipped elements are passed over, the loop breaks when
\* count++ >= maxArrayElements, and a hint is labelled with the
\* incremented count.
RECURSIVE IndexHints(_, _, _, _)
IndexHints(f, elems, i, count) ==
    IF i > Len(elems) THEN <<>>
    ELSE IF elems[i].what # "hint" THEN IndexHints(f, elems, i + 1, count)
    ELSE IF count >= Cfg.maxArrayElements THEN <<>>
    ELSE <<CollectArrayElemIndexHint(f, count + 1, elems[i].at)>>
             \o IndexHints(f, elems, i + 1, count + 1)

\* Mutant: the location is two past the brace.
RightOfBraceFar(e) == e + 2

\* getLocWithOffset(1) of a closing brace.
RightOfBrace(e) == e + 1

\* collectBlockEndHint into the vector st: nothing when the rest of the
\* line already starts with a comment (read from the main file's text at
\* the location's offset); otherwise, when the vector's last hint is on
\* the same line (its line computed in the main file's text), Ignore keeps
\* the old hint and Replace pops it; then the new hint is pushed.
CollectBlockEndHint(st, f, at, kind, len, decision) ==
    LET h == MkHint(kind, f, at, len)
        sameLine == /\ decision # "AcceptBoth"
                    /\ st # <<>>
                    /\ LineOf(Main, Last(st).at) = LineOf(f, at)
    IN  CASE at \in CommentAt[Main]             -> st
          [] sameLine /\ decision = "Ignore"    -> st
          [] sameLine /\ decision = "Replace"   -> Append(Front(st), h)
          [] OTHER                              -> Append(st, h)

\* collectStructSizeAndAlign: only for a struct or a class.
CollectStructSizeAndAlign(f, at, len, sized) ==
    IF sized THEN <<MkHint("StructSizeAndAlign", f, at, len)>> ELSE <<>>

-----------------------------------------------------------------------------
(* Traversal                                                               *)

Parent == IF stack = <<>> THEN "tu" ELSE Last(stack).kind

\* Where a call's i-th argument ends at the latest.
SlotEnd(F, i) == IF i < Len(F.slots) THEN F.slots[i + 1].at - 1 ELSE F.e

\* The last offset a child of F may cover: a block's closing brace is its
\* own, an expression or a variable ends with its last operand.
LastInside(F) == IF F.kind \in {"var", "initlist"} \cup CallKinds THEN F.e ELSE F.e - 1

\* The source ranges the next child may have.
Spans ==
    IF stack = <<>>
    THEN UNION {{[file |-> f, b |-> b, e |-> e] : b \in tuNext[f]..(EOF[f] - 1),
                                                  e \in 0..(EOF[f] - 1)} : f \in Files}
    ELSE LET F == Last(stack) IN
         IF F.kind \in CallKinds
         THEN UNION {{[file |-> F.file, b |-> F.slots[i].at, e |-> e] : e \in 0..SlotEnd(F, i)} :
                        i \in {j \in DOMAIN F.slots : F.slots[j].at >= F.next}}
         ELSE {[file |-> F.file, b |-> b, e |-> e] : b \in F.next..LastInside(F),
                                                     e \in 0..LastInside(F)}

\* The slot sequences of a node at s: increasing offsets after its
\* beginning.
SlotSeqs(s) ==
    LET Offsets == {p \in UNION {[1..n -> (s.b + 1)..s.e] : n \in 0..MaxArgs} :
                        \A i \in 1..(Len(p) - 1) : p[i] < p[i + 1]}
    IN  UNION {[1..Len(p) -> {"hint", "skip", "tail"}] \X {p} : p \in Offsets}

MkSlots(pair) == [i \in DOMAIN pair[2] |-> [at |-> pair[2][i], what |-> pair[1][i]]]

\* The ranges a node of this kind may be entered with now.
Entering(kind) ==
    IF /\ phase = "collect"
       /\ opened < MaxNodes
       /\ Len(stack) < MaxDepth
       /\ kind \in Kids[Parent]
    THEN {s \in Spans : s.b <= s.e}
    ELSE {}

\* Push the node on the traversal stack.
Enter(kind, s, slots) ==
    /\ stack' = Append(stack, [kind |-> kind, file |-> s.file, b |-> s.b, e |-> s.e,
                               next |-> s.b + 1, slots |-> slots])
    /\ opened' = opened + 1
    /\ UNCHANGED <<tuNext, onlyMain>>

\* Some text of the hints hs could not be shrunk.
Throws(hs) == \E i \in DOMAIN hs : hs[i].len = LengthError

\* Store the hint vector of file k; an exception out of a shrink ends the
\* request.
Store(k, st) ==
    /\ result' = [result EXCEPT ![k] = st]
    /\ phase' = IF Throws(st) THEN "thrown" ELSE phase

Request ==
    /\ phase = "idle"
    /\ "request" \in EntryPoints
    /\ onlyMain' = TRUE
    /\ \E r \in RequestRanges :
          limit' = IF r.begin >= r.end THEN [begin |-> 0, end |-> EOF[Main]] ELSE r
    /\ phase' = "collect"
    /\ UNCHANGED <<stack, tuNext, opened, result, lsp>>

IndexRequest ==
    /\ phase = "idle"
    /\ "index" \in EntryPoints
    /\ onlyMain' = FALSE
    /\ phase' = "collect"
    /\ UNCHANGED <<limit, stack, tuNext, opened, result, lsp>>

\* TraverseDecl returning early: the declaration and its subtree are not
\* visited.
TraverseDeclFiltered ==
    \E kind \in DeclKinds : \E s \in Entering(kind) :
        /\ NeedFilter(s)
        /\ IF stack = <<>> THEN /\ tuNext' = [tuNext EXCEPT ![s.file] = s.e + 1]
                                /\ UNCHANGED stack
                           ELSE /\ stack' = [stack EXCEPT ![Len(stack)].next = s.e + 1]
                                /\ UNCHANGED tuNext
        /\ opened' = opened + 1
        /\ UNCHANGED <<phase, onlyMain, limit, result, lsp>>

VisitNamespaceDecl ==
    \E s \in Entering("namespace"), anonymous \in BOOLEAN, len \in LabelLens :
        LET st == result[HintFile(s.file)] IN
        /\ ~NeedFilter(s)
        /\ Enter("namespace", s, <<>>)
        /\ Store(HintFile(s.file),
                 IF Cfg.blockEnd /\ ~anonymous /\ IsMultiLineRange(s)
                 THEN CollectBlockEndHint(st, s.file, RightOfBrace(s.e), "NamespaceEnd",
                                          len, "Replace")
                 ELSE st)
        /\ UNCHANGED <<limit, lsp>>

VisitTagDecl ==
    \E s \in Entering("tag"), definition, sized \in BOOLEAN, len \in LabelLens :
        LET st == result[HintFile(s.file)]
            st1 == IF Cfg.blockEnd /\ IsMultiLineRange(s)
                   THEN CollectBlockEndHint(st, s.file, RightOfBrace(s.e), "TagDeclEnd",
                                            len, "Ignore")
                   ELSE st
            st2 == IF Cfg.structSizeAndAlign
                   THEN st1 \o CollectStructSizeAndAlign(s.file, s.b, len, sized)
                   ELSE st1
        IN  /\ ~NeedFilter(s)
            /\ Enter("tag", s, <<>>)
            /\ IF definition THEN Store(HintFile(s.file), st2)
                             ELSE UNCHANGED <<phase, result>>
            /\ UNCHANGED <<limit, lsp>>

VisitFunctionDecl ==
    \E s \in Entering("function"), definition \in BOOLEAN, ret \in {"plain", "auto", "trailing"},
       len \in LabelLens :
        LET st == result[HintFile(s.file)]
            st1 == IF Cfg.blockEnd /\ definition /\ IsMultiLineRange(s)
                   THEN CollectBlockEndHint(st, s.file, RightOfBrace(s.e), "FunctionEnd",
                                            len, "Ignore")
                   ELSE st
            st2 == IF Cfg.returnType /\ ret = "auto"
                   THEN Append(st1, CollectReturnTypeHint(s.file, s.b, len,
                                                          "FunctionReturnType"))
                   ELSE st1
        IN  /\ ~NeedFilter(s)
            /\ Enter("function", s, <<>>)
            /\ Store(HintFile(s.file), st2)
            /\ UNCHANGED <<limit, lsp>>

\* shape: "other" (neither local nor file-scope), "plain" (or dependent),
\* "auto", or a structured binding with that many bindings whose type is
\* not dependent.
VisitVarDecl ==
    \E s \in Entering("var"), shape \in {"other", "plain", "auto", "binding"}, bindings \in 1..2,
       len \in LabelLens :
        LET k == HintFile(s.file)
            st == result[k]
            new == CASE shape = "binding" ->
                          [i \in 1..bindings |-> CollectAutoDeclTypeHint(s.file, s.b, len,
                                                                      "StructureBinding")]
                     [] shape = "auto" ->
                          <<CollectAutoDeclTypeHint(s.file, s.b, len, "AutoDecl")>>
                     [] OTHER -> <<>>
        IN  /\ ~NeedFilter(s)
            /\ Enter("var", s, <<>>)
            /\ IF shape # "other" /\ Cfg.dedcucedType
               THEN Store(k, st \o new) ELSE UNCHANGED <<phase, result>>
            /\ UNCHANGED <<limit, lsp>>

VisitLambdaExpr ==
    \E s \in Entering("lambda"), explicitResult \in BOOLEAN, len \in LabelLens :
        LET st == result[HintFile(s.file)]
            st1 == IF Cfg.blockEnd /\ IsMultiLineRange(s)
                   THEN CollectBlockEndHint(st, s.file, RightOfBrace(s.e), "LambdaBodyEnd",
                                            len, "Replace")
                   ELSE st
            st2 == IF Cfg.returnType /\ ~explicitResult
                   THEN Append(st1, CollectReturnTypeHint(s.file, s.b, len,
                                                          "LambdaReturnType"))
                   ELSE st1
        IN  /\ Enter("lambda", s, <<>>)
            /\ Store(HintFile(s.file), st2)
            /\ UNCHANGED <<limit, lsp>>

\* The common part of the call handlers: when the handler's early returns
\* let the call through (hinted), its arguments are hinted.
CallHints(node, s, hinted, nParams, slots, kind, len) ==
    LET k == HintFile(s.file) IN
    /\ Enter(node, s, slots)
    /\ IF Cfg.paramName /\ hinted
       THEN Store(k, result[k] \o CollectArgumentHint(nParams, slots, kind, s.file, len))
       ELSE UNCHANGED <<phase, result>>
    /\ UNCHANGED <<limit, lsp>>

\* llvm::dyn_cast of a null Decl*: an assertion failure, or in a release
\* build a read through the null pointer; either way the process ends.
DynCastNull ==
    /\ phase' = "crashed"
    /\ UNCHANGED <<onlyMain, limit, stack, tuNext, opened, result, lsp>>

\* What getCalleeDecl gives a CallExpr: a FunctionDecl or a
\* FunctionTemplateDecl; another declaration (a variable) whose type is a
\* function prototype, or is not one; nullptr (the callee is itself a call,
\* or an unresolved name in a template). Builtins like std::move and
\* user-defined literals return before it is read.
CallExprCallees == {"function", "pointer", "noproto", "null", "builtin", "udl"}

\* VisitCallExpr: the callee's FunctionDecl or prototype gives the
\* parameters; the result of getCalleeDecl is passed to dyn_cast unchecked.
VisitCallExpr ==
    \E s \in Entering("call"), callee \in CallExprCallees, nParams \in 0..MaxArgs,
       len \in LabelLens :
        \/ /\ callee = "null" /\ Cfg.paramName
           /\ DynCastNull
        \/ /\ callee # "null" \/ ~Cfg.paramName
           /\ \E sl \in SlotSeqs(s) :
                CallHints("call", s, callee \in {"function", "pointer"}, nParams,
                          MkSlots(sl), "Parameter", len)

\* The operator of a CXXOperatorCallExpr: operator() and operator[] with a
\* callee method, an operator[] whose callee is an unresolved lookup (a
\* type-dependent index in a template: getCalleeDecl is nullptr), or any
\* other operator.
OperatorCallees == {"call", "subscript", "dependent", "other"}

\* VisitCXXOperatorCallExpr: operator() and operator[] with other than one
\* argument are hinted, the object argument dropped; the callee method is
\* used unchecked.
VisitCXXOperatorCallExpr ==
    \E s \in Entering("opcall"), op \in OperatorCallees, nParams \in 0..MaxArgs,
       len \in LabelLens :
        \/ /\ op = "dependent" /\ Cfg.paramName
           /\ DynCastNull
        \/ /\ op # "dependent" \/ ~Cfg.paramName
           /\ \E sl \in SlotSeqs(s) :
                CallHints("opcall", s, op \in {"call", "subscript"}, nParams, MkSlots(sl),
                          "Parameter", len)

\* What getCalleeDecl gives a CXXMemberCallExpr: a method, a simple setter
\* (setX(x)), or, for a call through a pointer to member ((o.*pm)(x)), the
\* variable pm, which dyn_cast<FunctionDecl> turns into nullptr.
MemberCallees == {"method", "setter", "ptrmem"}

\* VisitCXXMemberCallExpr: simple setters are not hinted; the callee is
\* passed to dyn_cast<CXXConstructorDecl> unchecked.
VisitCXXMemberCallExpr ==
    \E s \in Entering("membercall"), callee \in MemberCallees, nParams \in 0..MaxArgs,
       len \in LabelLens :
        \/ /\ callee = "ptrmem" /\ Cfg.paramName
           /\ DynCastNull
        \/ /\ callee # "ptrmem" \/ ~Cfg.paramName
           /\ \E sl \in SlotSeqs(s) :
                CallHints("membercall", s, callee = "method", nParams, MkSlots(sl),
                          "Parameter", len)

\* VisitCXXConstructExpr: a construction without an argument list, or
\* through a std::initializer_list constructor, is not hinted.
VisitCXXConstructExpr ==
    \E s \in Entering("construct"), form \in {"parens", "braces", "none", "initlist"},
       nParams \in 0..MaxArgs, len \in LabelLens :
        \E sl \in SlotSeqs(s) :
            CallHints("construct", s, form \in {"parens", "braces"}, nParams, MkSlots(sl),
                      "Constructor", len)

VisitInitListExpr ==
    \E s \in Entering("initlist") :
        \E sl \in SlotSeqs(s) :
            LET k == HintFile(s.file)
                elems == [i \in DOMAIN sl[2] |->
                            [at |-> sl[2][i], what |-> IF sl[1][i] = "tail" THEN "skip"
                                                       ELSE sl[1][i]]]
            IN  /\ Enter("initlist", s, elems)
                /\ Store(k, result[k] \o IndexHints(s.file, elems, 1, 0))
                /\ UNCHANGED <<limit, lsp>>

\* The traversal of the innermost node ends; its parent goes on after it.
Leave ==
    /\ phase = "collect"
    /\ stack # <<>>
    /\ LET F == Last(stack) IN
       IF Len(stack) = 1
       THEN /\ tuNext' = [tuNext EXCEPT ![F.file] = F.e + 1]
            /\ stack' = <<>>
       ELSE /\ stack' = [Front(stack) EXCEPT ![Len(stack) - 1].next = F.e + 1]
            /\ UNCHANGED tuNext
    /\ UNCHANGED <<phase, onlyMain, limit, opened, result, lsp>>

\* TraverseTranslationUnitDecl returns.
Finish ==
    /\ phase = "collect"
    /\ stack = <<>>
    /\ phase' = "done"
    /\ UNCHANGED <<onlyMain, limit, stack, tuNext, opened, result, lsp>>

\* toLspType of one hint: its kind mapped to the LSP kind, its one label
\* shrunk to maxHintLength.
ToLspHint(h, m) == [kind |-> ToLspKind(h.kind), at |-> h.at, len |-> ShrinkHintText(h.len, m)]

\* toLspType over the main file's hints: with a config, hints whose kind it
\* disables are dropped; every label is shrunk to config->maxLength, read
\* from the optional whether it holds a value or not.
ToLspType ==
    /\ phase = "done"
    /\ \E m \in IF LspConfig = NoConfig THEN Garbage ELSE {LspConfig.maxLength} :
          LET kept == SelectSeq(result[Main], LAMBDA h : LspConfig = NoConfig
                                   \/ IsAvailableWithOption(h.kind, LspConfig))
              out == [i \in DOMAIN kept |-> ToLspHint(kept[i], m)]
          IN  /\ lsp' = out
              /\ phase' = IF Throws(out) THEN "thrown" ELSE "converted"
    /\ UNCHANGED <<onlyMain, limit, stack, tuNext, opened, result>>

-----------------------------------------------------------------------------
(* Specification                                                           *)

Init ==
    /\ phase = "idle"
    /\ onlyMain = TRUE
    /\ limit = [begin |-> 0, end |-> 0]
    /\ stack = <<>>
    /\ tuNext = [f \in Files |-> 0]
    /\ opened = 0
    /\ result = [f \in Files |-> <<>>]
    /\ lsp = <<>>

Next ==
    \/ Request \/ IndexRequest
    \/ TraverseDeclFiltered
    \/ VisitNamespaceDecl \/ VisitTagDecl \/ VisitFunctionDecl \/ VisitVarDecl
    \/ VisitLambdaExpr \/ VisitCallExpr \/ VisitCXXOperatorCallExpr
    \/ VisitCXXMemberCallExpr \/ VisitCXXConstructExpr \/ VisitInitListExpr
    \/ Leave \/ Finish \/ ToLspType

Spec == Init /\ [][Next]_vars


-----------------------------------------------------------------------------
(* Properties                                                              *)

TypeOK ==
    /\ phase \in {"idle", "collect", "done", "converted", "thrown", "crashed"}
    /\ onlyMain \in BOOLEAN
    /\ limit \in [begin : Nat, end : Nat]
    /\ stack \in Seq(Frame)
    /\ tuNext \in [Files -> Nat]
    /\ opened \in 0..MaxNodes
    /\ result \in [Files -> Seq(Hint)]
    /\ \A f \in Files : \A i \in DOMAIN result[f] :
          result[f][i].at <= EOF[result[f][i].file]
    /\ lsp \in Seq(LspHint)

\* The block-end de-duplication of collectBlockEndHint (the comments on
\* DecideDuplicated: of nested blocks closing on one line only the inner
\* (Replace) or the outer (Ignore) one is hinted) leaves at most one
\* block-end hint on any line of a file.
OneBlockEndPerLine ==
    \A f \in Files : \A i, j \in DOMAIN result[f] :
        /\ i < j
        /\ result[f][i].kind \in BlockEndKinds
        /\ result[f][j].kind \in BlockEndKinds
        => LineOf(result[f][i].file, result[f][i].at)
              # LineOf(result[f][j].file, result[f][j].at)

\* The only hint collectBlockEndHint's Replace ever pops off a file's
\* vector is a block-end hint it supersedes; hints of other kinds are never
\* removed once pushed.
ReplaceOnlyBlockEnd ==
    [][\A f \in Files : ~IsPrefix(result[f], result'[f]) =>
          Last(result[f]).kind \in BlockEndKinds]_vars

\* A hint that Replace pops is on the same line, in its own file, as the
\* block-end hint that replaces it.
ReplaceOnSameLine ==
    [][\A f \in Files : ~IsPrefix(result[f], result'[f]) =>
          LET old == Last(result[f])
              new == Last(result'[f])
          IN  LineOf(old.file, old.at) = LineOf(new.file, new.at)]_vars

\* The step that visits an initializer list, and the hints it adds.
ListVisited == Len(stack') = Len(stack) + 1 /\ Last(stack').kind = "initlist"
Added == LET k == HintFile(Last(stack').file)
         IN  SubSeq(result'[k], Len(result[k]) + 1, Len(result'[k]))

\* VisitInitListExpr hints the elements that are neither designated nor
\* commented, as many as config.maxArrayElements and all of them when it
\* is zero ("Hint for all elements if it's zero").
ArrayIndexHintsShown ==
    [][ListVisited =>
          LET n == Len(SelectSeq(Last(stack').slots, NeedHintArgument))
              m == Cfg.maxArrayElements
          IN  Len(Added) = IF m = 0 THEN n ELSE Min({n, m})]_vars

\* No block-end hint is shown where the rest of its line, in its own file,
\* already is a comment: collectBlockEndHint returns early when "Already
\* has a comment in that line", as for "} // namespace ns" closing a
\* namespace, which the hint would only repeat.
NoHintBeforeComment ==
    \A f \in Files : \A i \in DOMAIN result[f] :
        result[f][i].kind \in BlockEndKinds =>
            result[f][i].at \notin CommentAt[result[f][i].file]

\* The traversal of every translation unit returns: no Visit handler
\* dereferences a null callee declaration (VisitCallExpr on a call whose
\* callee is not a declaration, VisitCXXOperatorCallExpr on an unresolved
\* operator[], VisitCXXMemberCallExpr on a call through a pointer to
\* member).
CollectorReturns == phase # "crashed"

\* No hint text makes shrinkHintText throw: a maxLength of zero keeps the
\* entire text (the documentation of InlayHintOption::maxLength).
NoLengthError == phase # "thrown"

=============================================================================
