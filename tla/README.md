# TLA+ models of clice's compilation pipeline and inlay hints

This directory holds TLA+ models of the two source files of this repository,
the TLC configurations that check them, and `PROJECT.json`, the machine-readable
index of components, runs, mutants, the definition-to-source map, findings and
hazards.

## 1. Inventory

### Sources

| file | what it is |
|---|---|
| `src/unnamed/part_000` (Compiler.cpp) | the artifact build pipeline: `createInstance`, `adjustInvocation`, `applyPreamble`, `ExecuteAction`, `buildAST`, `buildPCH`, `buildPCM`, `codeCompleteAt` |
| `src/src/Feature/InlayHint.cpp` (and its header, appended at line 862) | the inlay-hint feature: `InlayHintCollector` (a `RecursiveASTVisitor`), `isAvailableWithOption`, `inlayHints` (request and index modes), `toLspType` conversions, `config::InlayHintOption` |

### Components, their state and operations

**Session Factory** (`createInstance`, `adjustInvocation`, lines 7-34). State: a
fresh `CompilerInstance` (invocation from the argument list, diagnostics
printing to `llvm::outs()`, real file system). No failure at this level.

**Reuse Binder** (`applyPreamble`, lines 36-53). Reads the caller's
`CompliationParams` (`pch`, `bounds`, `pcms`) and writes the instance's
preprocessor options: when `bounds.Size != 0` it turns predefines off, sets
`ImplicitPCHInclude`, `PrecompiledPreambleBytes` and turns PCH validation off;
every `pcms` entry is `try_emplace`d into `PrebuiltModuleFiles`. It also
*writes* the caller's params: the `pch` path and every `pcms` path are
`std::move`d out.

**Preamble Boundary Detector** (in `buildPCH`, lines 117-125).
`Lexer::ComputePreamble` over the unit's own text when `mainpath == path`;
otherwise `std::terminate`.

**Action Executor** (`ExecuteAction`, lines 55-101). Dispatches the action
kind (an unknown kind terminates), then `createTarget`, `BeginSourceFile`
(which creates the live preprocessor and loads the implicit PCH), the token
collector attached after it when `collectPP`, `Execute`, and packaging into
an `ASTInfo`. Each of the three steps may fail with a reported error; the
instance is destroyed with it.

**Entry points** (lines 103-184). `buildAST` (remap, reuse, tokens),
`buildPCH` (bounds, output options, remaps only the preamble, no reuse),
`buildPCM` (output options, remap, reuse), `codeCompleteAt` (completion
position and consumer, remap, reuse, no tokens). The wrappers `PCHInfo` and
`PCMInfo` keep the output path, and for a PCH the content, main path and
bounds.

**Caller** (not under `src/`; spec sections 3, 4.5, 5). Keeps the unit's
buffer, fills in a `CompliationParams` per build, keeps returned PCHInfo and
PCMInfo, and is responsible for the reuse contract: reuse a PCHInfo only for
the same path and when the first `bounds.Size` bytes of the text are unchanged.
Builds may run on several threads, each with its own instance.

**Inlay hint collector** (`InlayHintCollector`, lines 29-701). State: the
result map `FileID -> vector<InlayHint>`, filled in visit order during one
pre-order traversal of the AST. Operations: `TraverseDecl` with `needFilter`
(range and main-file filter), `VisitVarDecl`, `VisitCallExpr`,
`VisitCXXOperatorCallExpr`, `VisitCXXMemberCallExpr`, `VisitCXXConstructExpr`
(argument hints through `collectArgumentHint`), `VisitFunctionDecl`,
`VisitLambdaExpr` (return-type and block-end hints), `VisitInitListExpr`
(array index hints), `VisitNamespaceDecl`, `VisitTagDecl` (block-end and
size/align hints). `collectBlockEndHint` de-duplicates block-end hints on one
line by looking at the last hint pushed (`Replace` or `Ignore`).

**Hint text and conversion** (`shrinkHintText`, `tryShrinkHintText`,
`isAvailableWithOption`, `toLspType`, lines 79-90, 705-771, 837-857). Pure
functions over strings, sizes and the option record.

**Request entry points** (`inlayHints`, lines 773-835). Request mode: the LSP
range converted to offsets, an empty or reversed range widened to the whole
main file, main-file hints only, shortened text. Index mode: all files, all
options on, no shortening.

### How they interact

Caller -> entry point -> Session Factory -> Reuse Binder -> Action Executor ->
artifact back to the caller, who stores PCH/PCM artifacts and feeds their
paths and bounds into later builds (possibly on other threads). The
artifacts' files live on the shared disk at caller-chosen paths; the PCH is
read back by `BeginSourceFile` of a later build with validation off. An
`ASTInfo` is then read by the inlay hint collector (a pure reader).

### What is hard

* Ordering across calls: the binder moves paths out of the caller's params,
  which the spec allows (params are consumed once per build call); the
  model's caller fills them in before every build.
* Concurrency: builds on several threads share the artifact files (and
  the unsynchronised `llvm::outs()`, a data race); a PCH can be rewritten between a caller's reuse check and
  the read in `BeginSourceFile`, and nothing validates it.
* Failure: three reported failure points per build, and two process aborts
  (`std::terminate`), one of them reachable.
* The visitor trusts clang's AST accessors: a callee declaration that is
  null in template bodies and unusual calls is dereferenced unchecked.
* The visitor's output depends on visit order: de-duplication looks only at
  the last hint pushed.
* Numeric edges in the hint options: `size_t` underflow of `maxLength - 3`,
  the meaning of zero for `maxLength` and `maxArrayElements`.

### Properties that make each component correct

* Pipeline with caller: an artifact built over a reused PCH read the PCH of
  its own preamble with that preamble's bounds (`ReusedPreambleMatches`).
* Executor: every call is answered (`RequestAnswered`); a successful tree
  build carries the tokens of the preprocessor `BeginSourceFile` created,
  the collector being installed after it (`TreeBuildHasTokens`).
* Collector: at most one block-end hint per line, and Replace only ever
  drops the block-end hint it supersedes, on its own line
  (`OneBlockEndPerLine`, `ReplaceOnlyBlockEnd`, `ReplaceOnSameLine`); no
  block-end hint precedes a comment on its line in its own file
  (`NoHintBeforeComment`); a list gets as many
  index hints as `maxArrayElements` says, all when it is zero
  (`ArrayIndexHintsShown`).
* Collector: every traversal returns; no handler dereferences a null
  callee (`CollectorReturns`).
* Text and conversion: no shrink throws (`NoLengthError`).

## 2. Plan

| order | module | models | status |
|---|---|---|---|
| 1 | `Compiler` + `MC_Compiler` | the pipeline with caller threads, artifacts on disk | done (sitting 1) |
| 2 | `CompilerAbstract` | a build as one atomic step returning an artifact or a failure; `Compiler` shown to refine it (`INSTANCE CompilerAbstract WITH` a mapping that hides in-flight calls) | done (sitting 1) |
| 3 | `Compiler` (extension) | the shared `llvm::outs()` diagnostic stream | dropped: see section 5 |
| 4 | `InlayHintCollector` + `MC_InlayHint` | pre-order traversal of every small tree (namespace, struct, function, variable, lambda, the four call kinds, initializer list) with all the visit handlers, `collectBlockEndHint`, `needFilter`, both entry points and `toLspType` | done (sitting 2) |
| 5 | `InlayHintOption` | kinds, `config::InlayHintOption` and its defaults, the enable-all option, `isAvailableWithOption`, `shrinkHintText` over `size_t` | done (sitting 2) |
| 6 | `InlayHintCollector` (extension) | per-header comment layouts, to state the comment test of `remainTextOfThatLine` (line 557) | done (sitting 5) |
| 7 | `InlayHintCollector` (extension) | what `getCalleeDecl` returns in `VisitCallExpr` and `VisitCXXMemberCallExpr`, null included | done (sitting 3) |

## 3. The `Compiler` module

`CompilerTypes` holds what `Compiler` and `CompilerAbstract` share: the
constants, the data (texts, buffers, bounds, params, entry points) and
`ComputePreamble`. `Compiler` extends it with the pipeline; `MC_Compiler`
gives the constants small values.

State (all per caller thread `w` unless said otherwise):

| variable | code |
|---|---|
| `text` (shared) | the caller's buffer of the unit, abstracted to (preamble version, body version) |
| `disk` (shared) | the artifact files at `PchPath` and each module's path; a file holds the buffer it was compiled from |
| `params[w]` | the thread's `CompliationParams` (`content`, `mainpath == path`, `pch`, `bounds`, `pcms`, `outpath`) |
| `inst[w]` | the live `CompilerInstance`: program action, predefines, implicit PCH, preamble bytes, validation, prebuilt modules, remapped buffer, output file, completion, preprocessor, PCH loaded |
| `call[w]` | the locals of the running call: entry, `kind`, `collectPP`, buildPCH's `bounds`, the collector's preprocessor |
| `pc[w]` | `idle`, then `target`, `begin`, `execute` (ExecuteAction's steps), `returned`, or `terminated` |
| `result[w]` | the returned `ASTInfo`/`PCHInfo`/`PCMInfo` or error, until the caller takes it |
| `pchStore`, `pcmStore` (caller) | the PCHInfo and PCMInfos the caller keeps |
| `aborted` | `std::terminate` was called |

Actions: `buildAST`, `buildPCH` (with a `Terminate` disjunct when
`mainpath != path`), `buildPCM`, `codeCompleteAt` each model the whole entry
function up to the call of `ExecuteAction`; `CreateTarget`, `BeginSourceFile`
(including the token collector), `Execute` (including the output file and the
wrapper) model `ExecuteAction`; the caller's `Edit`, `Prepare`, `Collect` are
modelled from the spec. `Running(w)` is weakly fair: a call runs on its
thread without waiting for anything (spec section 5: synchronous, no
suspension).

Abstractions. Text is a pair of versions, and `ComputePreamble` a table from
preamble version to bounds (`MC_PreSize`, `MC_PreEol`), so "the first
`bounds.Size` bytes are identical" is "same preamble version". Whether
`createTarget`, `BeginSourceFile` or `Execute` fail is a free choice (they
depend on arguments and files the model does not hold), except that
`BeginSourceFile` fails when the implicit PCH file is missing. The output file
is written when `Execute` succeeds; `ExecuteAction` never calls
`EndSourceFile`, and when clang flushes a generated PCH then is not modelled.
A moved-from `std::string` is empty (what libstdc++ and libc++ produce).

### Runs

| run | cfg | expect | what it shows |
|---|---|---|---|
| `pipeline` | `Compiler_pipeline.cfg` | pass | 1 thread, includer requests allowed (the process may stop, so deadlock is not checked): `TypeOK`, `ReusedPreambleMatches`, `TreeBuildHasTokens` hold |
| `pipeline_live` | `Compiler_live.cfg` | pass | 1 thread, self-contained units: `RequestAnswered` under weak fairness, and `ImplementsAbstract`: the pipeline implements `CompilerAbstract` |
| `unsupported_main` | `Compiler_abort.cfg` | violation | `buildPCH` with `mainpath != path` terminates: the request is never answered (spec 4.3/7/8 require a reported failure) |
| `pch_race` | `Compiler_pch_race.cfg` | violation | 2 threads: a `buildPCH` from another snapshot overwrites `u.pch` between a build's reuse check and its `BeginSourceFile`; the build silently uses a PCH of another preamble |

Bounds. Three preambles (empty, two include blocks of different sizes) and
two bodies let a buffer be edited in its body only (reuse stays valid), in its
preamble (reuse must stop), and have a zero-size preamble (the binder's
`Size != 0` branch). One module exercises the `pcms` path. One thread suffices
for the sequential properties; the race run uses two threads and a smaller
data set (two preambles, one body, no modules) so the 17-step counterexample
is found in a second. The `pipeline` run has 587k distinct states.

Each passing property has a mutant (PROJECT.json): an off-by-one preamble
size breaks `TypeOK`, feeding the whole content to the PCH breaks
`ReusedPreambleMatches`, a token collector constructed before
`BeginSourceFile` breaks `TreeBuildHasTokens`, a dispatch that forgets the module kind breaks
`RequestAnswered`, a PCHInfo packaged without its bounds breaks
`ImplementsAbstract`.

### Refinement: `CompilerAbstract`

`CompilerAbstract` is what the spec (sections 4.2-4.5, 7) promises of a
build, with the call as two steps: `Call` turns the params into a request by
the table of section 4.5 (text fed, PCH and preamble bytes reused only when
`bounds.Size != 0`, output path of the generating builds) and answers an
unsupported PCH request with a reported failure; `Return` answers with a
failure of one of the spec's categories or with an artifact built over the
PCH file as it is on disk at that moment, writing the output in the same
step. Its caller steps are those of `Compiler`.

`Compiler` maps onto it (`Abs == INSTANCE CompilerAbstract WITH ...`): the
pcs `target`, `begin`, `execute` are `busy`; the request is read off the
configured instance (`remapped`, `implicitPCH`, `preambleBytes`,
`outputFile`) and the call's bounds; failures of `createTarget`,
`BeginSourceFile` and `Execute` are the categories configuration, open,
execution; results drop the token index and the completion flag. So
`createTarget` and `BeginSourceFile` are stuttering steps and `Execute` (or a
failing step) is `Return`. The fairness of `Running` implies the abstract
fairness of `Return \/ Collect`.

The refinement holds with one caller thread whose units are their own main
file (`pipeline_live`). It cannot hold beyond that, and this is what the violation
runs show at the level of the whole contract: with `buildPCH` on an included
unit the process terminates where the abstract answers "unsupported"; with
two threads (the `pch_race` constants) TLC finds a behaviour in 17 steps
where the PCH read at `BeginSourceFile` is overwritten before `Execute`
answers, so no atomic build gives that answer.

### Findings

1. `buildPCH` terminates the process on an included unit (line 124), where
   the spec requires a reported failure.
2. Not a finding: `applyPreamble` moves `pch` and the `pcms` paths out of
   the caller's params (lines 43, 51). Spec section 3 says params are
   consumed once per build call, and section 5's "only reads" is about the
   artifact, which the move does not touch; the model's caller fills params
   in before every build (`fresh`).
3. With validation off (line 46) and the PCH at a caller-chosen path, the
   reuse contract of spec section 3 is not enough under concurrency: the file
   behind an "immutable" PCHInfo can change. This is the spec's open question
   on staleness, answered by a counterexample.
4. Not a run: PCH and module builds collect tokens (default argument at
   line 57, not passed at lines 137 and 156), where spec table 4.5 gives
   only the tree build a token index. The model keeps `collectPP` as each
   entry point passes it, so a PCH or PCM result carries tokens in every
   trace that builds one.

## 4. The inlay hint modules

### `InlayHintOption`

The data of the feature: the 22 kinds, `BlockEndKinds`, the LSP type kinds
and `ToLspKind`, the option record with the defaults of
`config::InlayHintOption` and `EnableAll` (what the index entry point sets),
`IsAvailableWithOption` (a table `Gate` from kind to flag, with the
`ArrayIndex` case testing `maxArrayElements > 0`), and `ShrinkHintText`:
a text longer than `maxLength` is resized to `(maxLength - 3) % 2^SizeBits`
and `...` appended, and the resize throws (`LengthError`) past `MaxSize`,
`std::string::max_size()`. A text is its length.

### `InlayHintCollector`

One collection and its conversion. Variables: `phase` (idle, collect, done,
converted, thrown, crashed), `onlyMain` (set by the entry point), `limit` (the
normalised request range), `stack` (the nodes being traversed), `tuNext`
(where the next top-level declaration of each file may begin), `opened`
(nodes met so far), `result` (the collector's `Storage`, a hint sequence per
file) and `lsp` (what `toLspType` returned).

The tree is generated during the walk. Entering a node chooses its kind
among the children its parent may have (`Kids`), a source range inside the
parent after the previous sibling (`Spans`; a call's children start at one
of its argument slots), and the attributes its handler tests; then the
handler runs in the same step, as `RecursiveASTVisitor` calls `Visit*`
before the children (`WalkUpFrom`). `Leave` returns to the parent, `Finish`
ends `TraverseTranslationUnitDecl`. A declaration `needFilter` rejects is
skipped with its subtree (`TraverseDeclFiltered`). A source location is a
file and an offset; a file's lines are given by its newline offsets
(`Newlines`), and `LineOf` is what `SourceConverter::toPosition` returns.

Each handler is one action with its early returns as guards or
conditionals: `VisitNamespaceDecl` (Replace), `VisitTagDecl` (only
definitions; Ignore, then the size hint of a struct or class),
`VisitFunctionDecl` (Ignore for definitions, then the return type of an
`auto` function without a trailing return), `VisitVarDecl` (local or file
variables; one hint per binding of a structured binding, one for an `auto`
type), `VisitLambdaExpr` (Replace, then the return type unless explicit),
the four call handlers through `CallHints` (`VisitCallExpr` and
`VisitCXXOperatorCallExpr` and `VisitCXXMemberCallExpr` choose what
`getCalleeDecl` returns, and a null
callee passed to `dyn_cast` ends the process: `DynCastNull`) and `CollectArgumentHint`
(pairing up to the shorter list, stopping at a pack expansion or a default
argument, skipping arguments `needHintArgument` rejects), and
`VisitInitListExpr` (`IndexHints`, the loop with `count++ >=
maxArrayElements`). `CollectBlockEndHint` keeps the code's order: the
comment test reads the main file's text at the hint's offset, the last
hint's line is computed in the main file's text (line 588) and the new one's
in its own file, then Replace pops, Ignore returns, or the hint is pushed.
`ToLspType` filters the main file's hints by the config when there is one
and shrinks every label by `config->maxLength`; with an empty optional that
read is undefined behaviour, modelled as a choice among `Garbage` values.

### Runs

| run | cfg | expect | what it shows |
|---|---|---|---|
| `hints` | `InlayHint.cfg` | pass | a request or an index over every tree of up to 3 nodes, depth 3, 2 arguments, in two files of 5 offsets: `TypeOK` holds: every hint lies inside its file (616k distinct states) |
| `blockend_same_line` | `InlayHint_blockend_same_line.cfg` | violation | `struct Out { struct In {` ... `}};`: Out's size hint lies between the two block-end hints, so In's is not compared with Out's and both stay on the closing line |
| `blockend_replaces_param` | `InlayHint_blockend_replaces_param.cfg` | violation | `auto v = f([] {` ... `}, x);`: the call's hints are pushed before the lambda is visited, and the lambda's Replace pops the parameter hint of `x` |
| `index_stale_line` | `InlayHint_index_stale_line.cfg` | violation | nested namespaces of a header in an index: the outer hint's line is read in the main file, equals the inner's, and the outer hint on another line is popped |
| `index_array_all` | `InlayHint_index_array_all.cfg` | violation | the index collects with `maxArrayElements = 0`, documented as "hint all", and gets no index hint |
| `lsp_no_config` | `InlayHint_lsp_no_config.cfg` | violation | `toLspType` with no config reads `maxLength` from the empty optional; a 0 there throws `std::length_error` |
| `index_header_comment` | `InlayHint_index_header_comment.cfg` | violation | an index of a header whose namespace closes before `// ...` (`MC_HeaderComment`): the comment test reads `main.cpp`'s text at the header offset, misses the comment, and the hint is pushed; the same configuration with requests only passes |
| `null_callee` | `InlayHint_null_callee.cfg` | violation | a request over a function whose body calls through a non-declaration callee (`get()(1)`, an unresolved name in a template) crashes in `VisitCallExpr`; 2 nodes suffice |

Bounds. Three nodes at depth three are enough for every pattern the
findings need (two nested blocks with a hint between them, a call with a
lambda argument inside a variable or function, nested header blocks), and
two argument slots let a call have an argument after a lambda and a list
have more elements than `maxArrayElements = 1`. The files have 5 offsets
(two lines in `main.cpp`, three in `a.h`, laid out differently so that
main-file and header lines disagree), and 7 for the runs whose pattern
needs a multi-line block nested in another or a header comment after a
multi-line block. The request option has
`maxLength = 4` and one label length (6), so every text is shrunk. No
fairness is assumed: the properties are safety properties and a collection
is a sequential walk; deadlock is not checked because a collection ends.

Mutants (PROJECT.json): a block-end hint two past the brace breaks `TypeOK`.

### Findings

5. Block-end de-duplication compares only with the file's last hint (line
   586): a size or type hint pushed between two block-end hints lets both
   land on one line.
6. Replace pops `state.back()` whatever its kind (line 592): a lambda
   argument's block-end hint removes the next argument's parameter hint.
7. In an index, the last hint's line is read in the main file's text (line
   588), so header hints are de-duplicated by the wrong lines.
8. `maxArrayElements = 0` hints no element (line 542), though documented
   as "all", and the index sets it to 0.
9. `toLspType` reads `config->maxLength` from an empty optional (line 852);
   with a value below 3 `shrinkHintText` throws (line 82), and 0 is
   documented as "keep entire text".
10. Not a run: array index labels are printed from `count` after the
   increment (line 545), so the first element is `[1]=`; nothing in the
   repository says whether labels are meant to be 0- or 1-based.
11. `VisitCallExpr` passes `getCalleeDecl()` to `dyn_cast` without a null
   test (line 318); it is null for a callee that is not a name or member
   (`get()(1)`) and for unresolved names in template bodies, which the
   visitor walks. `VisitCXXOperatorCallExpr` uses the callee method of an
   `operator[]` unchecked (line 342), and a type-dependent index leaves it
   an unresolved lookup. `VisitCXXMemberCallExpr` does the same with the null
   `dyn_cast<FunctionDecl>` of a pointer-to-member callee (lines 386-389).
   `VisitCXXConstructExpr` (line 420) is the handler that tests for null.
12. In an index, `remainTextOfThatLine` reads the main file's text at a
   header location's offset (line 557): a header's `} // namespace ns` is
   not seen and the block-end hint is pushed before it; a header hint is
   dropped where the main file happens to have a comment.

## 5. Not modelled, and why

* Semantic analysis, lexing and serialisation inside clang: external; their
  outcomes are free choices or tables.
* `adjustInvocation`'s comment flags and `DisableFree`: set, never read by
  any property.
* Memory ownership of remapped buffers (`buffer.release()`, the FIXME at line
  178) and the destruction order of `ASTInfo`: no state TLC could observe.
* The diagnostics stream (`TextDiagnosticPrinter` on `llvm::outs()`, line
  28): concurrent builds write the stream's unsynchronised buffer, a data
  race, but no result of the pipeline reads it, and spec section 5 makes
  serialising concurrent sessions' diagnostics the caller's duty; a model
  of the buffer would check the caller's locking, not this code.
* Inlay hints: the hint texts (type names, parameter names, the `// ...`
  block-end texts) are abstracted to their lengths; the AST tests a handler
  makes (builtin callee, function pointer prototype, simple setter, copy or
  move constructor, designated element, hand-written comment, dependent
  type) are attributes the traversal chooses freely; a return-type or size
  hint sits at its node's first offset rather than after the `)` or the
  name; `VisitLambdaExpr` tests the lambda's range, not only its body's, and
  `VisitTagDecl` the tag's range, not its brace range (line 659), for
  being multi-line. Every child lies in its parent's file: statements of a
  main-file declaration spelled in another file (an `#include` inside an
  initializer list, a macro body), which `needFilter` never sees because it
  runs only in `TraverseDecl` (line 204), are not modelled. The commented-out `VisitImplicitCastExpr` and the kinds
  no handler produces (`IfBlockEnd` ... `CStrLength`) exist only as kinds.
  Positions and label ranges in the LSP conversion (`SourceConverter`, not
  under `src/`) are not modelled.
