------------------------------ MODULE Compiler ------------------------------
(***************************************************************************)
(* The artifact build pipeline of clice (src/unnamed/part_000, the         *)
(* Compiler.cpp of the repository): createInstance, applyPreamble,         *)
(* ExecuteAction and the four entry points buildAST, buildPCH, buildPCM    *)
(* and codeCompleteAt, called by caller threads that keep the PCH and PCM  *)
(* artifacts they get back and feed them into later builds.               *)
(*                                                                         *)
(* Each worker is a caller thread with its own CompilerInstance.  A call   *)
(* is one action for the entry function up to ExecuteAction (instance      *)
(* creation, option setting, remapping, applyPreamble), then one action    *)
(* per step of ExecuteAction: createTarget, BeginSourceFile (with the      *)
(* token collector installed after it), Execute (with the packaging of     *)
(* the result).  Source text is abstracted to the version of its preamble  *)
(* (the leading #include / #define region) and of its body; an artifact    *)
(* file on disk holds the buffer it was compiled from.                     *)
(***************************************************************************)
EXTENDS CompilerTypes

VARIABLES
    text,      \* the caller's current buffer of the unit
    disk,      \* [Paths -> Buffer \cup {NoFile}]: artifact files
    params,    \* [Workers -> Params]: each caller thread's CompliationParams
    fresh,     \* [Workers -> BOOLEAN]: params filled in since the last build
    inst,      \* [Workers -> Instance \cup {NoInstance}]: the live session
    call,      \* [Workers -> Call \cup {None}]: locals of the running entry function
    pc,        \* [Workers -> ...]: where each caller thread is
    result,    \* [Workers -> ...]: what the call returned, until the caller takes it
    pchStore,  \* the PCHInfo the caller keeps, or None
    pcmStore,  \* [Modules -> PCMInfo \cup {None}]: the PCMInfos it keeps
    aborted    \* std::terminate ended the process

vars == <<text, disk, params, fresh, inst, call, pc, result,
          pchStore, pcmStore, aborted>>

-----------------------------------------------------------------------------
(* Data                                                                    *)

\* The parts of a CompilerInstance the pipeline sets or reads.
Instance == [programAction : Kinds, usePredefines : BOOLEAN,
             implicitPCH : Paths \cup {NoPath}, preambleBytes : Bounds,
             disableValidation : BOOLEAN, prebuilt : ModuleMaps,
             remapped : Buffer \cup {NoFile}, outputFile : Paths \cup {NoPath},
             generatePreamble : BOOLEAN, completion : BOOLEAN,
             pp : {"none", "live"}, pchRead : Buffer \cup {NoFile}]

\* Locals of the running call: which entry, ExecuteAction's kind and
\* collectPP, buildPCH's bounds, and the preprocessor the TokenCollector
\* was attached to.
Call == [entry : Entries, kind : Kinds, collectPP : BOOLEAN,
         bounds : Bounds, collector : {"none", "live"}]

\* ASTInfo, and the PCHInfo / PCMInfo wrapping it.
ASTInfo == [tokens : {"none", "live"}, fed : Buffer, pchRead : Buffer \cup {NoFile},
            preambleBytes : Bounds, completion : BOOLEAN]
Artifact == [ok : {TRUE}, entry : Entries, info : ASTInfo,
             outpath : Paths \cup {NoPath}, content : Text, mainIsPath : BOOLEAN,
             bounds : Bounds]
Failure == [ok : {FALSE}, entry : Entries, why : {"target", "begin", "execute"}]

-----------------------------------------------------------------------------
(* Session Factory, Reuse Binder, Preamble Boundary Detector               *)

\* createInstance with adjustInvocation: a fresh instance with the options
\* the argument list gives (DisableFree and comment retention are set but
\* no property reads them).
CreateInstance ==
    [programAction |-> "ParseSyntaxOnly", usePredefines |-> TRUE,
     implicitPCH |-> NoPath, preambleBytes |-> NoBounds,
     disableValidation |-> FALSE, prebuilt |-> [m \in {} |-> NoPath],
     remapped |-> NoFile, outputFile |-> NoPath, generatePreamble |-> FALSE,
     completion |-> FALSE, pp |-> "none", pchRead |-> NoFile]

\* PreprocessorOptions::addRemappedFile of a MemoryBuffer copy.
Remap(s, b) == [s EXCEPT !.remapped = b]

\* Mutant: buildPCH remaps the whole content instead of its preamble.
SubstrWhole(t, n) == Whole(t)

\* content.substr(0, n): the preamble when n is the preamble's size, else
\* (n reaches past it) the whole text.
Substr(t, n) == [src |-> t, upto |-> IF n = PreSize[t.pre] THEN "preamble" ELSE "end"]

\* applyPreamble, its effect on the instance: a non-empty preamble turns off
\* predefines, sets the implicit PCH include, the preamble bytes and turns
\* off PCH validation; every pcms entry is try_emplace'd as a prebuilt
\* module file (an existing name keeps its path).
ApplyPreambleInstance(s, p) ==
    LET s1 == IF p.bounds.Size # 0
              THEN [s EXCEPT !.usePredefines = FALSE, !.implicitPCH = p.pch,
                             !.preambleBytes = p.bounds,
                             !.disableValidation = TRUE]
              ELSE s
    IN  [s1 EXCEPT !.prebuilt = s1.prebuilt @@ p.pcms]

\* applyPreamble, its effect on the caller's params: pch is std::move'd out
\* when the preamble is used, and every pcms path is std::move'd out (the
\* names are const map keys and are copied).
ApplyPreambleParams(p) ==
    [p EXCEPT !.pch  = IF p.bounds.Size # 0 THEN NoPath ELSE @,
              !.pcms = [m \in DOMAIN @ |-> NoPath]]

-----------------------------------------------------------------------------
(* Entry points                                                            *)

Ready(w) ==
    /\ ~aborted
    /\ pc[w] = "idle"
    /\ fresh[w]

\* Hand the configured instance to ExecuteAction(kind, collectPP).
Start(w, s, entry, kind, collectPP, bounds) ==
    /\ inst' = [inst EXCEPT ![w] = s]
    /\ call' = [call EXCEPT ![w] = [entry |-> entry, kind |-> kind,
                                    collectPP |-> collectPP, bounds |-> bounds,
                                    collector |-> "none"]]
    /\ pc' = [pc EXCEPT ![w] = "target"]
    /\ fresh' = [fresh EXCEPT ![w] = FALSE]

\* std::terminate: the process ends with the call unanswered.
Terminate(w) ==
    /\ aborted' = TRUE
    /\ pc' = [pc EXCEPT ![w] = "terminated"]
    /\ UNCHANGED <<text, disk, params, fresh, inst, call, result,
                   pchStore, pcmStore>>

buildAST(w) ==
    /\ Ready(w)
    /\ LET p == params[w] IN
       /\ Start(w, ApplyPreambleInstance(Remap(CreateInstance, Whole(p.content)), p),
                "buildAST", "ParseSyntaxOnly", TRUE, NoBounds)
       /\ params' = [params EXCEPT ![w] = ApplyPreambleParams(p)]
    /\ UNCHANGED <<text, disk, result, pchStore, pcmStore, aborted>>

buildPCH(w) ==
    /\ Ready(w)
    /\ params[w].outpath = PchPath
    /\ LET p == params[w]
           bounds == ComputePreamble(p.content)
           s == [CreateInstance EXCEPT !.outputFile = p.outpath,
                                       !.programAction = "GeneratePCH",
                                       !.preambleBytes = NoBounds,
                                       !.generatePreamble = TRUE]
       IN  \/ /\ p.mainIsPath
              /\ Start(w, Remap(s, Substr(p.content, bounds.Size)),
                       "buildPCH", "GeneratePCH", TRUE, bounds)
              /\ UNCHANGED <<text, disk, params, result, pchStore, pcmStore, aborted>>
           \/ /\ ~p.mainIsPath
              /\ Terminate(w)

buildPCM(w) ==
    /\ Ready(w)
    /\ params[w].outpath # PchPath
    /\ LET p == params[w]
           s == [CreateInstance EXCEPT !.outputFile = p.outpath,
                   !.programAction = "GenerateReducedModuleInterface"]
       IN  /\ Start(w, ApplyPreambleInstance(Remap(s, Whole(p.content)), p),
                    "buildPCM", "GenerateReducedModuleInterface", TRUE, NoBounds)
           /\ params' = [params EXCEPT ![w] = ApplyPreambleParams(p)]
    /\ UNCHANGED <<text, disk, result, pchStore, pcmStore, aborted>>

codeCompleteAt(w) ==
    /\ Ready(w)
    /\ LET p == params[w]
           s == [CreateInstance EXCEPT !.completion = TRUE]
       IN  /\ Start(w, ApplyPreambleInstance(Remap(s, Whole(p.content)), p),
                    "codeCompleteAt", "ParseSyntaxOnly", FALSE, NoBounds)
           /\ params' = [params EXCEPT ![w] = ApplyPreambleParams(p)]
    /\ UNCHANGED <<text, disk, result, pchStore, pcmStore, aborted>>

-----------------------------------------------------------------------------
(* Action Executor: the steps of ExecuteAction                             *)

\* Mutant: the dispatch forgets the module-interface kind.
SupportedKindNoModule(k) == k \in {"ParseSyntaxOnly", "GeneratePCH"}

\* The action kinds ExecuteAction makes an action for; any other kind
\* takes the std::terminate branch, which no entry point reaches.
SupportedKind(k) ==
    k \in {"ParseSyntaxOnly", "GeneratePCH", "GenerateReducedModuleInterface"}

\* A failed step returns an error; the instance is destroyed with it.
Fail(w, why) ==
    /\ result' = [result EXCEPT ![w] = [ok |-> FALSE, entry |-> call[w].entry,
                                        why |-> why]]
    /\ inst' = [inst EXCEPT ![w] = NoInstance]
    /\ call' = [call EXCEPT ![w] = None]
    /\ pc' = [pc EXCEPT ![w] = "returned"]
    /\ UNCHANGED <<text, disk, params, fresh, pchStore, pcmStore, aborted>>

CreateTarget(w) ==
    /\ ~aborted
    /\ pc[w] = "target"
    /\ SupportedKind(call[w].kind)
    /\ \/ Fail(w, "target")
       \/ /\ pc' = [pc EXCEPT ![w] = "begin"]
          /\ UNCHANGED <<text, disk, params, fresh, inst, call, result,
                         pchStore, pcmStore, aborted>>

\* The preprocessor a TokenCollector constructed on the instance attaches to.
TokenCollector(s) == s.pp

\* BeginSourceFile can load the session's implicit PCH: there is none, or
\* its file is on disk.
PchLoads(s, img) == s.implicitPCH = NoPath \/ img # NoFile

\* Mutant: the TokenCollector is constructed before BeginSourceFile, on the
\* preprocessor the instance had until then.
BeginSourceFileEarlyCollector(w) ==
    /\ ~aborted
    /\ pc[w] = "begin"
    /\ LET s == inst[w]
           img == IF s.implicitPCH = NoPath THEN NoFile ELSE disk[s.implicitPCH]
           s1 == [s EXCEPT !.pp = "live", !.pchRead = img]
       IN  \/ Fail(w, "begin")
           \/ /\ PchLoads(s, img)
              /\ inst' = [inst EXCEPT ![w] = s1]
              /\ call' = [call EXCEPT ![w].collector =
                             IF call[w].collectPP THEN TokenCollector(s) ELSE "none"]
              /\ pc' = [pc EXCEPT ![w] = "execute"]
              /\ UNCHANGED <<text, disk, params, fresh, result,
                             pchStore, pcmStore, aborted>>

\* BeginSourceFile creates the live preprocessor and loads the implicit PCH
\* (with validation off, whatever file is at that path); it fails when that
\* file is missing, or for a reason of its own.  The collector is installed
\* after it, on the instance as BeginSourceFile left it.
BeginSourceFile(w) ==
    /\ ~aborted
    /\ pc[w] = "begin"
    /\ LET s == inst[w]
           img == IF s.implicitPCH = NoPath THEN NoFile ELSE disk[s.implicitPCH]
           s1 == [s EXCEPT !.pp = "live", !.pchRead = img]
       IN  \/ Fail(w, "begin")
           \/ /\ PchLoads(s, img)
              /\ inst' = [inst EXCEPT ![w] = s1]
              /\ call' = [call EXCEPT ![w].collector =
                             IF call[w].collectPP THEN TokenCollector(s1) ELSE "none"]
              /\ pc' = [pc EXCEPT ![w] = "execute"]
              /\ UNCHANGED <<text, disk, params, fresh, result,
                             pchStore, pcmStore, aborted>>

\* Mutant: the PCHInfo is built without the bounds buildPCH computed.
PackageNoBounds(w) ==
    LET s == inst[w]
        c == call[w]
        p == params[w]
    IN  [ok |-> TRUE, entry |-> c.entry,
         info |-> [tokens |-> c.collector, fed |-> s.remapped,
                   pchRead |-> s.pchRead, preambleBytes |-> s.preambleBytes,
                   completion |-> s.completion],
         outpath |-> IF c.entry \in {"buildPCH", "buildPCM"} THEN p.outpath ELSE NoPath,
         content |-> p.content, mainIsPath |-> p.mainIsPath, bounds |-> NoBounds]

\* What ExecuteAction returns on success, wrapped by the entry point: an
\* ASTInfo, a PCHInfo(info, outpath, content, mainpath, bounds) or a
\* PCMInfo(info, outpath).
Package(w) ==
    LET s == inst[w]
        c == call[w]
        p == params[w]
    IN  [ok |-> TRUE, entry |-> c.entry,
         info |-> [tokens |-> c.collector, fed |-> s.remapped,
                   pchRead |-> s.pchRead, preambleBytes |-> s.preambleBytes,
                   completion |-> s.completion],
         outpath |-> IF c.entry \in {"buildPCH", "buildPCM"} THEN p.outpath ELSE NoPath,
         content |-> p.content, mainIsPath |-> p.mainIsPath, bounds |-> c.bounds]

\* Execute runs the action; a generating action writes its output file.
Execute(w) ==
    /\ ~aborted
    /\ pc[w] = "execute"
    /\ \/ Fail(w, "execute")
       \/ /\ disk' = IF call[w].kind = "ParseSyntaxOnly" THEN disk
                     ELSE [disk EXCEPT ![inst[w].outputFile] = inst[w].remapped]
          /\ result' = [result EXCEPT ![w] = Package(w)]
          /\ inst' = [inst EXCEPT ![w] = NoInstance]
          /\ call' = [call EXCEPT ![w] = None]
          /\ pc' = [pc EXCEPT ![w] = "returned"]
          /\ UNCHANGED <<text, params, fresh, pchStore, pcmStore, aborted>>

-----------------------------------------------------------------------------
(* The caller (not under src/; modelled from the spec, sections 3 and 4.5) *)

\* The user edits the unit.
Edit ==
    /\ ~aborted
    /\ \E t \in Text \ {text} : text' = t
    /\ UNCHANGED <<disk, params, fresh, inst, call, pc, result,
                   pchStore, pcmStore, aborted>>

\* The kept PCHInfo may be reused only for the same unit path and when the
\* first bounds.Size bytes of the text equal its snapshot (section 3).
Reusable(t) ==
    /\ pchStore # None
    /\ pchStore.mainIsPath
    /\ pchStore.content.pre = t.pre

\* The caller fills in a CompliationParams for its next build.
Prepare(w) ==
    /\ ~aborted
    /\ pc[w] = "idle"
    /\ \E main \in IF AllowIncluder THEN BOOLEAN ELSE {TRUE}, out \in Paths :
          params' = [params EXCEPT ![w] =
             [content |-> text, mainIsPath |-> main,
              pch |-> IF Reusable(text) THEN pchStore.outpath ELSE NoPath,
              bounds |-> IF Reusable(text) THEN pchStore.bounds ELSE NoBounds,
              pcms |-> [m \in {n \in Modules : pcmStore[n] # None} |->
                          pcmStore[m].outpath],
              outpath |-> out]]
    /\ fresh' = [fresh EXCEPT ![w] = TRUE]
    /\ UNCHANGED <<text, disk, inst, call, pc, result, pchStore, pcmStore, aborted>>

\* The caller takes the result and keeps a returned PCHInfo or PCMInfo.
Collect(w) ==
    /\ ~aborted
    /\ pc[w] = "returned"
    /\ LET r == result[w] IN
       /\ pchStore' = IF r.ok /\ r.entry = "buildPCH" THEN r ELSE pchStore
       /\ pcmStore' = IF r.ok /\ r.entry = "buildPCM"
                      THEN [m \in Modules |-> IF ModPath[m] = r.outpath THEN r
                                              ELSE pcmStore[m]]
                      ELSE pcmStore
    /\ result' = [result EXCEPT ![w] = None]
    /\ pc' = [pc EXCEPT ![w] = "idle"]
    /\ UNCHANGED <<text, disk, params, fresh, inst, call, aborted>>

-----------------------------------------------------------------------------
(* Specification                                                           *)

Init ==
    /\ text \in Text
    /\ disk = [f \in Paths |-> NoFile]
    /\ params = [w \in Workers |->
                   [content |-> text, mainIsPath |-> TRUE, pch |-> NoPath,
                    bounds |-> NoBounds, pcms |-> [m \in {} |-> NoPath],
                    outpath |-> PchPath]]
    /\ fresh = [w \in Workers |-> TRUE]
    /\ inst = [w \in Workers |-> NoInstance]
    /\ call = [w \in Workers |-> None]
    /\ pc = [w \in Workers |-> "idle"]
    /\ result = [w \in Workers |-> None]
    /\ pchStore = None
    /\ pcmStore = [m \in Modules |-> None]
    /\ aborted = FALSE

\* The steps a build call takes once it has been made; the calling thread
\* runs them without waiting on anything.
Running(w) == CreateTarget(w) \/ BeginSourceFile(w) \/ Execute(w) \/ Collect(w)

Next ==
    \/ Edit
    \/ \E w \in Workers :
          \/ Prepare(w)
          \/ buildAST(w) \/ buildPCH(w) \/ buildPCM(w) \/ codeCompleteAt(w)
          \/ Running(w)

\* Each build is a synchronous call on its thread: once made it keeps
\* running, so each worker's steps are weakly fair.
Spec == Init /\ [][Next]_vars /\ \A w \in Workers : WF_vars(Running(w))

-----------------------------------------------------------------------------
(* Properties                                                              *)

TypeOK ==
    /\ text \in Text
    /\ disk \in [Paths -> Buffer \cup {NoFile}]
    /\ params \in [Workers -> Params]
    /\ fresh \in [Workers -> BOOLEAN]
    /\ inst \in [Workers -> Instance \cup {NoInstance}]
    /\ call \in [Workers -> Call \cup {None}]
    /\ pc \in [Workers -> {"idle", "target", "begin", "execute", "returned", "terminated"}]
    /\ result \in [Workers -> Artifact \cup Failure \cup {None}]
    /\ pchStore \in Artifact \cup {None}
    /\ pcmStore \in [Modules -> Artifact \cup {None}]
    /\ aborted \in BOOLEAN

\* A returned artifact that was built over a reused PCH (the implicit PCH
\* include that applyPreamble sets with validation turned off) read a PCH
\* compiled from exactly the preamble of the text it was built for, and
\* applied that preamble's bounds.  Nothing in the pipeline checks this:
\* it rests on the caller's reuse contract, on buildPCH feeding only the
\* preamble, and on the file at the PCH path not changing in between.
ReusedPreambleMatches ==
    \A w \in Workers :
        result[w] # None /\ result[w].ok /\ result[w].info.pchRead # NoFile =>
            LET i == result[w].info IN
            /\ i.pchRead.upto = "preamble"
            /\ i.pchRead.src.pre = i.fed.src.pre
            /\ i.preambleBytes = ComputePreamble(i.fed.src)

\* A tree build that succeeds returns the token index of the preprocessor
\* that ran its action: ExecuteAction constructs the TokenCollector only
\* after BeginSourceFile, which replaces the instance's preprocessor (the
\* comment at lines 79-80), so the collector never listens to a stale one.
TreeBuildHasTokens ==
    \A w \in Workers : result[w] # None /\ result[w].ok /\ result[w].entry = "buildAST" =>
        result[w].info.tokens = "live"

\* Every build call that has been made is eventually answered, with an
\* artifact or a reported failure; an unsupported request (a PCH for a unit
\* whose mainpath differs from its path) must be a reported failure too.
RequestAnswered ==
    \A w \in Workers : pc[w] # "idle" ~> pc[w] = "idle"

-----------------------------------------------------------------------------
(* Refinement of CompilerAbstract                                          *)

\* The steps of ExecuteAction are one busy call.
InFlight == {"target", "begin", "execute"}

\* The request a running call stands for, read off the configured instance.
AbsReq ==
    [w \in Workers |->
        IF pc[w] \in InFlight
        THEN [entry |-> call[w].entry, fed |-> inst[w].remapped,
              pch |-> inst[w].implicitPCH, preambleBytes |-> inst[w].preambleBytes,
              output |-> inst[w].outputFile, content |-> params[w].content,
              mainIsPath |-> params[w].mainIsPath, bounds |-> call[w].bounds]
        ELSE None]

\* The step that failed, as the spec's failure category.
WhyOf == [target |-> "configuration", begin |-> "open", execute |-> "execution"]

\* A result as the abstract spec sees it: tokens and completion are dropped.
AbsResultOf(r) ==
    IF r = None THEN None
    ELSE IF ~r.ok THEN [ok |-> FALSE, entry |-> r.entry, why |-> WhyOf[r.why]]
    ELSE [ok |-> TRUE, entry |-> r.entry, fed |-> r.info.fed,
          pchRead |-> r.info.pchRead, preambleBytes |-> r.info.preambleBytes,
          outpath |-> r.outpath, content |-> r.content,
          mainIsPath |-> r.mainIsPath, bounds |-> r.bounds]

Abs == INSTANCE CompilerAbstract WITH
           pc <- [w \in Workers |-> IF pc[w] \in InFlight THEN "busy" ELSE pc[w]],
           req <- AbsReq,
           result <- [w \in Workers |-> AbsResultOf(result[w])],
           pchStore <- AbsResultOf(pchStore),
           pcmStore <- [m \in Modules |-> AbsResultOf(pcmStore[m])]

\* The stepwise ExecuteAction implements the atomic build of the spec: every
\* call feeds the text, reuses the PCH and writes the output the spec's
\* table prescribes, and answers with a failure of the spec's categories or
\* with an artifact built over the PCH file as it is on disk, from a build
\* that finds its PCH file present.
ImplementsAbstract == Abs!Spec

=============================================================================
