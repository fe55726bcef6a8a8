-------------------------- MODULE CompilerAbstract --------------------------
(***************************************************************************)
(* What the build pipeline promises (spec sections 4.2-4.5 and 7), with a  *)
(* build call as one request step and one answer step:                     *)
(*   - a call turns the caller's params into a request by the table of     *)
(*     section 4.5: which text is fed, whether the preamble is reused,     *)
(*     where output goes;                                                  *)
(*   - the answer is a reported failure of one of the spec's categories,   *)
(*     or an artifact built over the PCH file the request names as it is   *)
(*     on disk at that moment, with a generating build's output written    *)
(*     in the same step;                                                   *)
(*   - an unsupported request (a PCH for an included unit) is answered     *)
(*     with a reported failure.                                            *)
(* The caller's steps are the same as in Compiler.                         *)
(***************************************************************************)
EXTENDS CompilerTypes

VARIABLES text, disk, params, fresh, pc, req, result, pchStore, pcmStore, aborted

vars == <<text, disk, params, fresh, pc, req, result, pchStore, pcmStore, aborted>>

Request == [entry : Entries, fed : Buffer, pch : Paths \cup {NoPath},
            preambleBytes : Bounds, output : Paths \cup {NoPath},
            content : Text, mainIsPath : BOOLEAN, bounds : Bounds]

Built == [ok : {TRUE}, entry : Entries, fed : Buffer, pchRead : Buffer \cup {NoFile},
          preambleBytes : Bounds, outpath : Paths \cup {NoPath}, content : Text,
          mainIsPath : BOOLEAN, bounds : Bounds]

\* Section 7's categories: configuration, open, execution, unsupported.
Reported == [ok : {FALSE}, entry : Entries,
             why : {"configuration", "open", "execution", "unsupported"}]

\* Section 4.5: the PCH build feeds the preamble only, reuses nothing and
\* returns the bounds it computed; the others feed the whole text and reuse
\* the preamble when its size is not zero (4.2); the generating builds write
\* to the output path.
RequestFor(entry, p) ==
    LET reuse == entry # "buildPCH" /\ p.bounds.Size # 0 IN
    [entry |-> entry,
     fed |-> IF entry = "buildPCH" THEN [src |-> p.content, upto |-> "preamble"]
             ELSE Whole(p.content),
     pch |-> IF reuse THEN p.pch ELSE NoPath,
     preambleBytes |-> IF reuse THEN p.bounds ELSE NoBounds,
     output |-> IF entry \in {"buildPCH", "buildPCM"} THEN p.outpath ELSE NoPath,
     content |-> p.content, mainIsPath |-> p.mainIsPath,
     bounds |-> IF entry = "buildPCH" THEN ComputePreamble(p.content) ELSE NoBounds]

Ready(w) ==
    /\ ~aborted
    /\ pc[w] = "idle"
    /\ fresh[w]

\* A build call: the params are consumed (left in some state of their type).
Call(w, entry) ==
    /\ Ready(w)
    /\ entry = "buildPCH" => params[w].outpath = PchPath
    /\ entry = "buildPCM" => params[w].outpath # PchPath
    /\ \/ /\ entry = "buildPCH" => params[w].mainIsPath
          /\ req' = [req EXCEPT ![w] = RequestFor(entry, params[w])]
          /\ pc' = [pc EXCEPT ![w] = "busy"]
          /\ UNCHANGED result
       \/ /\ entry = "buildPCH" /\ ~params[w].mainIsPath
          /\ result' = [result EXCEPT ![w] = [ok |-> FALSE, entry |-> entry,
                                              why |-> "unsupported"]]
          /\ pc' = [pc EXCEPT ![w] = "returned"]
          /\ UNCHANGED req
    /\ params'[w] \in Params
    /\ \A v \in Workers \ {w} : params'[v] = params[v]
    /\ DOMAIN params' = Workers
    /\ fresh' = [fresh EXCEPT ![w] = FALSE]
    /\ UNCHANGED <<text, disk, pchStore, pcmStore, aborted>>

\* The answer: a reported failure, or the artifact.  A reused PCH must be
\* on disk; it is read, and the output written, in this one step.
Return(w) ==
    /\ pc[w] = "busy"
    /\ LET r == req[w]
           img == IF r.pch = NoPath THEN NoFile ELSE disk[r.pch]
       IN  \/ /\ \E why \in {"configuration", "open", "execution"} :
                    result' = [result EXCEPT ![w] = [ok |-> FALSE, entry |-> r.entry,
                                                     why |-> why]]
              /\ UNCHANGED disk
           \/ /\ r.pch = NoPath \/ img # NoFile
              /\ disk' = IF r.output = NoPath THEN disk
                         ELSE [disk EXCEPT ![r.output] = r.fed]
              /\ result' = [result EXCEPT ![w] =
                    [ok |-> TRUE, entry |-> r.entry, fed |-> r.fed, pchRead |-> img,
                     preambleBytes |-> r.preambleBytes, outpath |-> r.output,
                     content |-> r.content, mainIsPath |-> r.mainIsPath,
                     bounds |-> r.bounds]]
    /\ req' = [req EXCEPT ![w] = None]
    /\ pc' = [pc EXCEPT ![w] = "returned"]
    /\ UNCHANGED <<text, params, fresh, pchStore, pcmStore, aborted>>

Edit ==
    /\ ~aborted
    /\ \E t \in Text \ {text} : text' = t
    /\ UNCHANGED <<disk, params, fresh, pc, req, result, pchStore, pcmStore, aborted>>

Reusable(t) ==
    /\ pchStore # None
    /\ pchStore.mainIsPath
    /\ pchStore.content.pre = t.pre

Prepare(w) ==
    /\ ~aborted
    /\ pc[w] = "idle"
    /\ \E main \in IF AllowIncluder THEN BOOLEAN ELSE {TRUE}, out \in Paths :
          params' = [params EXCEPT ![w] =
             [content |-> text, mainIsPath |-> main,
              pch |-> IF Reusable(text) THEN pchStore.outpath ELSE NoPath,
              bounds |-> IF Reusable(text) THEN pchStore.bounds ELSE NoBounds,
              pcms |-> [m \in {n \in Modules : pcmStore[n] # None} |->
                          pcmStore[m].outpath],
              outpath |-> out]]
    /\ fresh' = [fresh EXCEPT ![w] = TRUE]
    /\ UNCHANGED <<text, disk, pc, req, result, pchStore, pcmStore, aborted>>

Collect(w) ==
    /\ ~aborted
    /\ pc[w] = "returned"
    /\ LET r == result[w] IN
       /\ pchStore' = IF r.ok /\ r.entry = "buildPCH" THEN r ELSE pchStore
       /\ pcmStore' = IF r.ok /\ r.entry = "buildPCM"
                      THEN [m \in Modules |-> IF ModPath[m] = r.outpath THEN r
                                              ELSE pcmStore[m]]
                      ELSE pcmStore
    /\ result' = [result EXCEPT ![w] = None]
    /\ pc' = [pc EXCEPT ![w] = "idle"]
    /\ UNCHANGED <<text, disk, params, fresh, req, aborted>>

Init ==
    /\ text \in Text
    /\ disk = [f \in Paths |-> NoFile]
    /\ params = [w \in Workers |->
                   [content |-> text, mainIsPath |-> TRUE, pch |-> NoPath,
                    bounds |-> NoBounds, pcms |-> [m \in {} |-> NoPath],
                    outpath |-> PchPath]]
    /\ fresh = [w \in Workers |-> TRUE]
    /\ pc = [w \in Workers |-> "idle"]
    /\ req = [w \in Workers |-> None]
    /\ result = [w \in Workers |-> None]
    /\ pchStore = None
    /\ pcmStore = [m \in Modules |-> None]
    /\ aborted = FALSE

Next ==
    \/ Edit
    \/ \E w \in Workers :
          \/ Prepare(w)
          \/ \E e \in Entries : Call(w, e)
          \/ Return(w)
          \/ Collect(w)

\* A call made is answered: the answering steps are weakly fair.
Spec == Init /\ [][Next]_vars /\ \A w \in Workers : WF_vars(Return(w) \/ Collect(w))

=============================================================================
