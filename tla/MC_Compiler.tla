---------------------------- MODULE MC_Compiler ----------------------------
(* Instantiates the pipeline model for TLC: one unit whose preamble is     *)
(* empty (p0) or one of two include blocks (p1, p2), two bodies, one       *)
(* importable module.                                                      *)
EXTENDS Compiler

MC_Modules == {"m"}
MC_ModPath == [m \in MC_Modules |-> "m.pcm"]
MC_PreVersions == {"p0", "p1", "p2"}
MC_BodyVersions == {"b1", "b2"}
\* Byte sizes of the three preambles; an empty one does not end a line.
MC_PreSize == ("p0" :> 0) @@ ("p1" :> 24) @@ ("p2" :> 40)
MC_PreEol == ("p0" :> FALSE) @@ ("p1" :> TRUE) @@ ("p2" :> TRUE)

\* A smaller instance for two caller threads: no modules, one body, two
\* non-empty preambles.
MC_NoModules == {}
MC_NoModPath == [m \in MC_NoModules |-> "m.pcm"]
MC_TwoPreVersions == {"p1", "p2"}
MC_OneBody == {"b1"}
=============================================================================
