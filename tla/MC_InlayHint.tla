---------------------------- MODULE MC_InlayHint ----------------------------
(***************************************************************************)
(* Small instances of InlayHintCollector: a main file and one header of    *)
(* six offsets each, with their own line layouts.                          *)
(***************************************************************************)
EXTENDS InlayHintCollector, TLC

MC_Files == {"main.cpp", "a.h"}
MC_EOF == [f \in MC_Files |-> 4]
\* main.cpp: lines [0..2] [3..4]; a.h: lines [0..1] [2..3] [4].
MC_Newlines == ("main.cpp" :> {2}) @@ ("a.h" :> {1, 3})
\* A comment follows offset 4 of main.cpp.
MC_CommentAt == ("main.cpp" :> {4}) @@ ("a.h" :> {})
\* A comment also follows offset 5 of a.h, on its third line ("} // ...").
MC_HeaderComment == ("main.cpp" :> {4}) @@ ("a.h" :> {5})

\* The default option with block-end hints on, short texts, one array
\* index hint per list.
MC_Request == [DefaultOption EXCEPT !.blockEnd = TRUE, !.maxLength = 4,
                                    !.maxArrayElements = 1]

\* Files of offsets 0..6: main.cpp lines [0..2] [3..6].
MC_WideEOF == [f \in MC_Files |-> 6]

\* A full-file request (an empty range) and one for the second line.
MC_Ranges == {[begin |-> 0, end |-> 0], [begin |-> 3, end |-> 5]}
==============================================================================
