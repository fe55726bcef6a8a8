-------------------------- MODULE InlayHintOption ---------------------------
(***************************************************************************)
(* The data of the inlay hint feature (src/src/Feature/InlayHint.cpp and  *)
(* the header that follows it there): the hint kinds, the option table     *)
(* config::InlayHintOption with its defaults and the index-mode "enable    *)
(* all" variant, the mapping of a kind to its LSP kind and to the option   *)
(* that gates it, and shrinkHintText over size_t.                          *)
(*                                                                         *)
(* A hint's text is abstracted to its length: shrinking and the LSP        *)
(* conversion only look at the length.  size_t is SizeBits wide and a      *)
(* std::string holds at most MaxSize characters (std::string::max_size);  *)
(* a resize beyond it throws std::length_error.                            *)
(***************************************************************************)
EXTENDS Integers, Sequences, FiniteSets

CONSTANTS
    SizeBits,  \* width of size_t
    MaxSize    \* std::string::max_size()

ASSUME SizeBits \in Nat /\ MaxSize \in Nat /\ MaxSize + 3 < 2^SizeBits

\* feature::inlay_hint::InlayHintKind::Kind
Kinds == {"Invalid", "AutoDecl", "StructureBinding", "Parameter", "Constructor",
          "FunctionReturnType", "LambdaReturnType", "IfBlockEnd", "SwitchBlockEnd",
          "WhileBlockEnd", "ForBlockEnd", "NamespaceEnd", "TagDeclEnd", "FunctionEnd",
          "LambdaBodyEnd", "ArrayIndex", "StructSizeAndAlign", "MemberSizeAndOffset",
          "ImplicitCast", "ChainCall", "NumberLiteralToHex", "CStrLength"}

\* The kinds collectBlockEndHint produces and de-duplicates.
BlockEndKinds == {"NamespaceEnd", "TagDeclEnd", "FunctionEnd", "LambdaBodyEnd"}

\* InlayHintKind::isLspTypeKind; every other kind is a parameter kind.
LspTypeKinds == {"AutoDecl", "StructureBinding", "FunctionReturnType",
                 "LambdaReturnType", "ImplicitCast", "ChainCall"}

\* toLspType(InlayHintKind)
ToLspKind(k) == IF k \in LspTypeKinds THEN "Type" ELSE "Parameter"

UInt16 == 0..65535

\* config::InlayHintOption
Option == [maxLength : UInt16, maxArrayElements : UInt16,
           dedcucedType : BOOLEAN, returnType : BOOLEAN, blockEnd : BOOLEAN,
           paramName : BOOLEAN, structSizeAndAlign : BOOLEAN,
           memberSizeAndOffset : BOOLEAN, implicitCast : BOOLEAN,
           chainCall : BOOLEAN, numberLiteralToHex : BOOLEAN, cstrLength : BOOLEAN]

\* The default member initializers of config::InlayHintOption.
DefaultOption ==
    [maxLength |-> 30, maxArrayElements |-> 3, dedcucedType |-> TRUE,
     returnType |-> TRUE, blockEnd |-> FALSE, paramName |-> TRUE,
     structSizeAndAlign |-> TRUE, memberSizeAndOffset |-> TRUE,
     implicitCast |-> FALSE, chainCall |-> FALSE, numberLiteralToHex |-> FALSE,
     cstrLength |-> FALSE]

\* The option inlayHints(uri, info, converter) collects an index with.
EnableAll ==
    [DefaultOption EXCEPT !.maxLength = 0, !.maxArrayElements = 0,
                          !.blockEnd = TRUE, !.implicitCast = TRUE,
                          !.chainCall = TRUE, !.numberLiteralToHex = TRUE,
                          !.cstrLength = TRUE]

\* The option flag isAvailableWithOption reads for each kind.
Gate == [AutoDecl |-> "dedcucedType", StructureBinding |-> "dedcucedType",
         Parameter |-> "paramName", Constructor |-> "paramName",
         FunctionReturnType |-> "returnType", LambdaReturnType |-> "returnType",
         IfBlockEnd |-> "blockEnd", SwitchBlockEnd |-> "blockEnd",
         WhileBlockEnd |-> "blockEnd", ForBlockEnd |-> "blockEnd",
         NamespaceEnd |-> "blockEnd", TagDeclEnd |-> "blockEnd",
         FunctionEnd |-> "blockEnd", LambdaBodyEnd |-> "blockEnd",
         StructSizeAndAlign |-> "structSizeAndAlign",
         MemberSizeAndOffset |-> "memberSizeAndOffset",
         ImplicitCast |-> "implicitCast", ChainCall |-> "chainCall",
         NumberLiteralToHex |-> "numberLiteralToHex", CStrLength |-> "cstrLength"]

\* isAvailableWithOption
IsAvailableWithOption(k, c) ==
    CASE k = "Invalid"    -> FALSE
      [] k = "ArrayIndex" -> c.maxArrayElements > 0
      [] OTHER            -> c[Gate[k]]

SizeT == 2^SizeBits

\* What a throwing std::string::resize leaves instead of a text: a length
\* no text has.
LengthError == -1

\* shrinkHintText: a text longer than maxLength is resized to maxLength - 3
\* (size_t arithmetic) and "..." appended; the resize throws when that size
\* exceeds max_size().
ShrinkHintText(len, maxLength) ==
    IF len > maxLength
    THEN LET n == (maxLength - 3) % SizeT
         IN  IF n > MaxSize THEN LengthError ELSE n + 3
    ELSE len

=============================================================================
