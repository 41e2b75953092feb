------------------------------ MODULE GoNames ------------------------------
(***************************************************************************)
(* The names and the types of the Go facade: src/codegen/go_facade/        *)
(* support.rs, and in src/codegen/go_facade.rs the Go types of parameters  *)
(* and results.                                                            *)
(*                                                                         *)
(* A name is a sequence of words (SymbolNames), a Go type one of words,    *)
(* too.  A type of the IR has, beside the fields of TypeNorm, c: the name  *)
(* of its C type, which is not that of C++ where a typedef is used.  A     *)
(* function of the IR is                                                   *)
(*   [name, kind, cpp, owner, const, operator, accessor, params, pnames,   *)
(*    returns]                                                             *)
(* where self is left out of params, and operator is the Oper... form of   *)
(* an operator or empty.                                                   *)
(***************************************************************************)
EXTENDS SymbolNames

CONSTANT Upper              \* the capital form of the words that have another

Capital(w) == IF w \in DOMAIN Upper THEN Upper[w] ELSE w

Leaf(cpp) == Last(cpp)

IsNumeral(w) == w \in ToSet(Numeral)

\* go_export_name: underscores go, but one before a number; words get capitals.
GoExport(text) ==
    FlattenSeq([i \in DOMAIN text |->
        CASE text[i] = "_" -> << >>
          [] /\ IsNumeral(text[i]) /\ i > 1 /\ text[i - 1] = "_"
             /\ \E j \in 1 .. i - 1 : text[j] # "_" -> <<"_", text[i]>>
          [] OTHER -> <<Capital(text[i])>>])

-----------------------------------------------------------------------------
(* Go types.                                                               *)

NoGoType == <<"none">>

\* primitive_go_type; char is not among the names it knows.
PrimitiveGoType(base) ==
    CASE base \in {<<<<"int">>>>, <<<<"int32", "_", "t">>>>}  -> <<"int32">>
      [] base \in {<<<<"long">>>>, <<<<"longlong">>>>}        -> <<"int64">>
      [] base = <<<<"double">>>>                              -> <<"float64">>
      [] base = <<<<"uchar">>>>                               -> <<"uint8">>
      [] OTHER                                                -> NoGoType

\* The name in C++ is asked first, the one in C next.
KnownPrimitive(t) ==
    IF PrimitiveGoType(t.cpp.base) # NoGoType THEN PrimitiveGoType(t.cpp.base)
    ELSE PrimitiveGoType(t.c)

Prefixed(prefix, goType) == IF goType = NoGoType THEN NoGoType ELSE prefix \o goType

IsVoidPointer(t) == t.kind \in ModelKind /\ t.cpp.base = <<<<"void">>>>

\* go_type_for_ir and known_enum_go_type
GoValueType(t) ==
    CASE t.kind = "Enum"      -> Leaf(t.cpp.base)
      [] t.kind = "Primitive" -> KnownPrimitive(t)
      [] t.kind \in {"String", "CString"} -> <<"string">>
      [] OTHER                -> NoGoType

\* The elements of an array of numbers; int32 where nothing else is known.
GoElementType(t) == IF KnownPrimitive(t) = NoGoType THEN <<"int32">> ELSE KnownPrimitive(t)

\* go_model_return_type
GoModel(t) == IF IsVoidPointer(t) THEN <<"unsafe.Pointer">> ELSE GoExport(t.handle)

\* go_param_type
GoParamType(t) ==
    CASE t.kind \in {"String", "CString", "Primitive", "Enum"} -> GoValueType(t)
      [] t.kind = "FixedByteArray"           -> <<"[]", "byte">>
      [] t.kind = "FixedArray"               -> <<"[]">> \o GoElementType(t)
      [] t.kind = "FixedModelArray"          -> <<"[]", "*">> \o GoModel(t)
      [] t.kind \in {"Pointer", "Reference"} -> Prefixed(<<"*">>, KnownPrimitive(t))
      [] t.kind \in {"ExternStructPointer", "ExternStructReference"} ->
             <<"*", "C.struct">> \o Leaf(t.c)
      [] t.kind = "Callback"                 -> Leaf(t.cpp.base)
      [] t.kind \in ModelKind -> IF IsVoidPointer(t) THEN GoModel(t) ELSE <<"*">> \o GoModel(t)
      [] OTHER                               -> NoGoType

ErrorReturns == {"String", "CString", "FixedByteArray", "FixedArray", "FixedModelArray"}

\* go_return_sig, the error of ErrorReturns included; empty for void.
GoReturnSig(t) ==
    CASE t.kind = "Void"                -> << >>
      [] t.kind \in ErrorReturns        -> GoParamType(t) \o <<"error">>
      [] t.kind \in ModelKind \cup {"Pointer"} -> GoParamType(t)
      [] OTHER                          -> Prefixed(<< >>, GoValueType(t))

\* go_return_supported
ReturnSupported(t) ==
    \/ t.kind \in {"Void", "Enum"} \cup ErrorReturns \cup ModelKind
    \/ t.kind \in {"Primitive", "Pointer"} /\ KnownPrimitive(t) # NoGoType

ParamSupported(t) == GoParamType(t) # NoGoType

ParamsSupported(f) == \A i \in DOMAIN f.params : ParamSupported(f.params[i])

\* free_function_supported, method_supported
Supported(f) == ReturnSupported(f.returns) /\ ParamsSupported(f)

GoParams(f) == [i \in DOMAIN f.params |-> GoParamType(f.params[i])]

-----------------------------------------------------------------------------
(* Names of overloads.                                                     *)

\* The text of a type in C++, with the length of an array, which is one for all.
CppText(t) ==
    GoExport(FlattenSeq(CppWords(t.cpp))) \o (IF t.cpp.shape = "array" THEN <<"_", "len">> ELSE << >>)

\* go_overload_token
GoToken(t) ==
    CASE t.kind = "Callback"              -> GoExport(Leaf(t.cpp.base)) \o <<"Callback">>
      [] t.kind = "CString" /\ t.cpp.base = <<<<"char">>>> /\ t.cpp.shape # "array" -> <<"String">>
      [] t.kind = "Enum"                  -> GoExport(FlattenSeq(t.cpp.base))
      [] t.kind = "Primitive" /\ (t.cpp.base = t.c \/ PrimitiveGoType(t.cpp.base) # NoGoType) ->
             GoExport(GoValueType(t))
      [] t.kind = "ExternStructReference" -> GoExport(Leaf(t.c)) \o <<"Ref">>
      [] t.kind = "ExternStructPointer"   -> GoExport(Leaf(t.c)) \o <<"Ptr">>
      [] t.kind = "ModelReference"        -> GoExport(Flatten(t.cpp.base)) \o <<"Ref">>
      [] t.kind = "ModelPointer"          -> GoExport(Flatten(t.cpp.base)) \o <<"Ptr">>
      [] t.kind = "ModelValue"            -> GoExport(Flatten(t.cpp.base)) \o <<"Value">>
      [] OTHER                            -> CppText(t)

GoTokens(f) == FlattenSeq([i \in DOMAIN f.params |-> GoToken(f.params[i])])

\* go_overload_suffix
GoOverloadSuffix(f) ==
    CASE f.params = << >> /\ f.const -> << >>
      [] f.params = << >> /\ ~f.const -> <<"Mut">>
      [] f.params # << >> /\ f.const -> GoTokens(f) \o <<"Const">>
      [] OTHER -> GoTokens(f)

\* What follows the last two underscores of a symbol.
AfterUnderscores(name) ==
    LET at == {i \in 1 .. Len(name) - 1 : name[i] = "_" /\ name[i + 1] = "_"}
        last == CHOOSE i \in at : \A j \in at : j <= i
    IN  IF at = {} THEN << >> ELSE SubSeq(name, last + 2, Len(name))

\* has_disambiguated_raw_overload_suffix
IsOverload(f) ==
    LET tail == AfterUnderscores(f.name)
        suffix == OverloadSuffix(f)
    IN  tail # << >> /\
        \/ tail = suffix
        \/ \E n \in ToSet(Numeral) : tail = suffix \o <<"_", n>>

\* go_facade_dispatcher_export_name, go_method_dispatcher_export_name
DispatcherName(f) == IF f.operator # << >> THEN f.operator ELSE GoExport(Leaf(f.cpp))

\* go_facade_export_name, go_method_export_name
ExportName(f) ==
    IF IsOverload(f) THEN DispatcherName(f) \o GoOverloadSuffix(f) ELSE DispatcherName(f)

-----------------------------------------------------------------------------
(* Names of constructors; cs are those of one class, by their places.      *)

IsCopyConstructor(f) ==
    Len(f.params) = 1 /\ f.params[1].kind \in ModelKind /\ f.params[1].cpp.base = f.cpp

\* go_constructor_base_export_name
ConstructorBase(go, cs, i) ==
    CASE DOMAIN cs = {i} \/ cs[i].params = << >> -> <<"New">> \o go
      [] OTHER ->
           IF IsCopyConstructor(cs[i]) THEN <<"New">> \o go \o <<"From", "Copy">>
           ELSE <<"New">> \o go \o <<"With">> \o
                FlattenSeq([k \in DOMAIN cs[i].pnames |-> GoExport(cs[i].pnames[k])])

\* The base, with the types where another constructor has it, too.
ConstructorCandidate(go, cs, i) ==
    LET base == ConstructorBase(go, cs, i)
    IN  IF \E j \in DOMAIN cs : j # i /\ ConstructorBase(go, cs, j) = base
        THEN base \o GoTokens(cs[i]) ELSE base

Unnumbered(go, cs, i) ==                \* mutant: repetitions are not numbered
    ConstructorCandidate(go, cs, i)

\* go_constructor_export_names: repetitions are numbered.
ConstructorName(go, cs, i) ==
    LET name == ConstructorCandidate(go, cs, i)
        nth == Cardinality({j \in DOMAIN cs : j <= i /\ ConstructorCandidate(go, cs, j) = name})
    IN  IF nth = 1 THEN name ELSE name \o <<Numeral[nth]>>
=============================================================================
