------------------------------ MODULE TypeNorm ------------------------------
(***************************************************************************)
(* How src/codegen/ir_norm.rs turns the spelling of a C++ type into a type *)
(* of the IR.                                                              *)
(*                                                                         *)
(* The code works on text.  Here an identifier is the sequence of its      *)
(* words, underscores and other marks, a qualified name the sequence of    *)
(* its identifiers, and a spelling a record: a leading const, a struct     *)
(* tag, the stars, ampersands and brackets at its end, which are its       *)
(* shape, and what is left between them, its base.  Mostly that is a name, *)
(* but as in the code (base_model_cpp_type) whatever stands before the     *)
(* stars and after them belongs to it:                                     *)
(*   Foo*const    is the value of a base whose last identifier goes on     *)
(*                with the marks "*" and "const"                           *)
(*   class Foo    is one whose identifier begins with "class" and " "      *)
(*   Foo[2][3]    is an array, and Foo[] a value, of one that ends in "["  *)
(*   vector<Foo>  has the mark "<".                                        *)
(* libclang gives every type twice: as displayed, and canonical, that is   *)
(* with typedefs resolved and all qualifiers written.                      *)
(***************************************************************************)
EXTENDS Naturals, Sequences, SequencesExt

Spelled(base, const, struct, shape) ==
    [base |-> base, const |-> const, struct |-> struct, shape |-> shape]

\* Last are Foo*&, a reference to a pointer, and Foo*[3], an array of pointers.
Shape ==
    {"value", "pointer", "reference", "array", "double", "pointerreference", "pointerarray"}

ArrayShape == {"array", "pointerarray"}

Marks(base) == UNION {ToSet(base[i]) : i \in DOMAIN base}

\* Of the library, or made from a template.
IsLibrary(base) == base[1] = <<"std">> \/ "<" \in Marks(base)

\* Goes on after its name with brackets or parentheses.
IsBracketed(base) == "[" \in ToSet(Last(base))

\* A qualified pointer, or a name behind another word.
IsMarked(base) == {"*", " "} \cap Marks(base) # {}

\* The bases that are not names of the program, by how they are treated.
Builtin(base) ==
    CASE base = <<<<"void">>>>               -> "void"
      [] base = <<<<"char">>>>               -> "char"
      [] base = <<<<"uchar">>>>              -> "uchar"
      [] base \in {<<<<"int">>>>, <<<<"double">>>>} -> "primitive"
      [] base = <<<<"int32", "_", "t">>>>    -> "typedef"   \* known as a target only
      [] base = <<<<"std">>, <<"string">>>>  -> "string"
      [] base = <<<<"timeval">>>>            -> "cstruct"
      [] base = <<<<"fn">>>>                 -> "function"  \* a function pointer
      [] OTHER -> IF IsLibrary(base) THEN "library"
                  ELSE IF IsBracketed(base) THEN "bracketed"
                  ELSE IF IsMarked(base) THEN "marked" ELSE "name"

IsPrimitive(base) == Builtin(base) \in {"char", "uchar", "primitive", "typedef"}

-----------------------------------------------------------------------------
(* Types of the IR.                                                        *)

NoHandle == << >>

IrType(kind, cpp, handle) == [kind |-> kind, cpp |-> cpp, handle |-> handle]

NoType == [kind |-> "none"]

NoSpelling == [shape |-> "none"]

ModelKind == {"ModelValue", "ModelPointer", "ModelReference"}

OneOf(attempts) ==
    LET i == SelectInSeq(attempts, LAMBDA t : t # NoType)
    IN  IF i = 0 THEN NoType ELSE attempts[i]

\* flatten_qualified_cpp_name: the qualifiers run into the name.
Flatten(base) == FlattenSeq(base)

\* What a pointer, a reference, an array or a value of a class is in the IR.
ModelKindOf(s) ==
    CASE s.shape = "pointer"      -> "ModelPointer"
      [] s.shape \in {"reference", "pointerreference"} -> "ModelReference"
      [] s.shape \in ArrayShape   -> "FixedModelArray"
      [] OTHER                    -> "ModelValue"

\* An array counts as a value.
RawShape(s) ==
    CASE s.shape \in {"pointer", "double"} -> "pointer"
      [] s.shape \in {"reference", "pointerreference"} -> "reference"
      [] OTHER                             -> "value"

-----------------------------------------------------------------------------
(* Names the header, or the whole run, knows.                              *)

LeafOnly(known, base) == <<Last(known)>> = base

\* Either name may lack its qualifiers.
NamesMatch(known, base) ==
    known = base \/ LeafOnly(known, base) \/ LeafOnly(base, known)

\* enum_base_cpp_type: without the tag of an enum.
Untagged(base) ==
    IF Len(base[1]) > 2 /\ SubSeq(base[1], 1, 2) = <<"enum", " ">>
    THEN <<SubSeq(base[1], 3, Len(base[1]))>> \o Tail(base) ELSE base

\* known_enum_type_name: else the whole text is looked up, brackets included.
KnownEnum(s, enums) ==
    /\ s.shape \notin ArrayShape /\ ~s.struct
    /\ \E e \in enums : NamesMatch(e, Untagged(s.base))

ResolvedAnyShape(display, canonical, enums) ==  \* mutant: pointers are enums, too
    CASE KnownEnum(display, enums) -> display
      [] ~KnownEnum(display, enums) /\ KnownEnum(canonical, enums) -> canonical
      [] OTHER -> NoSpelling

ResolvedEnum(display, canonical, enums) ==
    CASE RawShape(display) # "value"  -> NoSpelling
      [] RawShape(display) = "value" /\ KnownEnum(display, enums) -> display
      [] RawShape(display) = "value" /\ ~KnownEnum(display, enums)
             /\ KnownEnum(canonical, enums) -> canonical
      [] OTHER -> NoSpelling

\* known_record: the first record that matches, 0 if none does.
KnownRecord(s, records) ==
    SelectInSeq(records, LAMBDA r : NamesMatch(r.cpp, s.base))

\* The stars within are not kept, nor is the const of an array.
KnownRecordType(s, records) ==
    LET i == KnownRecord(s, records)
        shape == CASE s.shape \in ArrayShape      -> "array"
                   [] s.shape = "pointerreference" -> "reference"
                   [] OTHER                        -> s.shape
    IN  IF i = 0 THEN NoType
        ELSE IrType(ModelKindOf(s),
                    Spelled(records[i].cpp, s.const /\ s.shape \notin ArrayShape, FALSE, shape),
                    records[i].handle)

-----------------------------------------------------------------------------
(* normalize_type: a spelling on its own.                                  *)

\* raw_safe_model_handle_name: the class has a name, or what is taken for one.
RawSafe(s) == ~s.struct /\ Builtin(s.base) \in {"name", "cstruct", "marked"}

ModelType(s) ==
    IF RawSafe(s) THEN IrType(ModelKindOf(s), s, Flatten(s.base)) ELSE NoType

ArrayType(s) ==
    CASE Builtin(s.base) = "char"  -> IrType("CString", s, NoHandle)
      [] Builtin(s.base) = "uchar" -> IrType("FixedByteArray", s, NoHandle)
      [] Builtin(s.base) \in {"primitive", "typedef"} -> IrType("FixedArray", s, NoHandle)
      [] OTHER                     -> ModelType(s)

ValueType(s) ==
    CASE Builtin(s.base) = "void"   -> IrType("Void", s, NoHandle)
      [] Builtin(s.base) \in {"char", "uchar", "primitive"} -> IrType("Primitive", s, NoHandle)
      [] Builtin(s.base) = "string" -> IrType("String", s, NoHandle)
      [] OTHER                      -> ModelType(s)

\* struct Tag and timeval, where they are not taken by value.
ExternStruct(s) == s.struct \/ Builtin(s.base) = "cstruct"

PointerType(s) ==
    CASE Builtin(s.base) = "char" -> IrType("CString", s, NoHandle)
      [] Builtin(s.base) = "void" /\ ~s.const ->
             IrType("ModelPointer", Spelled(s.base, FALSE, FALSE, "value"), <<"NPVOID">>)
      [] Builtin(s.base) \in {"uchar", "primitive", "typedef"} /\ ~s.const ->
             IrType("Pointer", s, NoHandle)
      [] ExternStruct(s)          -> IrType("ExternStructPointer", s, NoHandle)
      [] OTHER                    -> ModelType(s)

ReferenceType(s) ==
    CASE IsPrimitive(s.base) -> IrType("Reference", s, NoHandle)
      [] Builtin(s.base) = "string" /\ s.const -> IrType("String", s, NoHandle)
      [] ExternStruct(s)     -> IrType("ExternStructReference", s, NoHandle)
      [] OTHER               -> ModelType(s)

NormalizeType(s, callbacks) ==
    CASE s.shape = "value" /\ s.base \in callbacks -> IrType("Callback", s, NoHandle)
      [] s.shape = "value" /\ s.base \notin callbacks -> ValueType(s)
      [] s.shape = "array"     -> ArrayType(s)
      [] s.shape = "pointer"   -> PointerType(s)
      [] s.shape = "reference" -> ReferenceType(s)
      [] s.shape = "pointerreference" ->
             IF ExternStruct(s) THEN IrType("ExternStructReference", s, NoHandle) ELSE ModelType(s)
      [] s.shape = "pointerarray" -> ModelType(s)
      [] s.shape = "double"    -> NoType

-----------------------------------------------------------------------------
(* normalize_type_with_canonical: both spellings, in what the header knows *)
(* (env: its callbacks and records, and the run's enums).                  *)

CanonicalDecides ==
    {"ExternStructReference", "ExternStructPointer", "Primitive", "Reference",
     "Pointer", "String", "CString", "FixedByteArray", "FixedArray"}

SameShape(display, canonical) == RawShape(display) = RawShape(canonical)

\* What is displayed is normalized by itself to d, what is canonical to c: d,
\* unless the canonical spelling tells more.
Combined(display, canonical, d, c) ==
    CASE d = NoType -> NoType
      [] /\ display # canonical
         /\ d.kind \in ModelKind \cup {"FixedModelArray"}
         /\ c.kind \in CanonicalDecides -> [c EXCEPT !.cpp = display]
      [] /\ display # canonical
         /\ d.kind \in ModelKind \cup {"FixedModelArray"}
         /\ c.kind \in ModelKind -> [d EXCEPT !.cpp = canonical]
      [] OTHER -> d

ByDisplay(display, canonical, callbacks) ==
    Combined(display, canonical,
             NormalizeType(display, callbacks), NormalizeType(canonical, callbacks))

NormalizeWithCanonical(t, env) ==
    LET e == ResolvedEnum(t.display, t.canonical, env.enums)
        known == KnownRecordType(t.canonical, env.records)
        plain == NormalizeType(t.canonical, env.callbacks)
    IN  IF "double" \in {t.display.shape, t.canonical.shape} THEN NoType
        ELSE OneOf(<<
            IF e # NoSpelling THEN IrType("Enum", e, NoHandle) ELSE NoType,
            KnownRecordType(t.display, env.records),
            IF known # NoType /\ SameShape(t.display, t.canonical)
            THEN [known EXCEPT !.cpp.const = t.display.const] ELSE NoType,
            ByDisplay(t.display, t.canonical, env.callbacks),
            IF plain # NoType /\ SameShape(t.display, t.canonical)
            THEN [plain EXCEPT !.cpp = t.display] ELSE NoType >>)

-----------------------------------------------------------------------------
(* What a method or a function is skipped for.                             *)

TakesFunctionPointer(t) == t.fn = "plain"

NamedCallback(t, env) == t.display.base \in env.callbacks

\* function_pointer_reason
FunctionPointerReason(types, env) ==
    \E t \in types :
        \/ TakesFunctionPointer(t)
        \/ t.fn = "named" /\ ~NamedCallback(t, env)

DisplayedDoubles(types) ==              \* mutant: typedefs are not resolved
    \E t \in types : t.display.shape = "double"

\* double_pointer_reason
DoublePointerReason(types) ==
    \E t \in types : "double" \in {t.display.shape, t.canonical.shape}

\* is_raw_unsafe_by_value_object_candidate
ByValueCandidate(s) ==
    /\ s.shape \in {"value"} \cup ArrayShape
    /\ "<" \notin Marks(s.base) /\ (s.struct \/ s.base[1] # <<"std">>)
    /\ s.shape = "value" => Builtin(s.base) # "void" /\ ~IsPrimitive(s.base)

UnknownByValue(types, env) ==           \* mutant: only classes of the header pass by value
    \E t \in types :
        /\ KnownRecordType(t.canonical, env.records) = NoType
        /\ ByValueCandidate(t.display) \/ ByValueCandidate(t.canonical)

\* raw_unsafe_by_value_reason
ByValueReason(types, env) ==
    \E t \in types :
        /\ NormalizeWithCanonical(t, env) = NoType
        /\ ByValueCandidate(t.display) \/ ByValueCandidate(t.canonical)

-----------------------------------------------------------------------------
(* Preferred names of classes.                                             *)

\* model_alias_base_type
AliasBase(s) == RawSafe(s)

Underscored(base) == base[1][1] = "_"

PreferredBase(display, canonical) ==
    IF ~Underscored(display) \/ Underscored(canonical) THEN display ELSE canonical

GivesAlias(t) ==
    /\ AliasBase(t.display) /\ AliasBase(t.canonical)
    /\ PreferredBase(t.display.base, t.canonical.base) # t.canonical.base

\* The first typedef in a sequence of types that stands for the class.
PreferredName(cpp, types) ==
    LET i == SelectInSeq(types, LAMBDA t : GivesAlias(t) /\ t.canonical.base = cpp)
    IN  IF i = 0 THEN cpp ELSE types[i].display.base
=============================================================================
