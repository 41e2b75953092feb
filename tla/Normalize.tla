----------------------------- MODULE Normalize -----------------------------
(***************************************************************************)
(* normalize() of src/codegen/ir_norm.rs as the commands run it: every     *)
(* declaration the parser found becomes C wrappers, is skipped, or ends    *)
(* the run.  First all headers are normalized as one, which is all that    *)
(* cgo-gen check does; cgo-gen generate then normalizes each header on its *)
(* own.                                                                    *)
(*                                                                         *)
(* What the parser finds is the input, in Inputs.  Preferred names of      *)
(* classes and the enums are known for all headers together, records and   *)
(* callbacks only for the header at hand.  Of an IR function, self is left *)
(* out of params, and the canonical types of the C++ call that its wrapper *)
(* makes are kept beside its own (takes, gives), for the properties.       *)
(***************************************************************************)
EXTENDS SymbolNames

CONSTANTS
    Inputs,                 \* sequences of headers to normalize
    Upper                   \* the capital form of the words that have another

(* A type is a display, a canonical spelling and fn, which tells whether it  *)
(* is a function pointer ("plain"), one by a typedef ("named"), or not.      *)
(* A parameter is a type and whether it has a default.  A callable is        *)
(*   [ns, name, tail, const, friend, params, returns, supported]             *)
(* where tail is name, but the Oper... form of an operator, and friend tells *)
(* an operator that a class declares as a friend.  A record is               *)
(*   [ns, name, struct, abstract, constructors, methods, operators, fields]  *)
(* and a header                                                              *)
(*   [records, functions, operators, callbacks, enums].                      *)

Qualified(d) == Append(d.ns, d.name)

ParamTypes(params) == [i \in DOMAIN params |-> params[i].type]

CallableTypes(c) == <<c.returns>> \o ParamTypes(c.params)

AllTypes(callables) == FlattenSeq([i \in DOMAIN callables |-> CallableTypes(callables[i])])

RecordTypes(r) ==
    [i \in DOMAIN r.fields |-> r.fields[i].type]
        \o FlattenSeq([i \in DOMAIN r.constructors |-> ParamTypes(r.constructors[i].params)])
        \o AllTypes(r.methods)

\* The types in which collect_preferred_model_aliases looks for typedefs, in
\* its order.
AliasTypes(records, callables, callbacks) ==
    FlattenSeq([i \in DOMAIN records |-> RecordTypes(records[i])])
        \o AllTypes(callables) \o AllTypes(callbacks)

OperatorTypes(x) ==
    ToSet(AllTypes(x.operators))
        \cup UNION {ToSet(AllTypes(x.records[i].operators)) : i \in DOMAIN x.records}

OtherTypes(x) == ToSet(AliasTypes(x.records, x.functions, x.callbacks))

Signature(params) == [i \in DOMAIN params |-> params[i].type.canonical]

\* Of one name: of records, members of one class.
SameGroup(c, d) == Qualified(c) = Qualified(d) /\ c.const = d.const /\ c.friend = d.friend

-----------------------------------------------------------------------------
(* What libclang gives of legal C++.                                       *)

\* s is a sequence, of whatever it holds.
IsSeq(s) == s \in Seq(ToSet(s))

\* A name has a leaf, and none of its identifiers is empty.
IsName(base) == IsSeq(base) /\ base # << >> /\ \A i \in DOMAIN base : IsSeq(base[i]) /\ base[i] # << >>

Bracketed(s) == Builtin(s.base) = "bracketed"

\* A canonical spelling has no tag; an array is one, or decays to a pointer, and
\* a tag hides nothing else; brackets within end in those of an array, or are
\* empty; a class is displayed as itself, by a typedef, or by one of the
\* library's, with words before its name or brackets after it.
IsType(t) ==
    /\ IsName(t.display.base) /\ IsName(t.canonical.base)
    /\ {t.display.shape, t.canonical.shape} \subseteq Shape
    /\ \A s \in {t.display, t.canonical} : Bracketed(s) => s.shape \in {"value", "array"}
    /\ ~t.canonical.struct /\ Untagged(t.canonical.base) = t.canonical.base
    /\ t.display.shape = "array" => t.canonical.shape \in {"array", "pointer", "double", "pointerarray"}
    /\ t.display.shape = "pointerarray" => t.canonical.shape \in {"pointerarray", "double"}
    /\ t.display.struct /\ ~Bracketed(t.display) =>
          t.display.shape \in {t.canonical.shape} \cup ArrayShape /\ ~Bracketed(t.canonical)
    /\ Builtin(t.canonical.base) = "name" =>
          Builtin(t.display.base) \in {"name", "library", "marked", "bracketed"}

\* Overloads differ in their parameters.
Overloads(callables) ==
    /\ IsSeq(callables)
    /\ \A i \in DOMAIN callables :
          /\ IsSeq(callables[i].params) /\ IsSeq(callables[i].ns)
          /\ {callables[i].const, callables[i].friend} \subseteq BOOLEAN
    /\ \A i, j \in DOMAIN callables :
          SameGroup(callables[i], callables[j])
              /\ Signature(callables[i].params) = Signature(callables[j].params) => i = j

\* Only operators are friends, as the parser collects them.
IsRecord(r) ==
    /\ IsName(Qualified(r)) /\ Builtin(Qualified(r)) = "name" /\ IsSeq(r.fields)
    /\ Overloads(r.constructors) /\ Overloads(r.methods) /\ Overloads(r.operators)
    /\ \A c \in ToSet(r.constructors) : c.ns = r.ns /\ c.name = r.name /\ ~c.const /\ ~c.friend
    /\ \A c \in ToSet(r.methods) : c.ns = r.ns /\ ~c.friend
    /\ \A c \in ToSet(r.operators) : c.ns = r.ns /\ (c.friend => ~c.const)
    /\ \A c \in ToSet(r.operators), d \in ToSet(r.methods) : c.name # d.name

IsHeader(x) ==
    /\ \A t \in OperatorTypes(x) \cup OtherTypes(x) : IsType(t)
    /\ IsSeq(x.records) /\ \A r \in ToSet(x.records) : IsRecord(r)
    /\ \A i, j \in DOMAIN x.records : Qualified(x.records[i]) = Qualified(x.records[j]) => i = j
    /\ Overloads(x.functions) /\ Overloads(x.operators)
    /\ \A c \in ToSet(x.functions) \cup ToSet(x.operators) : ~c.const /\ ~c.friend
    /\ \A c \in ToSet(x.functions) :
          \A o \in ToSet(x.operators) \cup UNION {ToSet(r.operators) : r \in ToSet(x.records)} :
              c.name # o.name
    /\ IsSeq(x.callbacks) /\ \A c \in ToSet(x.callbacks) : IsSeq(c.params)
    /\ \A e \in x.enums : IsName(e) /\ Builtin(e) = "name"

ASSUME InputsAssumption ==
    \A input \in Inputs : IsSeq(input) /\ \A x \in ToSet(input) : IsHeader(x)

VARIABLES
    headers,                \* the input
    at,                     \* the header at hand, 0 for all of them as one
    next,                   \* ... and its next declaration
    env,                    \* NormalizeEnv: the names the header knows
    functions,              \* functions of the header so far
    skipped,                \* skipped_declarations so far
    whole,                  \* the skips of all headers as one, once that is done
    ir,                     \* of each header gone through: functions, opaques, records, skipped
    fault                   \* what ended the run, or "none"

vars == <<headers, at, next, env, functions, skipped, whole, ir, fault>>

-----------------------------------------------------------------------------
(* What is known before a header is normalized.                            *)

Everywhere(part(_)) == FlattenSeq([h \in DOMAIN headers |-> part(headers[h])])

\* ParsedApi as it is, and filter_to_header.
HeaderAt(h) ==
    IF h > 0 THEN headers[h]
    ELSE [records   |-> Everywhere(LAMBDA x : x.records),
          functions |-> Everywhere(LAMBDA x : x.functions),
          operators |-> Everywhere(LAMBDA x : x.operators),
          callbacks |-> Everywhere(LAMBDA x : x.callbacks)]

HeaderAliases(h) ==                     \* mutant: typedefs of other headers are not seen
    LET x == HeaderAt(h) IN AliasTypes(x.records, x.functions, x.callbacks)

PreferredAliases(h) ==
    AliasTypes(Everywhere(LAMBDA x : x.records), Everywhere(LAMBDA x : x.functions),
               Everywhere(LAMBDA x : x.callbacks))

\* collect_ir_records
IrRecords(h) ==
    LET records == HeaderAt(h).records
        types == PreferredAliases(h)
    IN  [i \in DOMAIN records |->
            [cpp    |-> Qualified(records[i]),
             handle |-> Flatten(PreferredName(Qualified(records[i]), types))]]

KnownEnums == UNION {headers[h].enums : h \in DOMAIN headers}

\* callback_name_set: each typedef with and without its namespace.
CallbackNames(h) ==
    LET callbacks == HeaderAt(h).callbacks
    IN  UNION {{<<callbacks[i].name>>, Qualified(callbacks[i])} : i \in DOMAIN callbacks}

NormalizeEnv(h) ==
    [callbacks |-> CallbackNames(h), enums |-> KnownEnums, records |-> IrRecords(h)]

-----------------------------------------------------------------------------
(* Default arguments: a wrapper for every number of arguments a call may   *)
(* have, but each list of parameter types once among the overloads.        *)

Cut(c, n) == Signature(SubSeq(c.params, 1, n))

Lengths(c) ==
    {n \in 0 .. Len(c.params) : \A k \in n + 1 .. Len(c.params) : c.params[k].default}

OffersAny(callables, i, n) == TRUE      \* mutant: declared overloads do not come first

\* A shortened list stands back if an overload declares it in full.
Offers(callables, i, n) ==
    \/ n = Len(callables[i].params)
    \/ \A j \in DOMAIN callables : SameGroup(callables[i], callables[j]) =>
           Signature(callables[j].params) # Cut(callables[i], n)

VariantsUnchecked(callables, i) ==      \* mutant: emitted_signatures is not asked
    {n \in Lengths(callables[i]) : Offers(callables, i, n)}

\* default_argument_param_variants, as numbers of parameters
Variants(callables, i) ==
    {n \in Lengths(callables[i]) :
        /\ Offers(callables, i, n)
        /\ \A j \in 1 .. i - 1 : SameGroup(callables[i], callables[j]) =>
              \A m \in Lengths(callables[j]) : Offers(callables, j, m) =>
                  Cut(callables[j], m) # Cut(callables[i], n)}

-----------------------------------------------------------------------------
(* One variant of a callable: what comes of it is a function, a skip or a  *)
(* failure.                                                                *)

Emit(f) == [out |-> "emit", function |-> f]
Skip(cpp) == [out |-> "skip", cpp |-> cpp]
Failure == [out |-> "fail"]

TypesOf(params) == {params[i].type : i \in DOMAIN params}

\* callable_skip_reason
SkipReason(c, params) ==
    \/ c.returns.fn # "no"
    \/ FunctionPointerReason(TypesOf(params), env)
    \/ DoublePointerReason(TypesOf(params) \cup {c.returns})
    \/ ByValueReason(TypesOf(params) \cup {c.returns}, env)

\* Constructors have the by-value check left out.
ConstructorSkipReason(params) ==
    \/ FunctionPointerReason(TypesOf(params), env)
    \/ DoublePointerReason(TypesOf(params))

Function(name, kind, cpp, owner, const, params, returns, c) ==
    [name |-> name, kind |-> kind, cpp |-> cpp, owner |-> owner, const |-> const,
     accessor |-> "", params |-> [i \in DOMAIN params |-> NormalizeWithCanonical(params[i].type, env)],
     returns |-> returns, takes |-> Signature(params), gives |-> c.returns.canonical]

ParamsFail(params) ==
    \E i \in DOMAIN params : NormalizeWithCanonical(params[i].type, env) = NoType

\* normalize_function, normalize_method and normalize_operator; owner is the
\* record, with its handle, or none.
NormalizeCallable(c, n, owner) ==
    LET params == SubSeq(c.params, 1, n)
        cpp == IF owner = << >> THEN Qualified(c) ELSE Append(owner[1].cpp, c.name)
        returns == NormalizeWithCanonical(c.returns, env)
    IN  IF ~c.supported \/ SkipReason(c, params) THEN Skip(cpp)
        ELSE IF ParamsFail(params) \/ returns = NoType THEN Failure
        ELSE IF owner = << >>
        THEN Emit(Function(SymbolName(c.ns, << >>, c.tail), "Function", cpp, NoHandle,
                           FALSE, params, returns, c))
        ELSE Emit(Function(SymbolName(Front(owner[1].cpp), <<Last(owner[1].cpp)>>, c.tail),
                           "Method", cpp, owner[1].handle, c.const, params, returns, c))

SelfType(record, const) ==
    IrType("Opaque", Spelled(record.cpp, const, FALSE, "pointer"), record.handle)

NormalizeConstructor(c, n, record) ==
    LET params == SubSeq(c.params, 1, n)
    IN  IF ConstructorSkipReason(params) THEN Skip(record.cpp)
        ELSE IF ParamsFail(params) THEN Failure
        ELSE Emit(Function(SymbolName(Front(record.cpp), <<Last(record.cpp)>>, <<"new">>),
                           "Constructor", record.cpp, record.handle, FALSE, params,
                           SelfType(record, FALSE), c))

\* All variants of a callable, the full list first, and of all callables.
VariantsOf(callables, i, Outcome(_, _)) ==
    LET full == Len(callables[i].params)
    IN  FlattenSeq([k \in 1 .. full + 1 |->
            IF full + 1 - k \in Variants(callables, i)
            THEN <<Outcome(callables[i], full + 1 - k)>> ELSE << >>])

AllVariants(callables, Outcome(_, _)) ==
    FlattenSeq([i \in DOMAIN callables |-> VariantsOf(callables, i, Outcome)])

-----------------------------------------------------------------------------
(* Accessors of the fields of a struct.                                    *)

Capital(w) == IF w \in DOMAIN Upper THEN Upper[w] ELSE w

\* struct_field_accessor_suffix: underscores go, what follows them is capital.
AccessorSuffix(name) ==
    LET words == {i \in DOMAIN name : name[i] # "_"}
        nth(n) == CHOOSE i \in words : Cardinality({j \in words : j <= i}) = n
    IN  [n \in 1 .. Cardinality(words) |->
            IF nth(n) = 1 \/ nth(n) - 1 \notin words THEN Capital(name[nth(n)])
            ELSE name[nth(n)]]

AccessibleKind ==
    {"Primitive", "Enum", "ModelValue", "CString", "FixedByteArray", "FixedArray",
     "FixedModelArray"}

Accessor(record, kind, tail, const, params, returns) ==
    [name |-> SymbolName(Front(record.cpp), <<Last(record.cpp)>>, tail),
     kind |-> "Method", cpp |-> Append(record.cpp, tail), owner |-> record.handle,
     const |-> const, accessor |-> kind, params |-> params, returns |-> returns,
     takes |-> << >>, gives |-> NoSpelling]

Value(base) == IrType("Primitive", Spelled(<<<<base>>>>, FALSE, FALSE, "value"), NoHandle)

Void == IrType("Void", Spelled(<<<<"void">>>>, FALSE, FALSE, "value"), NoHandle)

ElementPointer(t) ==
    IrType("ModelPointer", Spelled(t.cpp.base, FALSE, FALSE, "pointer"), t.handle)

\* make_struct_field_getter: a field that is an object is given by pointer.
Getter(record, tail, t) ==
    IF t.kind = "ModelValue"
    THEN Accessor(record, "Get", tail, FALSE, << >>, ElementPointer(t))
    ELSE Accessor(record, "Get", tail, TRUE, << >>, t)

Getters(record, suffix, t) ==
    <<Getter(record, <<"Get">> \o suffix, t)>> \o
    (IF t.kind # "FixedModelArray" THEN << >> ELSE
        <<Accessor(record, "GetAt", <<"Get">> \o suffix \o <<"At">>, TRUE,
                   <<Value("int")>>, ElementPointer(t))>>)

Setters(record, suffix, t) ==
    <<Accessor(record, "Set", <<"Set">> \o suffix, FALSE, <<t>>, Void)>> \o
    (IF t.kind # "FixedModelArray" THEN << >> ELSE
        <<Accessor(record, "SetAt", <<"Set">> \o suffix \o <<"At">>, FALSE,
                   <<Value("int"), ElementPointer(t)>>, Void)>>)

ReadOnly(t) == t.display.const \/ t.canonical.const

\* The accessors of one field, none if a method has the getter's name.
FieldAccessors(r, record, field) ==
    LET suffix == AccessorSuffix(field.name)
        methods == {r.methods[i].name : i \in DOMAIN r.methods}
        t == NormalizeWithCanonical(field.type, env)
    IN  IF \/ field.type.fn # "no" \/ <<"Get">> \o suffix \in methods
           \/ t.kind \notin AccessibleKind
        THEN << >>
        ELSE Getters(record, suffix, t) \o
             (IF <<"Set">> \o suffix \in methods \/ ReadOnly(field.type) THEN << >>
              ELSE Setters(record, suffix, t))

\* normalize_struct_fields
StructFields(r, record) ==
    IF r.struct
    THEN FlattenSeq([i \in DOMAIN r.fields |-> FieldAccessors(r, record, r.fields[i])])
    ELSE << >>

-----------------------------------------------------------------------------
(* normalize_record                                                        *)

Lifecycle(record, tail, kind, returns) ==
    [name |-> SymbolName(Front(record.cpp), <<Last(record.cpp)>>, <<tail>>),
     kind |-> kind, cpp |-> record.cpp, owner |-> record.handle, const |-> FALSE,
     accessor |-> "", params |-> << >>, returns |-> returns, takes |-> << >>, gives |-> NoSpelling]

\* Of an abstract class no constructor; one without parameters if none is declared.
Constructors(r, record) ==
    IF r.abstract THEN <<Skip(record.cpp)>>
    ELSE IF r.constructors = << >>
    THEN <<Emit(Lifecycle(record, "new", "Constructor", SelfType(record, FALSE)))>>
    ELSE AllVariants(r.constructors, LAMBDA c, n : NormalizeConstructor(c, n, record))

NoConstructorLeft(r, record) ==
    /\ ~r.abstract /\ r.constructors # << >>
    /\ LET made == Constructors(r, record) IN \A i \in DOMAIN made : made[i].out = "skip"

\* All that becomes of a record: constructors, destructor, methods, operators,
\* fields; an operator that is a friend becomes a function.
RecordOutcomes(r, record) ==
    Constructors(r, record)
        \o <<Emit(Lifecycle(record, "delete", "Destructor", Void))>>
        \o AllVariants(r.methods, LAMBDA c, n : NormalizeCallable(c, n, <<record>>))
        \o AllVariants(r.operators, LAMBDA c, n :
                NormalizeCallable(c, n, IF c.friend THEN << >> ELSE <<record>>))
        \o LET made == StructFields(r, record)
            IN  [i \in DOMAIN made |-> Emit(made[i])]

-----------------------------------------------------------------------------
(* Actions.                                                                *)

This == HeaderAt(at)
Running == fault = "none" /\ at <= Len(headers)

Init ==
    /\ headers \in Inputs
    /\ at = 0 /\ next = 1
    /\ env = NormalizeEnv(0)
    /\ functions = << >> /\ skipped = {}
    /\ whole = {}
    /\ ir = << >>
    /\ fault = "none"

\* Functions are collected and skips recorded; the first failure ends the run.
Take(outcomes) ==
    LET emitted == FlattenSeq([i \in DOMAIN outcomes |->
            IF outcomes[i].out = "emit" THEN <<outcomes[i].function>> ELSE << >>])
    IN  IF \E i \in DOMAIN outcomes : outcomes[i].out = "fail"
        THEN fault' = "type" /\ UNCHANGED <<next, functions, skipped>>
        ELSE /\ functions' = functions \o emitted
             /\ skipped' = skipped \cup
                    {outcomes[i].cpp : i \in {j \in DOMAIN outcomes : outcomes[j].out = "skip"}}
             /\ next' = next + 1
             /\ UNCHANGED fault

FirstFunction == Len(This.records) + 1
FirstOperator == FirstFunction + Len(This.functions)
FirstCallback == FirstOperator + Len(This.operators)
End == FirstCallback + Len(This.callbacks)

NormalizeRecord ==
    /\ Running /\ next \in 1 .. FirstFunction - 1
    /\ LET r == This.records[next]
            record == env.records[SelectInSeq(env.records, LAMBDA x : x.cpp = Qualified(r))]
        IN  IF NoConstructorLeft(r, record)
            THEN fault' = "constructors" /\ UNCHANGED <<next, functions, skipped>>
            ELSE Take(RecordOutcomes(r, record))
    /\ UNCHANGED <<headers, at, env, whole, ir>>

FreeCallable(c, n) == NormalizeCallable(c, n, << >>)

NormalizeFunction ==
    /\ Running /\ next \in FirstFunction .. FirstOperator - 1
    /\ Take(VariantsOf(This.functions, next - FirstFunction + 1, FreeCallable))
    /\ UNCHANGED <<headers, at, env, whole, ir>>

NormalizeOperator ==
    /\ Running /\ next \in FirstOperator .. FirstCallback - 1
    /\ Take(VariantsOf(This.operators, next - FirstOperator + 1, FreeCallable))
    /\ UNCHANGED <<headers, at, env, whole, ir>>

\* A callback typedef makes no function, but its types must be known.
NormalizeCallback ==
    /\ Running /\ next \in FirstCallback .. End - 1
    /\ LET c == This.callbacks[next - FirstCallback + 1] IN
        IF ParamsFail(c.params) \/ NormalizeWithCanonical(c.returns, env) = NoType
        THEN fault' = "type" /\ UNCHANGED next
        ELSE next' = next + 1 /\ UNCHANGED fault
    /\ UNCHANGED <<headers, at, env, functions, skipped, whole, ir>>

TypesIn(f) == {f.returns} \cup {f.params[i] : i \in DOMAIN f.params}

ReturnsOnly(fs) ==                      \* mutant: parameters are not looked at
    {env.records[i].handle : i \in DOMAIN env.records} \cup
    {t.handle : t \in {u \in {fs[i].returns : i \in DOMAIN fs} : u.kind \in ModelKind}}

\* collect_referenced_opaque_types, beside the header's own records
OpaqueTypes(fs) ==
    {env.records[i].handle : i \in DOMAIN env.records} \cup
    {t.handle : t \in {u \in UNION {TypesIn(fs[i]) : i \in DOMAIN fs} : u.kind \in ModelKind}}

\* Opaque types, unique symbols, and on to the next header.
FinishHeader ==
    /\ Running /\ next = End
    /\ LET named == AssignUnique(functions) IN
        IF SymbolsUnique(named)
        THEN /\ IF at = 0
                THEN whole' = skipped /\ UNCHANGED ir
                ELSE /\ ir' = Append(ir, [functions |-> named, opaques |-> OpaqueTypes(functions),
                                          records |-> env.records, skipped |-> skipped])
                     /\ UNCHANGED whole
             /\ at' = at + 1 /\ next' = 1
             /\ env' = IF at < Len(headers) THEN NormalizeEnv(at + 1) ELSE env
             /\ functions' = << >> /\ skipped' = {}
             /\ UNCHANGED fault
        ELSE fault' = "collision" /\ UNCHANGED <<at, next, env, functions, skipped, whole, ir>>
    /\ UNCHANGED headers

Next ==
    \/ NormalizeRecord \/ NormalizeFunction \/ NormalizeOperator
    \/ NormalizeCallback \/ FinishHeader

Spec == Init /\ [][Next]_vars

-----------------------------------------------------------------------------
(* What the headers mention, and which of them are free of the cases in    *)
(* which names mislead.                                                    *)

AliasedTypes == UNION {OtherTypes(headers[h]) : h \in DOMAIN headers}

MentionedTypes == AliasedTypes \cup UNION {OperatorTypes(headers[h]) : h \in DOMAIN headers}

RecordNames ==
    UNION {{Qualified(headers[h].records[i]) : i \in DOMAIN headers[h].records} :
              h \in DOMAIN headers}

ProgramNames ==
    RecordNames \cup KnownEnums
        \cup {b \in {t.canonical.base : t \in MentionedTypes} : Builtin(b) = "name"}

\* Nothing that is mentioned has the unqualified name of a class or enum other
\* than what it stands for, and no class goes by the name of a callback.
UniqueLeaves ==
    \A t \in MentionedTypes :
        /\ \A n \in ProgramNames :
              Last(n) \in {Last(t.display.base), Last(Untagged(t.display.base)),
                          Last(t.canonical.base)} => t.canonical.base = n
        /\ Builtin(t.canonical.base) = "name" =>
              {t.display.base, t.canonical.base} \cap CallbackNames(0) = {}

\* No typedef hides a pointer, and no parameter is an array of enums.
NoHiddenPointers ==
    \A t \in MentionedTypes :
        \/ t.display.shape = t.canonical.shape
        \/ /\ t.display.shape \in ArrayShape \/ Bracketed(t.display)
           /\ t.canonical.base \notin KnownEnums

NameOf(b) ==
    IF \E t \in MentionedTypes : t.canonical.base = b
    THEN (CHOOSE t \in MentionedTypes : t.canonical.base = b).display.base ELSE b

\* A class is written in one way everywhere, not with a leading underscore if it
\* has a name without, not by a typedef in operators only or of the library; and
\* the names of two classes differ without their colons.
ConsistentNames ==
    /\ \A t \in MentionedTypes : Builtin(t.canonical.base) = "name" =>
          /\ t.display.base = NameOf(t.canonical.base)
          /\ t.display.base = t.canonical.base \/
                (t \in AliasedTypes /\ AliasBase(t.display) /\ ~Underscored(t.display.base))
    /\ \A m, n \in ProgramNames : Flatten(NameOf(m)) = Flatten(NameOf(n)) => m = n

-----------------------------------------------------------------------------
(* Properties.                                                             *)

IrKind ==
    ModelKind \cup AccessibleKind
        \cup {"Void", "String", "Pointer", "Reference", "ExternStructPointer",
              "ExternStructReference", "Callback", "Opaque"}

\* Just the types that stand for a class have a handle.
WellFormed(t) ==
    /\ t.kind \in IrKind
    /\ t.handle # NoHandle <=> t.kind \in ModelKind \cup {"FixedModelArray", "Opaque"}

TypeOK ==
    /\ at \in 0 .. Len(headers) + 1
    /\ at <= Len(headers) => next \in 1 .. End
    /\ at > 0 => Len(ir) = at - 1
    /\ \A i \in DOMAIN functions : \A t \in TypesIn(functions[i]) : WellFormed(t)
    /\ fault \in {"none", "type", "constructors", "collision"}

FinishedFunctions == UNION {{ir[h].functions[i] : i \in DOMAIN ir[h].functions} : h \in DOMAIN ir}

FromCpp == {f \in FinishedFunctions : f.accessor = "" /\ f.kind # "Destructor"}

\* What the wrappers take and give, next to what C++ does; and those that C++
\* spells as a class, with nothing but its name for a base.
Positions ==
    (UNION {{<<f.params[k], f.takes[k]>> : k \in DOMAIN f.params} : f \in FromCpp})
        \cup {<<f.returns, f.gives>> : f \in {g \in FromCpp : g.kind # "Constructor"}}

ClassPositions ==
    {p \in Positions : Builtin(p[2].base) = "name" /\ p[2].base \notin KnownEnums}

\* References to pointers and arrays of pointers, of which the code leaves out
\* the pointer.
HasPointersWithin(s) == s.shape \in {"pointerreference", "pointerarray"}

\* An object that C++ takes or gives by value, pointer or reference is taken or
\* given so by its wrapper, and an enum is never mistaken for a class: both
\* spellings of a type are looked up by unqualified names, display first
\* (normalize_type_with_canonical).  It does not hold, and is not claimed, of
\* Foo*const, which becomes the value of a class of its own (its base is not the
\* name of Foo, so it is no class position), of Foo*&, which becomes a reference
\* to Foo, and of Foo*[3], which becomes an array of Foo.
KindsFit ==
    UniqueLeaves /\ NoHiddenPointers =>
        /\ \A p \in Positions :
              p[1].kind = "Enum" <=> p[2].base \in KnownEnums /\ p[2].shape = "value"
        /\ \A p \in {q \in ClassPositions : ~HasPointersWithin(q[2])} :
              /\ p[1].kind = "ModelValue" <=> p[2].shape = "value"
              /\ p[1].kind \in {"ModelReference", "ExternStructReference"}
                    <=> p[2].shape = "reference"

\* All headers of a package have one handle for a class, and a handle stands
\* for one class, whether it is taken by value, pointer, reference or in an
\* array, with pointers within or without: stable_class_handle_name,
\* known_record and raw_safe_model_handle_name find it on three different ways.
\* Not claimed of Foo*const and Foo*const*, whose base is not the name of a class:
\* the code gives them a handle other than that of Foo.
HandlesNameClasses ==
    UniqueLeaves /\ ConsistentNames =>
        LET handles ==
                {<<p[2].base, p[1].handle>> : p \in {q \in ClassPositions :
                    q[1].kind \in ModelKind \cup {"FixedModelArray"}}}
                \cup UNION {{<<ir[h].records[i].cpp, ir[h].records[i].handle>> :
                                i \in DOMAIN ir[h].records} : h \in DOMAIN ir}
        IN  \A c, d \in handles : c[1] = d[1] <=> c[2] = d[2]

HasForm(h, cpp, c) ==
    \E i \in DOMAIN ir[h].functions :
        LET f == ir[h].functions[i]
        IN  /\ f.accessor = "" /\ f.cpp = cpp /\ f.const = c.const
            /\ f.takes = Signature(c.params) /\ f.gives = c.returns.canonical

\* A friend operator is declared in one class, and not again outside.
FriendsOnce(x) ==
    LET friends(r) == {c \in ToSet(r.operators) : c.friend} IN
    \A i \in DOMAIN x.records : \A c \in friends(x.records[i]) :
        \A d \in ToSet(x.operators)
                 \cup UNION {friends(x.records[j]) : j \in (DOMAIN x.records) \ {i}} :
            Qualified(c) # Qualified(d)

\* Every overload has a wrapper of its own for its full list of parameters,
\* which returns what it returns, or is recorded as skipped; and no C++ call
\* has two wrappers, however defaults shorten the lists
\* (default_argument_param_variants).
DeclarationsAccountedFor ==
    \A h \in DOMAIN ir :
        LET Accounted(c, cpp) == HasForm(h, cpp, c) \/ cpp \in ir[h].skipped IN
        /\ \A c \in ToSet(headers[h].functions) \cup ToSet(headers[h].operators) :
              Accounted(c, Qualified(c))
        /\ \A r \in ToSet(headers[h].records) :
              /\ \A c \in ToSet(r.constructors) : Accounted(c, Qualified(r))
              /\ \A c \in ToSet(r.methods) \cup ToSet(r.operators) :
                    Accounted(c, IF c.friend THEN Qualified(c) ELSE Append(Qualified(r), c.name))
        /\ FriendsOnce(headers[h]) =>
              \A i, j \in {k \in DOMAIN ir[h].functions : ir[h].functions[k] \in FromCpp} :
                  LET f == ir[h].functions[i] g == ir[h].functions[j]
                  IN  f.kind = g.kind /\ f.cpp = g.cpp /\ f.const = g.const /\ f.takes = g.takes
                        => i = j

CallablesOf(x) ==
    (UNION {{x.records[i].methods[j] : j \in DOMAIN x.records[i].methods}
              \cup {x.records[i].operators[j] : j \in DOMAIN x.records[i].operators} :
                i \in DOMAIN x.records})
        \cup {x.functions[i] : i \in DOMAIN x.functions}
        \cup {x.operators[i] : i \in DOMAIN x.operators}

IsPlain(identifier) == \A i \in DOMAIN identifier : identifier[i] # "_"

\* No name the headers declare or mention has an underscore.
PlainNames ==
    /\ \A n \in ProgramNames \cup {t.display.base : t \in MentionedTypes} :
          Builtin(n) = "name" => \A i \in DOMAIN n : IsPlain(n[i])
    /\ \A h \in DOMAIN headers : \A c \in CallablesOf(headers[h]) :
          IsPlain(c.tail) /\ \A i \in DOMAIN c.ns : IsPlain(c.ns[i])

FreeNames(x) ==
    {Append(c.ns, c.tail) : c \in ToSet(x.functions) \cup ToSet(x.operators)
        \cup {o \in UNION {ToSet(r.operators) : r \in ToSet(x.records)} : o.friend}}

\* Overloads are declared in one header.
OverloadsTogether ==
    \A g, h \in DOMAIN headers : g # h =>
        FreeNames(headers[g]) \cap FreeNames(headers[h]) = {}

\* Suffixes and numbers make symbols unique, whatever is overloaded: a header
\* without underscores in its names never fails for a collision; and though they
\* are made unique header by header and all headers are linked together, no two
\* headers define one symbol (assign_unique_function_symbols,
\* ensure_unique_function_symbols).
SymbolsMeetNowhere ==
    PlainNames =>
        /\ fault # "collision"
        /\ OverloadsTogether =>
              \A g, h \in DOMAIN ir :
                  \A i \in DOMAIN ir[g].functions, j \in DOMAIN ir[h].functions :
                      ir[g].functions[i].name = ir[h].functions[j].name => g = h /\ i = j

IsNamed(t) ==
    {Builtin(t.display.base), Builtin(t.canonical.base)} \subseteq {"name", "marked", "bracketed"}

IsPlainValue(t) ==
    t.display.shape = "value" /\ t.canonical = t.display
        /\ Builtin(t.display.base) \in {"void", "primitive"}

TaggedArray(t) == t.display.struct /\ t.display.shape = "array"

\* Constructors are not asked for values they cannot take, nor callbacks for
\* double pointers either.
UncheckedFit ==
    \A x \in ToSet(headers) :
        /\ \A r \in ToSet(x.records) : \A c \in ToSet(r.constructors) :
              \A t \in TypesOf(c.params) : ~TaggedArray(t) /\ ~Bracketed(t.display)
        /\ \A c \in ToSet(x.callbacks) : \A t \in TypesOf(c.params) \cup {c.returns} :
              /\ ~TaggedArray(t) /\ ~Bracketed(t.display)
              /\ "double" \notin {t.display.shape, t.canonical.shape}

\* A header that mentions, beside numbers, only classes and enums is never given
\* up for a type, whatever pointers, arrays, typedefs and tags are around them:
\* what cannot be translated is skipped (the three skip reasons cover what
\* normalize_type_with_canonical refuses).
ClassesNeverAbort ==
    UncheckedFit /\ (\A t \in MentionedTypes : t.fn = "no" /\ (IsNamed(t) \/ IsPlainValue(t)))
    => fault # "type"

\* A header that takes callbacks by a typedef declares the typedef.
OwnCallbacks ==
    \A h \in DOMAIN headers :
        \A t \in OtherTypes(headers[h]) \cup OperatorTypes(headers[h]) :
            t.display.base \in CallbackNames(0) => t.display.base \in CallbackNames(h)

\* What check reports of all headers as one is what generate comes to, header
\* by header: where the one passes, so does the other, with the same skips
\* (names of other headers are known to the one and not to the other; an array
\* with a tag, struct Foo a[2], is translated only where Foo is known).
CheckForetellsGenerate ==
    PlainNames /\ OwnCallbacks /\ (\A t \in MentionedTypes : ~TaggedArray(t)) =>
        /\ at > 0 => fault = "none"
        /\ at > Len(headers) => whole = UNION {ir[h].skipped : h \in DOMAIN ir}

\* The IR of a header is complete in itself: its types are well formed, and every
\* handle that a wrapper takes or gives is an opaque type of its header, which
\* declares it in C (collect_referenced_opaque_types); for arrays only the
\* accessors see to it.
HandlesDeclared ==
    /\ TypeOK
    /\ \A h \in DOMAIN ir : \A i \in DOMAIN ir[h].functions :
          LET f == ir[h].functions[i] IN
          \A t \in TypesIn(f) :
              t.kind \in ModelKind \/ (t.kind = "FixedModelArray" /\ f.accessor # "") =>
                  t.handle \in ir[h].opaques
=============================================================================
