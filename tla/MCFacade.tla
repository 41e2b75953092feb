------------------------------ MODULE MCFacade ------------------------------
(* Instances of FacadeCalls for TLC. *)
EXTENDS FacadeCalls

LowerWords == ("Foo" :> "foo") @@ ("Bar" :> "bar") @@ ("E" :> "e") @@ ("Cb" :> "cb")
UpperWords ==
    ("f" :> "F") @@ ("g" :> "G") @@ ("a" :> "A") @@ ("int" :> "Int") @@ ("int32" :> "Int32")
      @@ ("int64" :> "Int64") @@ ("float64" :> "Float64") @@ ("uint8" :> "Uint8")
      @@ ("const" :> "Const") @@ ("std" :> "Std") @@ ("string" :> "String")
      @@ ("uchar" :> "Uchar") @@ ("close" :> "Close") @@ ("x" :> "X") @@ ("y" :> "Y")
      @@ ("void" :> "Void") @@ ("timeval" :> "Timeval") @@ ("char" :> "Char")

N(w) == <<<<w>>>>
Type(kind, base, const, shape, c, handle) ==
    [kind |-> kind, cpp |-> Spelled(base, const, FALSE, shape), c |-> c, handle |-> handle]

VoidType == Type("Void", N("void"), FALSE, "value", N("void"), NoHandle)
IntType == Type("Primitive", N("int"), FALSE, "value", N("int"), NoHandle)
LongType == Type("Primitive", N("long"), FALSE, "value", N("long"), NoHandle)
LongLongType == Type("Primitive", N("longlong"), FALSE, "value", N("longlong"), NoHandle)
CharType == Type("Primitive", N("char"), FALSE, "value", N("char"), NoHandle)
Typedef(name) == Type("Primitive", N(name), FALSE, "value", N("double"), NoHandle)
StringType == Type("String", <<<<"std">>, <<"string">>>>, TRUE, "reference", N("char"), NoHandle)
CStringType == Type("CString", N("char"), TRUE, "pointer", N("char"), NoHandle)
MutCString == Type("CString", N("char"), FALSE, "pointer", N("char"), NoHandle)
IntPointer == Type("Pointer", N("int"), FALSE, "pointer", N("int"), NoHandle)
IntReference == Type("Reference", N("int"), FALSE, "reference", N("int"), NoHandle)
EnumType == Type("Enum", <<<<"a">>, <<"E">>>>, FALSE, "value", N("int"), NoHandle)
VoidPointer == Type("ModelPointer", N("void"), FALSE, "value", N("NPVOID"), <<"NPVOID">>)
Bytes == Type("FixedByteArray", N("uchar"), FALSE, "array", N("uchar"), NoHandle)
Ints == Type("FixedArray", N("int"), FALSE, "array", N("int"), NoHandle)
Timeval(shape) ==
    Type(IF shape = "pointer" THEN "ExternStructPointer" ELSE "ExternStructReference",
         N("timeval"), FALSE, shape, N("timeval"), NoHandle)
CallbackType == Type("Callback", N("Cb"), FALSE, "value", N("Cb"), NoHandle)

Foo == N("Foo")
Bar == <<<<"a">>, <<"Bar">>>>
Class(kind, base, shape) == Type(kind, base, FALSE, shape, base, Flatten(base))
Pointer(base) == Class("ModelPointer", base, "pointer")
Reference(base) == Class("ModelReference", base, "reference")
Value(base) == Class("ModelValue", base, "value")
Array(base) == Class("FixedModelArray", base, "array")

ParamTypes ==
    {IntType, LongType, CharType, Typedef("T"), StringType, CStringType, MutCString, IntPointer,
     IntReference, EnumType, VoidPointer, Bytes, Ints, Timeval("pointer"), Timeval("reference"),
     CallbackType} \cup {Pointer(Foo), Reference(Foo), Value(Foo), Array(Foo), Reference(Bar), Pointer(Bar)}

ReturnTypes ==
    {VoidType, IntType, EnumType, StringType, CStringType, IntPointer, IntReference,
     Pointer(Foo), Reference(Foo), Value(Foo), Value(Bar), Pointer(Bar), VoidPointer}

Names == <<<<"x">>, <<"y">>>>

Function(cpp, params, returns) ==
    [name |-> SymbolName(Front(cpp), << >>, Last(cpp)), kind |-> "Function", cpp |-> cpp,
     owner |-> NoHandle, const |-> FALSE, operator |-> << >>, accessor |-> "",
     params |-> params, pnames |-> SubSeq(Names, 1, Len(params)), returns |-> returns]

Member(class, kind, name, const, accessor, params, returns) ==
    [name |-> SymbolName(Front(class), <<Last(class)>>, name), kind |-> kind,
     cpp |-> IF kind = "Method" THEN Append(class, name) ELSE class,
     owner |-> Flatten(class), const |-> const, operator |-> << >>, accessor |-> accessor,
     params |-> params, pnames |-> SubSeq(Names, 1, Len(params)), returns |-> returns]

Method(class, name, const, params, returns) ==
    Member(class, "Method", name, const, "", params, returns)

Self(class) == Type("Opaque", class, FALSE, "pointer", class, Flatten(class))

Constructor(class, params, pnames) ==
    [Member(class, "Constructor", <<"new">>, FALSE, "", params, Self(class))
        EXCEPT !.pnames = pnames]

Destructor(class) == Member(class, "Destructor", <<"delete">>, FALSE, "", << >>, VoidType)

Enum(cpp, variants) == [cpp |-> cpp, anonymous |-> FALSE, variants |-> variants]
Anonymous(variants) == [cpp |-> N("anonymous"), anonymous |-> TRUE, variants |-> variants]

Header(fs) ==
    [functions |-> AssignUnique(fs), constants |-> {}, enums |-> {Enum(EnumType.cpp.base, {})},
     callbacks |-> {<<"Cb">>},
     opaques |-> {t.handle : t \in UNION {ToSet(fs[i].params) \cup {fs[i].returns} : i \in DOMAIN fs}}
                    \ {NoHandle},
     projected |-> {}, elsewhere |-> {}, owned |-> {}, owners |-> {}]

-----------------------------------------------------------------------------
(* One free function, with a class of another header, an opaque one, or one *)
(* that is owned.                                                           *)

F1 == <<<<"f">>>>

OneFunction ==
    {Header(<<Function(F1, <<t>>, u)>>) : t \in ParamTypes, u \in ReturnTypes}
    \cup {[Header(<<Function(F1, ts, u)>>) EXCEPT !.elsewhere = {<<"Foo">>}, !.owners = os] :
             ts \in UNION {{<<t>>, <<t, Pointer(Foo)>>, <<Pointer(Foo), t>>} : t \in ParamTypes},
             u \in {VoidType, StringType, Pointer(Foo)}, os \in {{}, {F1}}}

-----------------------------------------------------------------------------
(* Overloads, and functions with names like theirs.                        *)

ParamLists ==
    {<< >>} \cup {<<t>> : t \in ParamTypes \cup {LongLongType, Typedef("Int"), Value(<<<<"Foo", "Ref">>>>)}}
        \cup {<<StringType, IntType>>, <<Typedef("T"), Typedef("U")>>, <<Typedef("T"), IntType>>,
              <<IntType, Pointer(Foo)>>, <<Type("Primitive", <<<<"T", "U">>>>, FALSE, "value", N("int"), NoHandle)>>}

FunctionNames == {<<<<"a">>, <<"f">>>>, <<<<"f", "_", "_", "int">>>>, <<<<"f", "Mut">>>>, <<<<"New", "Foo">>>>}

Overloads ==
    {Header(<<Function(F1, ps, u), Function(F1, qs, VoidType)>>) :
        ps \in ParamLists, qs \in ParamLists, u \in {VoidType, Pointer(Foo)}}

Legal(h) == h.functions[1].params # h.functions[2].params

OthersBeside ==
    {Header(<<Function(F1, << >>, VoidType), Function(F1, <<IntType>>, VoidType), Function(cpp, ps, VoidType)>>) :
        cpp \in FunctionNames, ps \in {<< >>, <<IntType>>}}

-----------------------------------------------------------------------------
(* Classes.                                                                *)

MethodLists(class) ==
    {<<Method(class, <<"f">>, b, ps, IntType), Method(class, <<"f">>, c, qs, IntType)>> :
        b \in BOOLEAN, c \in BOOLEAN, ps \in {<< >>, <<IntType>>, <<StringType>>},
        qs \in {<< >>, <<IntType>>, <<Reference(Foo)>>}}
    \cup {[ms EXCEPT ![1].operator = <<"Oper", "Sub">>, ![2].operator = <<"Oper", o>>] :
              ms \in {<<Method(class, <<"op">>, TRUE, << >>, IntType), Method(class, <<"op">>, TRUE, ps, IntType)>> :
                        ps \in {<<IntType>>, <<Reference(Foo)>>}},
              o \in {"Sub", "Add"}}
    \cup {<<Method(class, n, FALSE, <<t>>, u)>> :
             n \in {<<"f">>, <<"close">>}, t \in {IntType, StringType, Pointer(Foo)},
             u \in {VoidType, StringType, Value(Foo), Reference(Foo), Value(Bar), IntReference, VoidPointer}}

ElementPointer(t) == Pointer(t.cpp.base)

Accessors(class, t) ==
    LET a(kind, name, ps, u) == Member(class, "Method", name, kind \in {"Get", "GetAt"}, kind, ps, u)
    IN  <<a("Get", <<"Get", "X">>, << >>, t), a("GetAt", <<"Get", "X", "At">>, <<IntType>>, ElementPointer(t)),
          a("Set", <<"Set", "X">>, <<t>>, VoidType),
          a("SetAt", <<"Set", "X", "At">>, <<IntType, ElementPointer(t)>>, VoidType)>>

FieldLists(class) ==
    {<<Member(class, "Method", <<"Get", "X">>, TRUE, "Get", << >>, t),
       Member(class, "Method", <<"Set", "X">>, FALSE, "Set", <<t>>, VoidType)>> :
          t \in {IntType, Bytes, Ints, Value(Foo), CStringType}}
    \cup {Accessors(class, Array(e)) : e \in {Foo, Bar}}
    \cup {SubSeq(Accessors(class, Array(e)), 1, 2) : e \in {Foo, Bar}}

ConstructorLists(class) ==
    {<< >>, <<Constructor(class, <<CallbackType>>, <<<<"x">>>>)>>}
    \cup {<<Constructor(class, ps, SubSeq(ns, 1, Len(ps))), Constructor(class, qs, SubSeq(ms, 1, Len(qs)))>> :
             ps \in {<< >>, <<IntPointer>>, <<IntType>>, <<Reference(class)>>, <<StringType, IntType>>},
             qs \in {<<IntReference>>, <<Typedef("T")>>, <<CharType>>, <<Pointer(class)>>},
             ns \in {<<<<"x">>, <<"y">>>>, <<<<"int">>, <<"y">>>>}, ms \in {<<<<"x">>>>}}

Classes ==
    {Header(cs \o (IF d THEN <<Destructor(Bar)>> ELSE << >>) \o ms) :
        cs \in {<< >>}, d \in BOOLEAN, ms \in MethodLists(Bar) \cup FieldLists(Bar)}
    \cup {Header(cs \o <<Destructor(Bar), Method(Bar, <<"g">>, TRUE, << >>, VoidType)>>) :
             cs \in ConstructorLists(Bar)}
    \cup {[Header(<<Destructor(Bar)>> \o ms) EXCEPT !.elsewhere = {<<"Foo">>}, !.projected = p, !.owned = o] :
             ms \in FieldLists(Bar), p \in {{}, {<<"Foo">>}}, o \in {{}, {<<"Baz">>}}}

-----------------------------------------------------------------------------
(* Other declarations.                                                     *)

Constants ==
    {{}, {<<<<"E">>, N("1")>>}, {<<<<"C">>, N("1")>>}, {<<<<"C">>, N("1")>>, <<<<"C">>, N("2")>>}}

Enums ==
    {{}, {Enum(N("E"), {<<"Red">>})}, {Enum(N("Foo"), {})}, {Enum(N("Cb"), {<<"F">>})},
     {Anonymous({<<"Red">>, <<"C">>})}, {Enum(<<<<"a">>, <<"E">>>>, {}), Enum(<<<<"b">>, <<"E">>>>, {})}}
    \cup {{Enum(N("K"), {<<"Red">>, <<"E", "Red">>}), e} :
             e \in {Enum(N("L"), {<<"Red">>}), Enum(N("L"), {<<"Blue">>}),
                    Anonymous({<<"newOwned", "A", "Bar">>})}}

Values ==
    {[Header(fs) EXCEPT !.constants = cs, !.enums = es] :
        fs \in {<< >>, <<Function(F1, <<CharType, Pointer(Foo)>>, VoidType)>>,
                <<Function(F1, <<CallbackType, CallbackType>>, VoidType),
                  Function(F1, <<CallbackType>>, VoidType)>>,
                <<Function(N("E"), << >>, VoidType)>>, <<Function(F1, << >>, Value(Bar))>>},
        cs \in Constants, es \in Enums}

AllInputs ==
    OneFunction \cup {h \in Overloads : Legal(h)} \cup OthersBeside \cup Classes \cup Values

SomeIndexes == {-1, 0, 1, 2, 8}
=============================================================================
