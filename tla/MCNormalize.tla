---------------------------- MODULE MCNormalize ----------------------------
(* Instances of Normalize for TLC. *)
EXTENDS Normalize

LowerWords == ("Foo" :> "foo") @@ ("Bar" :> "bar") @@ ("E" :> "e") @@ ("Ptr" :> "ptr")
UpperWords == ("foo" :> "Foo") @@ ("bar" :> "Bar") @@ ("arr" :> "Arr")

Id(w) == <<w>>
N(w) == <<Id(w)>>
Of(base, shape) == Spelled(base, FALSE, FALSE, shape)
\* Foo*const, class Foo, Foo[] as bases.
Going(base, marks) == Append(Front(base), Last(base) \o marks)
ConstPointerTo(base) == Going(base, <<"*", "const">>)
Behind(word, base) == <<<<word, " ">> \o base[1]>> \o Tail(base)
WithBrackets(base) == Going(base, <<"[">>)

ConstOf(base, shape) == Spelled(base, TRUE, FALSE, shape)
TagOf(base, shape) == Spelled(base, FALSE, TRUE, shape)

Type(display, canonical) == [display |-> display, canonical |-> canonical, fn |-> "no"]
Same(s) == Type(s, s)
IntType == Same(Of(N("int"), "value"))
DoubleType == Same(Of(N("double"), "value"))
VoidType == Same(Of(N("void"), "value"))
Pointer(display) ==
    [display |-> Of(display, "value"), canonical |-> Of(N("fn"), "value"),
     fn |-> IF display = N("fn") THEN "plain" ELSE "named"]

Bare(t) == [type |-> t, default |-> FALSE]
Defaulted(t) == [type |-> t, default |-> TRUE]

Callable(ns, name, const, params, returns) ==
    [ns |-> ns, name |-> name, tail |-> name, const |-> const, friend |-> FALSE,
     params |-> params, returns |-> returns, supported |-> TRUE]

Operator(ns, name, tail, params, returns, supported) ==
    [ns |-> ns, name |-> name, tail |-> tail, const |-> FALSE, friend |-> FALSE,
     params |-> params, returns |-> returns, supported |-> supported]

Record(name, constructors, methods) ==
    [ns |-> Front(name), name |-> Last(name), struct |-> FALSE, abstract |-> FALSE,
     constructors |-> constructors, methods |-> methods, operators |-> << >>,
     fields |-> << >>]

Header(records, frees, operators, callbacks, enums) ==
    [records |-> records, functions |-> frees, operators |-> operators,
     callbacks |-> callbacks, enums |-> enums]

-----------------------------------------------------------------------------
(* One class, its typedefs and other types, in two headers.                *)

Foo == N("Foo")
AFoo == <<Id("a"), Id("Foo")>>
BFoo == <<Id("b"), Id("Foo")>>
UFoo == <<<<"_", "Foo">>>>
Enum == <<Id("a"), Id("E")>>
Library == <<Id("std"), Id("vector")>>

Displays(class) == {class, <<Last(class)>>, N("Bar")}

ClassMenu(class) ==
    {Type(Of(d, shape), Of(class, shape)) :
        d \in Displays(class), shape \in {"value", "pointer", "reference"}}
    \cup {Type(Of(d, "array"), Of(class, "pointer")) : d \in Displays(class)}
    \cup {Type(ConstOf(class, "reference"), ConstOf(class, "reference")),
          Same(Of(class, "double")),
          Type(Of(<<<<"Foo", "Ptr">>>>, "value"), Of(class, "pointer")),
          Type(Of(<<<<"Foo", "Ptr">>>>, "value"), Of(class, "double")),
          Type(TagOf(class, "pointer"), Of(class, "pointer")),
          Type(TagOf(class, "array"), Of(class, "pointer")),
          Type(TagOf(class, "value"), Of(class, "value")),
          Same(Of(ConstPointerTo(class), "value")),
          Type(Of(ConstPointerTo(N("Bar")), "value"), Of(ConstPointerTo(class), "value")),
          Type(ConstOf(<<<<"Foo", "Ptr">>>>, "value"), Of(ConstPointerTo(class), "value")),
          Same(Of(ConstPointerTo(class), "pointer")),
          Same(Of(class, "pointerreference")),
          Type(Of(N("Bar"), "pointerreference"), Of(class, "pointerreference")),
          Type(TagOf(class, "pointerreference"), Of(class, "pointerreference")),
          Type(Of(class, "pointerarray"), Of(class, "double")),
          Same(Of(class, "pointerarray")),
          Type(TagOf(class, "pointerarray"), Of(class, "double")),
          Type(TagOf(class, "pointerarray"), Of(class, "pointerarray")),
          Type(Of(Behind("class", class), "pointer"), Of(class, "pointer")),
          Type(Of(WithBrackets(class), "value"), Of(class, "pointer")),
          Same(Of(WithBrackets(class), "array"))}

OtherMenu ==
    {IntType, Same(Of(N("int"), "pointer")), Same(ConstOf(N("int"), "pointer")),
     Same(Of(N("int"), "reference")), Same(Of(N("void"), "pointer")),
     Type(Of(N("Bar"), "value"), Of(N("int"), "value")),
     Type(Of(N("Bar"), "value"), Of(N("void"), "pointer")),
     Type(Of(<<<<"int32", "_", "t">>>>, "value"), Of(N("int"), "value")),
     Same(ConstOf(N("char"), "pointer")), Same(ConstOf(<<Id("std"), Id("string")>>, "reference")),
     Same(Of(Library, "value")), Same(Of(Library, "reference")),
     Type(Of(N("Bar"), "value"), Of(Library, "value")),
     Same(Of(N("timeval"), "pointer")),
     Same(Of(Enum, "value")), Type(Of(N("E"), "value"), Of(Enum, "value")),
     Type(Of(N("E"), "value"), Of(<<Id("c"), Id("E")>>, "value")),
     Type(Of(N("E"), "pointer"), Of(Enum, "pointer")),
     Type(Of(Behind("enum", N("E")), "value"), Of(Enum, "value")),
     Same(Of(ConstPointerTo(Enum), "value")), Same(Of(ConstPointerTo(N("int")), "value")),
     Same(Of(N("int"), "pointerreference")),
     Type(Of(N("E"), "array"), Of(Enum, "pointer")), Type(Of(N("Bar"), "array"), Of(Enum, "pointer")),
     Pointer(N("Cb")), Pointer(N("fn"))}

Menu(class) == ClassMenu(class) \cup OtherMenu

ReferenceTo(class, display) == Type(Of(display, "reference"), Of(class, "reference"))

\* Of two types, what one header has of the first and another of the second.
Pairs(class) == (ClassMenu(class) \X Menu(class)) \cup (OtherMenu \X {IntType})
ClassPairs(class) == ClassMenu(class) \X ClassMenu(class)

\* A class with a method that takes one of a pair, and a function of another
\* header that gives the other.
ResultInputs ==
    {<<Header(<<Record(Foo, << >>, <<Callable(<< >>, Id("m"), FALSE, <<Bare(p[1])>>, VoidType)>>)>>,
              << >>, << >>, << >>, {Enum}),
       Header(<< >>, <<Callable(<<Id("a")>>, Id("f"), FALSE, << >>, p[2])>>, << >>,
              <<[ns |-> << >>, name |-> Id("Cb"), params |-> <<Bare(IntType)>>, returns |-> VoidType]>>, {})>> :
        p \in {q \in Pairs(Foo) : q[2].display.shape \notin ArrayShape}}

\* A class with a constructor that takes one of a pair, as another class of
\* another header does, and an operator there that takes the other.
ParamInputs(class, other, pairs) ==
    {<<Header(<<Record(class, <<Callable(Front(class), Last(class), FALSE, <<Bare(p[1])>>, VoidType)>>, << >>)>>,
              << >>, << >>,
              <<[ns |-> << >>, name |-> Id("Cb"), params |-> << >>, returns |-> VoidType]>>, {}),
       Header(<<Record(other, <<Callable(Front(other), Last(other), FALSE, <<Bare(p[1])>>, VoidType)>>, << >>)>>, << >>,
              <<Operator(Front(class), <<"operator+">>, <<"Oper", "Plus">>,
                         <<Bare(p[2]), Bare(IntType)>>, VoidType, TRUE)>>, << >>, {})>> :
        p \in pairs}

Baz == <<Id("c"), Id("Baz")>>

TypeInputs ==
    ResultInputs \cup ParamInputs(AFoo, Baz, Pairs(AFoo))
        \cup ParamInputs(AFoo, BFoo, ClassPairs(AFoo)) \cup ParamInputs(UFoo, Baz, ClassPairs(UFoo))

\* A callback that takes t, in a header that knows a class and an enum.
CallbackInputs ==
    {<<Header(<<Record(Foo, << >>, << >>)>>, << >>, << >>,
              <<[ns |-> << >>, name |-> Id("Cb"), params |-> <<Bare(t)>>, returns |-> VoidType]>>,
              {Enum})>> : t \in Menu(Foo)}

-----------------------------------------------------------------------------
(* Overloads with defaults, names that look like suffixes, in two headers. *)

ParamLists ==
    {<< >>, <<Bare(IntType)>>, <<Defaulted(IntType)>>, <<Bare(IntType), Defaulted(IntType)>>,
     <<Bare(IntType), Defaulted(DoubleType)>>, <<Defaulted(DoubleType), Defaulted(IntType)>>}

OverloadNames == {Id("f"), <<"f", "_", "_", "int">>, <<"f", "_", "g">>}

Returns == <<DoubleType, IntType, VoidType>>

Callables(i) ==
    {Callable(<< >>, name, FALSE, params, Returns[i]) : name \in OverloadNames, params \in ParamLists}
        \cup {Callable(<<Id("f")>>, Id("g"), FALSE, <<Bare(IntType)>>, Returns[i])}

\* C++ has no two functions of one name and one list of parameters.
Legal(callables) ==
    \A i, j \in DOMAIN callables :
        SameGroup(callables[i], callables[j])
            /\ Signature(callables[i].params) = Signature(callables[j].params) => i = j

\* The parser sorts functions by namespace, name and return type.
Rank(c) ==
    CASE c.ns # << >>     -> 4
      [] c.name = Id("f") -> 1
      [] Len(c.name) = 4  -> 2
      [] OTHER            -> 3

Sorted(callables) ==
    \A i, j \in DOMAIN callables : i < j => Rank(callables[i]) <= Rank(callables[j])

Free(frees) == Header(<< >>, frees, << >>, << >>, {})

LegalOverloads ==
    {<<Free(fs)>> : fs \in {s \in {<<c, d, e>> : c \in Callables(1), d \in Callables(2), e \in Callables(3)} :
                               Sorted(s) /\ Legal(s)}}
    \cup {<<Free(<<s[1], s[2]>>), Free(<<s[3]>>)>> :
            s \in {t \in {<<c, d, e>> : c \in Callables(1), d \in Callables(2), e \in Callables(3)} :
                               Sorted(<<t[1], t[2]>>) /\ Legal(t)}}

-----------------------------------------------------------------------------
(* Members of one struct.                                                  *)

Field(name, type) == [name |-> name, type |-> type]

FieldMenu ==
    {Field(Id("foo"), IntType), Field(<<"foo", "_", "bar">>, IntType), Field(<<"foo", "Bar">>, DoubleType),
     Field(Id("arr"), Same(Of(AFoo, "array"))), Field(Id("bar"), Same(Of(AFoo, "value"))),
     Field(Id("foo"), Same(ConstOf(N("int"), "value"))), Field(Id("bar"), Same(Of(AFoo, "pointer"))),
     Field(Id("bar"), Same(Of(ConstPointerTo(AFoo), "value"))),
     Field(Id("arr"), Same(Of(AFoo, "pointerarray")))}

\* Those whose accessors are named like methods, or almost.
NamedFields == {f \in FieldMenu : f.type.display.shape \in {"value", "array"} /\ f.name # Id("bar")}

MethodMenu(name, i) ==
    {Callable(Front(name), m, const, params, Returns[i]) :
        m \in {Id("m"), <<"Get", "Foo">>, <<"Set", "Foo">>, <<"Get", "Arr", "At">>}, const \in BOOLEAN,
        params \in {<< >>, <<Bare(IntType)>>, <<Defaulted(IntType)>>}}

ConstructorLists(name) ==
    LET c(params) == Callable(Front(name), Last(name), FALSE, params, VoidType)
    IN  {<< >>, <<c(<<Bare(IntType), Defaulted(IntType)>>), c(<<Bare(IntType)>>)>>,
         <<c(<<Bare(Same(Of(name, "double")))>>)>>,
         <<c(<<Bare(Pointer(N("fn")))>>), c(<<Defaulted(IntType)>>)>>,
         <<c(<<Bare(Type(ConstOf(<<Last(name)>>, "reference"), ConstOf(name, "reference")))>>)>>}

OperatorLists(name) ==
    LET self == Bare(Type(ConstOf(<<Last(name)>>, "reference"), ConstOf(name, "reference")))
    IN  {<< >>,
         <<Operator(Front(name), <<"operator-">>, <<"Oper", "Minus">>, << >>, IntType, TRUE),
           Operator(Front(name), <<"operator-">>, <<"Oper", "Minus">>, <<self>>, IntType, TRUE)>>,
         <<Operator(Front(name), <<"operator", "Bar">>, <<"Oper", "Bar">>, << >>,
                    Same(Of(N("Bar"), "pointer")), TRUE),
           Operator(Front(name), <<"operator", "new">>, <<"Oper", "New">>, << >>, VoidType, FALSE)>>}

\* Not all lists of members vary at a time.
LegalRecords ==
    LET name == <<Id("a"), Id("Bar")>>
        plain == [ns |-> Front(name), name |-> Last(name), struct |-> TRUE, abstract |-> FALSE,
                  constructors |-> << >>, methods |-> << >>, operators |-> << >>, fields |-> << >>]
        methods == {ms \in {<<m, n>> : m \in MethodMenu(name, 1), n \in MethodMenu(name, 2)} : Legal(ms)}
        fields == {fs \in {<<f, g>> : f, g \in FieldMenu} : fs[1].name # fs[2].name}
    IN  {[plain EXCEPT !.abstract = b, !.constructors = cs, !.operators = os] :
            b \in BOOLEAN, cs \in ConstructorLists(name), os \in OperatorLists(name)}
        \cup {[plain EXCEPT !.methods = ms, !.fields = <<f>>] : ms \in methods, f \in NamedFields}
        \cup {[plain EXCEPT !.fields = fs] : fs \in fields}

MemberInputs == {<<Header(<<r>>, << >>, << >>, << >>, {})>> : r \in LegalRecords}

\* Two classes with a binary operator each, as a member or as a friend, and such
\* an operator outside, in the same header or in one of its own.
FriendInputs ==
    LET plus(params) == Operator(<<Id("a")>>, <<"operator+">>, <<"Oper", "Plus">>, params, IntType, TRUE)
        friend(params) == [plus(params) EXCEPT !.friend = TRUE]
        lists == {<<Bare(IntType), Bare(IntType)>>, <<Bare(IntType), Bare(DoubleType)>>}
        own == {<< >>} \cup {<<friend(ps)>> : ps \in lists}
                 \cup {<<plus(<<Bare(IntType)>>), friend(ps)>> : ps \in lists}
        outside == {<< >>} \cup {<<plus(ps)>> : ps \in lists}
        class(name, os) == [Record(<<Id("a"), Id(name)>>, << >>, << >>) EXCEPT !.operators = os]
    IN  {<<Header(<<class("Foo", o), class("Bar", p)>>, << >>, free, << >>, {})>> :
            o, p \in own, free \in outside}
        \cup {<<Header(<<class("Foo", o)>>, << >>, << >>, << >>, {}),
                Header(<< >>, << >>, free, << >>, {})>> : o \in own, free \in outside}

AllInputs == TypeInputs \cup CallbackInputs \cup LegalOverloads \cup MemberInputs \cup FriendInputs
=============================================================================
