------------------------------- MODULE Facade -------------------------------
(***************************************************************************)
(* The Go file of one header: src/codegen/go_facade.rs and go_facade/      *)
(* classes.rs and calls.rs, from the functions of the IR to the            *)
(* declarations and imports of the file.  Handles of other headers that    *)
(* have roots and projections are given; how a package of several headers  *)
(* shares them out is in GeneratePipeline.                                 *)
(***************************************************************************)
EXTENDS GoNames

CONSTANT Inputs             \* headers, as records; see Header below

VARIABLES
    header,                 \* the IR of the header
    inGo,                   \* of every function its names and types in Go
    phase,                  \* "classes", "exports", "render", "rendered"
    classes,                \* AnalyzedFacadeClass, by handle
    decls,                  \* what the file declares at package level, or as methods
    imports,                \* the packages it imports
    fault                   \* "none", or why there is no file

fileVars == <<header, inGo, phase, classes, decls, imports, fault>>

(* A header is                                                               *)
(*   [functions, constants, enums, callbacks, opaques, projected, elsewhere, *)
(*    owned, owners]                                                         *)
(* where projected and elsewhere are handles with projections and with       *)
(* wrappers of other headers, owned those claimed for this header, and       *)
(* owners the C++ names under `owner` in the configuration.  A constant is    *)
(* <<name, value>> of a macro, an enum [cpp, anonymous, variants].           *)

\* What C++ and ir_norm.rs make of a function: void is only pointed to; only
\* getters give arrays; accessors are methods, setters take the value and return
\* nothing, the others take no more than an index and an element, and elements
\* are pointers; constructors return an opaque pointer.
MadeByIR(f) ==
    /\ f.params \in Seq(ToSet(f.params))
    /\ \A t \in ToSet(f.params) : IsVoidPointer(t) => t.kind = "ModelPointer"
    /\ f.kind = "Method" => GoExport(f.owner) # << >>
    /\ f.accessor # "" => f.kind = "Method"
    /\ f.accessor \in {"Set", "SetAt"} => f.params # << >> /\ f.returns.kind = "Void"
    /\ f.accessor = "GetAt" => f.returns.kind = "ModelPointer"
    /\ f.accessor \in {"Get", "GetAt", "SetAt"} =>
          \A t \in ToSet(f.params) : t.kind \in {"Primitive", "ModelPointer"} /\ ~IsVoidPointer(t)
    /\ f.returns.kind \in {"FixedByteArray", "FixedArray", "FixedModelArray"} => f.accessor = "Get"
    /\ f.kind = "Constructor" => f.returns.kind = "Opaque"

ASSUME InputAssumption ==
    \A h \in Inputs : \A i \in DOMAIN h.functions : i \in Nat \ {0} /\ MadeByIR(h.functions[i])

Fs == header.functions

\* What go_facade asks support.rs about a function.
InGo(f) ==
    [offered |-> Supported(f), taken |-> ParamsSupported(f), params |-> GoParams(f),
     sig |-> GoReturnSig(f.returns), overload |-> IsOverload(f),
     dispatcher |-> DispatcherName(f), export |-> ExportName(f), tokens |-> GoTokens(f)]

\* Functions are named by their places in the IR.
FreeFunctions == {i \in DOMAIN Fs : Fs[i].kind = "Function" /\ inGo[i].offered}

MethodsOf(handle) ==
    {i \in DOMAIN Fs :
        Fs[i].kind = "Method" /\ Fs[i].owner = handle /\ inGo[i].offered}

\* Of a constructor only what it takes is looked at.
ConstructorsOf(handle) ==
    {i \in DOMAIN Fs :
        Fs[i].kind = "Constructor" /\ Fs[i].owner = handle /\ inGo[i].taken}

HasDestructor(handle) ==
    \E i \in DOMAIN Fs : Fs[i].kind = "Destructor" /\ Fs[i].owner = handle

\* The owners of supported methods.
OwnersOfMethods == {Fs[i].owner : i \in {j \in DOMAIN Fs : Fs[j].kind = "Method" /\ inGo[j].offered}}

\* ensure_unique_go_exports, ensure_unique_method_exports
ExportsUnique(is) == \A i, j \in is : inGo[i].export = inGo[j].export => i = j

-----------------------------------------------------------------------------
(* Overload dispatchers.                                                   *)

AnyGroup(group) == TRUE                 \* mutant: alike parameters are let pass

\* dispatcher_group_is_safe: one return type, and no two lists of parameters alike in Go.
GroupIsSafe(group) ==
    \A i, j \in group :
        /\ inGo[i].sig = inGo[j].sig
        /\ inGo[i].params = inGo[j].params => i = j

OverloadGroup(is, name) == {i \in is : inGo[i].overload /\ inGo[i].dispatcher = name}

\* collect_free_function_dispatchers, collect_method_dispatchers: the names of
\* groups of candidates, whose order is left open.
Dispatchers(is) ==
    {name \in {inGo[i].dispatcher : i \in is} :
        /\ Cardinality(OverloadGroup(is, name)) > 1
        /\ GroupIsSafe(OverloadGroup(is, name))}

InGroups(is) ==                         \* mutant: groups without dispatcher cover, too
    {i \in is : inGo[i].overload}

\* covered_dispatcher_function_names
Covered(is) == UNION {OverloadGroup(is, name) : name \in Dispatchers(is)}

-----------------------------------------------------------------------------
(* Handles.                                                                *)

ClassHandles == DOMAIN classes

MethodsOfClasses == UNION {classes[c].methods : c \in ClassHandles}

\* The owned handles that are given, or, if none is,
\* collect_owned_opaque_model_value_handles.
OwnedOpaques ==
    IF header.owned # {} THEN header.owned
    ELSE {Fs[i].returns.handle : i \in {j \in FreeFunctions \cup MethodsOfClasses :
                                          Fs[j].returns.kind = "ModelValue"}}
             \ (ClassHandles \cup header.projected)

\* rooted_handles: the wrappers of these have a root.
RootedHandles == ClassHandles \cup header.projected \cup header.elsewhere \cup OwnedOpaques

\* The opaque types that get a type here.
LocalOpaques ==
    {h \in header.opaques \ (ClassHandles \cup header.projected) :
        /\ h \in header.elsewhere => h \in OwnedOpaques
        /\ GoExport(h) \notin {GoExport(c) : c \in ClassHandles \cup header.projected}}

-----------------------------------------------------------------------------
(* Declarations, in the package (<< >>) or as methods of a type.           *)

Decl(scope, name, role, of) == [scope |-> scope, name |-> name, role |-> role, of |-> of]

TypedDecls(scope, is, role) ==
    {Decl(scope, inGo[i].export, role, {i}) : i \in is \ Covered(is)}

DispatcherDecls(scope, is) ==
    {Decl(scope, name, "dispatcher", OverloadGroup(is, name)) : name \in Dispatchers(is)}

\* A wrapper type with root: Close, newOwned and newBorrowed go with it.
WrapperDecls(go, role) ==
    {Decl(<< >>, go, role, {}), Decl(go, <<"Close">>, "close", {}),
     Decl(<< >>, <<"newOwned">> \o go, "helper", {}),
     Decl(<< >>, <<"newBorrowed">> \o go, "helper", {})}

ClassDecls(class) ==
    LET cs == [i \in class.constructors |-> Fs[i]]
    IN  WrapperDecls(class.go, "class")
        \cup {Decl(<< >>, ConstructorName(class.go, cs, i), "constructor", {i}) :
                  i \in class.constructors}
        \cup TypedDecls(class.go, class.methods, "method")
        \cup DispatcherDecls(class.go, class.methods)

OpaqueDecls ==
    UNION {IF h \in OwnedOpaques THEN WrapperDecls(GoExport(h), "opaque")
           ELSE {Decl(<< >>, GoExport(h), "opaque", {})} : h \in LocalOpaques}

\* What is declared for something else of C++ than functions and classes.
ValueDecl(name, role, what) ==
    [scope |-> << >>, name |-> name, role |-> role, of |-> {}, what |-> <<role, what>>]

NamedEnums == {e \in header.enums : ~e.anonymous}

EnumVariants == UNION {{<<v, e.cpp>> : v \in e.variants} : e \in header.enums}

\* render_go_constants, render_go_enum: variants come without the enum's name, and
\* an anonymous enum is nothing but its variants.
ValueDecls ==
    {ValueDecl(c[1], "constant", c[2]) : c \in header.constants}
        \cup {ValueDecl(Leaf(e.cpp), "enum", e.cpp) : e \in NamedEnums}
        \cup {ValueDecl(v[1], "variant", v[2]) : v \in EnumVariants}

\* Callbacks are found by the name that the parameter gives.
KnownCallback(t) == t.kind = "Callback" /\ \E cb \in header.callbacks : t.cpp.base = <<cb>>

\* collect_callback_usages: the parameters that take one, by function and place.
CallbackUsages ==
    UNION {{<<i, k>> : k \in {n \in DOMAIN Fs[i].params : KnownCallback(Fs[i].params[n])}} :
              i \in FreeFunctions \cup MethodsOfClasses}

UsedCallbacks == {Leaf(Fs[u[1]].params[u[2]].cpp.base) : u \in CallbackUsages}

\* callback_state_name: places are counted from 0.
RegistryName(u) ==
    Fs[u[1]].name \o <<"_", "cb", IF u[2] = 1 THEN "0" ELSE Numeral[u[2] - 1]>>

\* callback_go_export_name
CalledName(u) == <<"go", "_">> \o RegistryName(u)

\* A type for every callback; a registry and what C++ calls for every usage.
CallbackDecls ==
    {ValueDecl(cb, "callback", cb) : cb \in UsedCallbacks}
        \cup {ValueDecl(RegistryName(u), "registry", u) : u \in CallbackUsages}
        \cup {ValueDecl(CalledName(u), "export", u) : u \in CallbackUsages}

FileDecls ==
    ValueDecls \cup CallbackDecls \cup TypedDecls(<< >>, FreeFunctions, "function")
        \cup DispatcherDecls(<< >>, FreeFunctions) \cup OpaqueDecls
        \cup UNION {ClassDecls(classes[c]) : c \in ClassHandles}

-----------------------------------------------------------------------------
(* Imports.                                                                *)

\* model_param_needs_handle_cast does not arise: a handle is that of its projection.
HandledUnsafely ==
    {"String", "CString", "Pointer", "ExternStructPointer", "ExternStructReference",
     "FixedByteArray", "FixedArray", "FixedModelArray"}

StringsUnseen(f) ==                     \* mutant: has_string_params is not asked
    \E i \in DOMAIN f.params :
        f.params[i].kind \in HandledUnsafely \ {"String", "CString"} \/ IsVoidPointer(f.params[i])

ParamsNeedUnsafe(f) ==
    \E i \in DOMAIN f.params : f.params[i].kind \in HandledUnsafely \/ IsVoidPointer(f.params[i])

\* Of methods fewer results are looked at.
RequiresUnsafe ==
    \/ \E i \in FreeFunctions :
          ParamsNeedUnsafe(Fs[i]) \/
          Fs[i].returns.kind \in {"Pointer", "FixedByteArray", "FixedArray", "FixedModelArray"}
    \/ \E c \in ClassHandles :
          \/ \E i \in classes[c].constructors : ParamsNeedUnsafe(Fs[i])
          \/ \E i \in classes[c].methods :
                ParamsNeedUnsafe(Fs[i]) \/ Fs[i].returns.kind \in {"Pointer", "FixedByteArray"}

RequiresErrors ==
    \/ \E c \in ClassHandles : classes[c].constructors # {}
    \/ \E i \in FreeFunctions \cup MethodsOfClasses : Fs[i].returns.kind \in ErrorReturns

HasDispatchers ==
    \/ Dispatchers(FreeFunctions) # {}
    \/ \E c \in ClassHandles : Dispatchers(classes[c].methods) # {}

FileImports ==
    (IF FreeFunctions # {} \/ ClassHandles # {} THEN {"C"} ELSE {})
        \cup (IF RequiresErrors THEN {"errors"} ELSE {})
        \cup (IF HasDispatchers THEN {"fmt"} ELSE {})
        \cup (IF RequiresUnsafe THEN {"unsafe"} ELSE {})
        \cup (IF UsedCallbacks # {} THEN {"sync"} ELSE {})

-----------------------------------------------------------------------------
(* Actions.                                                                *)

FacadeClass(handle) ==
    [go |-> GoExport(handle), constructors |-> ConstructorsOf(handle),
     methods |-> MethodsOf(handle)]

FileInit ==
    /\ header \in Inputs
    /\ inGo = [i \in DOMAIN Fs |-> InGo(Fs[i])]
    /\ phase = "classes"
    /\ classes = << >> /\ decls = {} /\ imports = {}
    /\ fault = "none"

\* collect_facade_classes: classes are those with supported methods.
CollectClasses ==
    /\ phase = "classes" /\ fault = "none"
    /\ IF \A h \in OwnersOfMethods : ExportsUnique(MethodsOf(h))
       THEN /\ classes' = [h \in {o \in OwnersOfMethods : HasDestructor(o)} |-> FacadeClass(h)]
            /\ phase' = "exports"
            /\ UNCHANGED fault
       ELSE fault' = "collision" /\ UNCHANGED <<classes, phase>>
    /\ UNCHANGED <<header, inGo, decls, imports>>

NothingToRender ==
    FreeFunctions = {} /\ ClassHandles = {} /\ header.enums = {} /\ header.constants = {}

\* The rest of render_go_facade_with_owned_opaques before the file is written.
CheckExports ==
    /\ phase = "exports" /\ fault = "none"
    /\ IF ExportsUnique(FreeFunctions)
       THEN phase' = (IF NothingToRender THEN "rendered" ELSE "render") /\ UNCHANGED fault
       ELSE fault' = "collision" /\ UNCHANGED phase
    /\ UNCHANGED <<header, inGo, classes, decls, imports>>

\* cgo_cast_type knows no callbacks, and constructors have no bridges.
ConstructorTakesCallback ==
    \E c \in ClassHandles : \E i \in classes[c].constructors :
        \E k \in DOMAIN Fs[i].params : Fs[i].params[k].kind = "Callback"

\* render_go_facade_file
RenderFile ==
    /\ phase = "render" /\ fault = "none"
    /\ IF ConstructorTakesCallback
       THEN fault' = "callback" /\ UNCHANGED <<phase, decls, imports>>
       ELSE /\ decls' = FileDecls
            /\ imports' = FileImports
            /\ phase' = "rendered"
            /\ UNCHANGED fault
    /\ UNCHANGED <<header, inGo, classes>>

-----------------------------------------------------------------------------
(* Properties.                                                             *)

Rendered == phase = "rendered" /\ decls # {}

OfferedFunctions ==
    FreeFunctions \cup MethodsOfClasses
        \cup UNION {classes[c].constructors : c \in ClassHandles}

\* Every function that Go can take is offered, and once: by a declaration of its
\* own or by one dispatcher (covered_dispatcher_function_names must name just
\* the functions that the rendered dispatchers call).
EveryFunctionOffered ==
    Rendered =>
        \A i \in OfferedFunctions : Cardinality({d \in decls : i \in d.of}) = 1

\* The names that C++ gives, with what they stand for there: of free functions, of
\* types, and of constants and variants.
FreeNames == {<<inGo[i].dispatcher, <<"function", Fs[i].cpp>>>> : i \in FreeFunctions}

TypeNames ==
    {<<GoExport(h), <<"handle", h>>>> : h \in ClassHandles \cup LocalOpaques}
        \cup {<<Leaf(e.cpp), <<"enum", e.cpp>>>> : e \in NamedEnums}
        \cup {<<cb, <<"callback", cb>>>> : cb \in UsedCallbacks}

ValueNames == header.constants \cup EnumVariants

\* No name begins with another, or with New.
NamesApart(named) ==
    \A a, b \in named : a # b => ~IsPrefix(a[1], b[1]) /\ ~IsPrefix(<<"New">>, a[1])

\* What a name that the generator makes begins with, but for a name of C++.
MadeUp == {<<"New">>, <<"newOwned">>, <<"newBorrowed">>, <<"cgowrap">>, <<"go">>}

\* The names of values stay as they are, but what is added to the others may lead to one.
ValuesApart(values, named) ==
    /\ \A v, w \in values : v[1] = w[1] => v = w
    /\ \A v \in values : \A begin \in {n[1] : n \in named} \cup MadeUp : ~IsPrefix(begin, v[1])

\* Names that C++ keeps apart by their scopes, as it does the variants of two enums,
\* need not be apart in one package.
PackageNamesApart ==
    NamesApart(FreeNames \cup TypeNames) /\ ValuesApart(ValueNames, FreeNames \cup TypeNames)

MethodNamesApart ==
    \A o \in OwnersOfMethods :
        LET named == {<<inGo[i].dispatcher, Fs[i].cpp>> : i \in MethodsOf(o)}
        IN  NamesApart(named) /\ \A n \in named : n[1] # <<"Close">>

\* Parameters of constructors have names of one word, which no type has.
ParamNamesPlain ==
    \A i \in DOMAIN Fs : Fs[i].kind = "Constructor" =>
        \A k \in DOMAIN Fs[i].pnames :
            /\ Len(Fs[i].pnames[k]) = 1
            /\ \A j \in DOMAIN Fs : Capital(Fs[i].pnames[k][1]) \notin ToSet(inGo[j].tokens)

AlikeInGo(i, j) ==
    /\ i # j /\ inGo[i].dispatcher = inGo[j].dispatcher
    /\ inGo[i].params = inGo[j].params /\ Fs[i].const = Fs[j].const

TypesIn(f) == ToSet(f.params) \cup {f.returns}

\* No name of a type is, with capitals, that of another or begins with it.
TypeNamesPlain ==
    LET texts == {FlattenSeq(CppWords(t.cpp)) : t \in UNION {TypesIn(Fs[i]) : i \in DOMAIN Fs}}
    IN  \A a, b \in texts : IsPrefix(GoExport(a), GoExport(b)) => a = b

\* A file declares no name twice where the names that C++ gives are apart: tokens,
\* "Const" and "Mut", dispatchers, the numbers of constructors and the registries of
\* callbacks never lead to a name that is taken (go_constructor_export_names,
\* callback_state_name; ensure_unique_go_exports looks at functions only, and by names
\* that dispatchers replace, and render_go_enum at nothing).  And a header is refused
\* for a collision only where Go cannot tell two functions apart: overloads that differ
\* in Go types, or in const, have different names (go_overload_token,
\* go_overload_suffix).
NamesDeclaredOnce ==
    PackageNamesApart /\ MethodNamesApart =>
        /\ Rendered /\ ParamNamesPlain =>
              \A d, e \in decls : d.scope = e.scope /\ d.name = e.name => d = e
        /\ fault = "collision" /\ TypeNamesPlain =>
              \E i, j \in DOMAIN Fs : AlikeInGo(i, j)

\* The arguments and results whose conversion is written with unsafe.
ConvertedUnsafely ==
    {"String", "CString", "FixedByteArray", "FixedArray", "FixedModelArray", "Pointer",
     "ExternStructPointer", "ExternStructReference"}

\* The four accessors of an array of objects are written in Go.
IsElementwise(f) ==
    \/ f.accessor \in {"GetAt", "SetAt"}
    \/ f.accessor = "Get" /\ f.returns.kind = "FixedModelArray"
    \/ f.accessor = "Set" /\ f.params[1].kind = "FixedModelArray"

WrittenWithUnsafe(f) ==
    /\ ~IsElementwise(f)
    /\ \/ \E t \in ToSet(f.params) : t.kind \in ConvertedUnsafely \/ IsVoidPointer(t)
       \/ f.returns.kind \in {"Pointer", "FixedByteArray", "FixedArray"} \/ IsVoidPointer(f.returns)

ImportsUsed ==
    (IF \E d \in decls : d.role \in {"class", "opaque", "function", "dispatcher"} THEN {"C"} ELSE {})
        \cup (IF \E d \in decls : \E i \in d.of :
                     Fs[i].returns.kind \in ErrorReturns \/ d.role = "constructor"
              THEN {"errors"} ELSE {})
        \cup (IF \E d \in decls : d.role = "dispatcher" THEN {"fmt"} ELSE {})
        \cup (IF \E d \in decls : \E i \in d.of : WrittenWithUnsafe(Fs[i])
              THEN {"unsafe"} ELSE {})
        \cup (IF \E d \in decls : d.role = "registry" THEN {"sync"} ELSE {})

\* The shapes that RequiresUnsafe and requires_cgo misjudge.
ImportsForeseen ==
    /\ \A i \in OfferedFunctions : ~IsVoidPointer(Fs[i].returns)
    /\ \A i \in MethodsOfClasses : Fs[i].returns.kind # "FixedArray"
    /\ \A i \in MethodsOfClasses : Fs[i].accessor = "Set" => ~IsElementwise(Fs[i])
    /\ FreeFunctions = {} /\ ClassHandles = {} => LocalOpaques = {}

\* A file imports what it uses, and nothing else, which Go refuses as well: the
\* conditions at the head of render_go_facade_file foresee what the
\* declarations come to.
ImportsMatch == Rendered /\ ImportsForeseen => imports = ImportsUsed
=============================================================================
