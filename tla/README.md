# A TLA+ model of cgo-gen

`cgo-gen` reads C++ headers with libclang and writes, for each entry header, a
C wrapper (`.h`, `.cpp`) and a Go facade (`.go`).  Two programs are therefore
worth modelling: the **generator**, a sequential program that reads what libclang
shows of many files and whose output has to fit together across headers, and the
**generated code**, whose wrappers, callbacks and locks live at run time between Go
and C++.  The templates of the second are strings in the first; the modules here
model what the generated code *does*.

All source paths below are relative to the Rust crate's `src/` directory.

## 1. The system

| Part | State it keeps | Operations | Talks to |
|---|---|---|---|
| Handle wrappers (generated): `codegen/go_facade/classes.rs`, `calls.rs` | per wrapper `{ptr, owned, root}`; the bool behind each root | constructors, methods, free functions, results borrowed or owned, element getters and setters, `Close` | C wrappers, Go callbacks |
| Callback bridge (generated): `callbacks.rs`, `calls.rs:487-690`, `c_abi.rs:1611-1807` | one registry `{mu sync.RWMutex; fn}` per callback parameter | register (store, then bridge), fire (trampoline, exported Go function) | native library on any thread, `sync.RWMutex` |
| C wrappers (generated): `codegen/c_abi.rs` | none | call, convert, delete, array and field accessors | the native library |
| Overload dispatchers, Go names: `calls.rs:83-485`, `go_facade/support.rs` | none | variadic functions that pick a candidate by dynamic type; disambiguated export names | the wrappers above |
| `generate_all`: `codegen/c_abi.rs:76-357`, `go_facade.rs` | `globally_emitted_opaques`, `owned_opaque_owner`, files on disk | two passes: normalize all headers, then write one wrapper set after the other | everything below |
| IR normalization: `codegen/ir_norm.rs`, `ir_norm/` | lists of functions, opaque types, skipped declarations | one function per declaration and default-argument variant, unique symbols, aliases | parser's result |
| Model projections: `analysis/model_analysis.rs` | none | find Get/Set pairs | IR of all headers |
| Parser: `parsing/` | libclang index and translation units, declarations found | parse each unit, add headers no unit reached, merge, filter to a header | libclang, compiler commands |
| Configuration: `config.rs` | the configuration; raw clang arguments | expand, resolve, validate; scope to one header | environment, file system |
| Command line: `cli.rs` | none | `generate`, `ir`, `check` | all of the above |

What makes them hard, and what correctness means:

* **Handle wrappers.** Calls nest: native code calls back into Go, which may call
  or close any wrapper; panics unwind through native frames; native destructors
  may run callbacks.  Correct: an object is destroyed at most once, and a wrapper
  that passes the guards points at live memory.
* **Callback bridge.** Registration and firing run on different threads, nested in
  each other.  Correct: no data race on `fn`, the lock is always released, the
  registry behaves as an atomic variable, nobody waits forever.
* **generate_all.** What one header's files may assume is decided by what others
  declare, in an order that matters, with failures between any two writes.
  Correct: the package has every type, owner and symbol it uses, each once.
* **Normalization, symbols.**  A type comes in two spellings, classes are looked up by
  unqualified names, defaults multiply functions, and headers are linked together though
  each is named on its own.  Correct: each declaration is wrapped, recorded as skipped, or
  stops the run; one handle for a class; no symbol twice.
* **Go names, dispatchers, calls.**  Correct: a file declares and imports what it should,
  once; a dispatcher picks the overload the arguments are for; guards come before C++, and
  whatever a call allocates is freed on every way out.
* **Parser.**  One header is shown by several units, in part, or by none.  Correct: what a
  header declares is read, once, whatever the order; libclang's handles are released child
  before parent on every path; nothing comes out of a run that failed.
* **Configuration.**  The same arguments serve the parse, in one directory, and the build,
  in another.  Correct: they mean the same to both.

## 2. Modules

| Module | What it is |
|---|---|
| `Ownership` | the promise of the handle layer: destruction once, calls enter with live objects |
| `Handles` | the wrappers, guards, roots, `Close`, callbacks and panics |
| `HandlesOwnership` | `Handles` implements `Ownership` (refinement mapping) |
| `HandlesProofs`, `HandlesOwnershipProofs` | the proofs about both |
| `CallbackSlot` | the promise of a callback registry: an atomic variable |
| `CallbackBridge` | registry, registering function, bridge, trampoline, exported function |
| `CallbackBridgeSlot` | `CallbackBridge` implements `CallbackSlot` |
| `CallbackBridgeProofs` | the proofs about both |
| `GeneratePipeline` | `generate_all`: passes, claims, file writes, failure |
| `GeneratePipelineProofs` | the proofs about it |
| `TypeNorm`, `SymbolNames` | types of the IR from C++ spellings; names of C symbols |
| `Normalize` | `normalize()` as `check` and `generate` run it |
| `NormalizeProofs` | the proofs about these three |
| `GoNames` | Go types and names of functions, methods, constructors |
| `Facade` | the Go file of a header: classes, dispatchers, collision checks, imports |
| `FacadeCalls` | one call of anything that file declares |
| `FacadeCallsProofs` | the proofs about both |
| `BuildFlags` | compiler and linker arguments: resolved, completed for libclang, exported to cgo |
| `ParseRun` | a run from the configuration to the declarations of each header |
| `BuildFlagsProofs`, `ParseRunProofs` | the proofs about both |
| `MCHandles`, `MCCallbackBridge`, `MCGeneratePipeline`, `MCNormalize`, `MCFacade`, `MCParseRun` | instances for TLC |

`Normalize` extends `SymbolNames`, which extends `TypeNorm`; `FacadeCalls` extends `Facade`,
`GoNames` and `SymbolNames`, so that a facade's functions have the symbols normalization
gives them; `ParseRun` extends `BuildFlags`.  The stages meet in their data: the headers that
`ParseRun` hands out have the form of `Normalize`'s inputs, whose IR has the form of
`Facade`'s, and what `GeneratePipeline` knows of a header is which handles that IR has in
which roles.

Operators commented `mutant` are small mistakes in the code's shape.  Nothing uses
them; substituted for the definition below them they show that a property can fail.

### Handles

`made`, `ptr`, `owned`, `root` are the Go structs; `closed` is the bool an owner
allocates (`root := new(bool)`, `classes.rs:248`), named after that owner.
`stack` is the one goroutine's stack of generated functions that are inside native
code; a frame says which root a result will inherit (`infer_borrow_root_expr`,
`calls.rs:1174`) and whether it is running a Go callback.  `life` is the native
side: an object is absent, alive, dying or dead; `Within` puts fields inside their
object.  `owns` and `abandoned` are history variables: nothing in the code reads
them.

| Action | Code |
|---|---|
| `CallMethod` | receiver guard (nil `ptr` returns, closed root panics), argument guards, the C call: `classes.rs:269`, `calls.rs:1090` |
| `CallFree` | free functions and constructors; a result's root is that of the only rooted parameter, and `raw.root` of a nil one panics after the native call |
| `ReturnNothing`, `ReturnBorrowed`, `ReturnOwned`, `ReturnUnrooted` | `render_go_call_return_with_mode`, `calls.rs:1224`; `&T{ptr: raw}` where a class has no helpers |
| `BeginClose`, `EndClose` | `render_facade_close`, `classes.rs:231`: root first, destructor, then `ptr = nil` |
| `CallbackBegins`, `CallbackReturns`, `Unwind` | the library calls Go in the middle of a call; panics |

A wrapper is *vouched for* when it has a root and points into the object of that
root.  A library may return anything, so only vouched wrappers can be protected.
Not in the model: several goroutines (`FacadeCalls` has a second one), and native code that
keeps a pointer to an object Go then closes.  A fixed array of models as an
ordinary result cannot occur, as C++ functions do not return arrays.

### CallbackBridge

One callback parameter: `fn`, the `RWMutex` (`writer`, `readers`, `waiting`, with
Go's rule that a waiting writer turns new readers away), and per thread a stack of
activations with a program counter at each step that another thread can observe.
`slot` is what the library holds for each receiver: the trampoline or nothing.
There is one `fn` for all receivers, as in the code.

| Steps | Code |
|---|---|
| `CallRegister`, `BeginLock`, `EndLock`, `Store`, `EndStore` | `mu.Lock(); fn = cb; mu.Unlock()`, `calls.rs:609-615` |
| `CallBridge`, `ReturnFromNative` | `use_cb ? trampoline : nullptr`, `c_abi.rs:1667` |
| `Fire` | the library calls the trampoline, `c_abi.rs:1764` |
| `BeginRead`, `WakeUp`, `Read`, `EndRead`, `CallbackReturns` | the exported function, `callbacks.rs:88` |
| `Panic` | of a callback, or of the guard of an argument that follows the callback |

### GeneratePipeline

`Headers` is the list of entry headers, `ir` what normalization made of each
(`IR`: which handles it refers to, declares as a class, wraps, returns by value;
`WellFormed` is what `normalize` guarantees).  `emitted` and `claimed` are
`globally_emitted_opaques` and `owned_opaque_owner`; `files`, `types`, `owners`,
`symbols` describe the output directory.  `Start` is the configuration check and
pass 1 (`c_abi.rs:76-149`); then, for each header, `Claim`, `WriteHeader`,
`WriteSource`, `WriteGo`, `WriteMetadata`, `FinishHeader` in the order of
`generate_with_opaque_ownership`; `Fail` may end the run before any of them but
`Claim`, which cannot fail.  A handle stands for its Go name: two handles that give
one Go name are not told apart.

### TypeNorm, SymbolNames, Normalize

The code works on text; here an identifier is the sequence of its words and underscores, a
name the sequence of its identifiers, and a type two spellings (as displayed, and
canonical), each a base with what surrounds it.  That keeps what decides: which name a
lookup finds, what flattening makes equal, where an underscore in a name meets one that a
suffix adds.

What surrounds a base is its `Shape`: a value, a pointer, a reference, an array, a pointer
to a pointer, a reference to pointers (`Foo*&`, `Foo**&`) or an array of pointers
(`Foo*[3]`).  The base is mostly a name, but as in `base_model_cpp_type` (`ir_norm.rs:2137`)
it keeps whatever the shape does not account for (`Marks`).  So `Foo*const`, which ends in
no star, is a value whose base goes on after the name with `*` and `const`; `Foo*const*` is
a pointer to the same; `enum E` and `class Foo` begin with another word; `Foo[2][3]` is an
array, and `Foo[]` a value, of a base that ends in a bracket; `vector<Foo>` has a `<`.  What
the code makes of them is not always right, see the preconditions below: a `Foo*const`
becomes a `ModelValue` whose handle, `Foo *constHandle`, is not that of `Foo` and no name in C.  Pointers
to members and functions as bases of arrays are not among the spellings.

| Part | Code |
|---|---|
| `NormalizeType`, `NormalizeWithCanonical`, `KnownRecord` … | `normalize_type`, `normalize_type_with_canonical`, `known_record`, `ir_norm.rs:1660-2240` |
| `DoublePointerReason`, `FunctionPointerReason`, `ByValueReason` | what a callable is skipped for |
| `Candidate`, `Renamed`, `AssignUnique` | `overload_suffix`, `assign_unique_function_symbols` |
| `Variants` | `default_argument_param_variants` |
| `NormalizeRecord`, `NormalizeFunction`, `NormalizeOperator`, `NormalizeCallback` | one step for each declaration, in `normalize`'s order; a step may end the run (`fault`) |
| `FinishHeader` | opaque types, symbols, on to the next header, `c_abi.rs:115`; an empty header, which the code passes over, is not among the inputs |

An operator that a class declares as a friend is collected with the class and becomes a
function (`parser.rs:565`, `operators.rs`); `friend` tells it from a member.  What the parser
may hand over is `InputsAssumption`, one clause for each kind of declaration (`IsType`,
`Overloads`, `IsRecord`, `IsHeader`): what legal C++ and libclang guarantee, such as that two
overloads differ in their parameters, that a canonical spelling has no tag, that an array
decays to a pointer or stays one, that brackets stand at the end of a spelling, and that a
header defines a class once.

The header 0 is all headers as one, which is what `cgo-gen check` and `cgo-gen ir` normalize;
`generate` then goes header by header.

### GoNames, Facade, FacadeCalls

`Facade` is three steps, each of which may refuse the header: `CollectClasses`
(`collect_facade_classes`), `CheckExports` (`ensure_unique_go_exports`), `RenderFile`.  Its
result is the imports and a set of declarations, each with its scope, name, role, and what it
stands for: constants, enums and their variants, which stand in the package without the
enum's name (`render_go_enum`, `go_facade.rs:448`), also those of anonymous enums; a type
for each callback, and for each parameter that takes one a registry and the function that
C++ calls (`CallbackDecls`); functions, dispatchers, classes and opaque types.  The constants
of a header are `<<name, value>>`, its enums their C++ name with the set of their variants:
equal values are one declaration, as the parser merges them.  `MadeByIR` says which functions there are at all: C++ has no arrays as
results and no void but to point to, and `make_struct_field_getter` and its like give each
accessor its shape (`ir_norm.rs:919-1119`).  What other headers contribute (`projected`, `elsewhere`, `owned`) is
in the input.

`FacadeCalls` then calls any declaration with any arguments, step by step, as another
goroutine may close a wrapper between any two of them (`CloseMeanwhile`).

| Steps | Code |
|---|---|
| `GuardReceiver` | nil receivers return, closed roots panic: `classes.rs:300-335` |
| `Select` | the dispatcher's type assertions, in order: `calls.rs:277-395` |
| `Prepare` | one argument: its guard, what it allocates: `render_call_prep`, `calls.rs:711`, `render_model_handle_setup` |
| `EnterC`, `ReturnFromC` | the wrapper in C: index tests, what it writes and allocates |
| `ReturnToGo` | frees, write-backs, and the result with its root: `render_go_call_return_with_mode` |
| `GetAt`, `SetAt`, `GetElement`, `SetElement` | arrays of objects, element by element: `classes.rs:370-530` |

A wrapper argument is nil, open, hollow (a zero struct), closed or emptied.  `heap` is what
the call has allocated in C, `cells` what became of the elements of an array, `raced`
whether a wrapper was closed meanwhile, before or after its guard.  The model does without the cast
of `model_param_needs_handle_cast` (`calls.rs:1019`): a projection is found by the last part of a
class's name, so where classes have different last parts, as they do in the inputs, the
handle of an argument is its projection's and there is nothing to cast.

### BuildFlags, ParseRun

A path is a sequence of components, an argument an option and what follows it in the same
word: nothing, a path, or a variable.  `ResolveClangArgs` and `ResolveLdflags` are
`config.rs:79-300`, `CollectClangArgs` is `collect_clang_args`, `ExportedCxxflags` and
`ExportedLdflags` are `c_abi.rs:505-660`.

| Action | Code |
|---|---|
| `ResolveConfig`, `Validate` | `Config::resolve_relative_paths`, `Config::validate` |
| `OpenIndex` | `collect_translation_units`, then `clang_createIndex`: the listed headers, or sources and then headers of the directories |
| `ParseUnit` | arguments, `clang_parseTranslationUnit2`: `parser.rs:167-213` |
| `SkipCursor`, `EnterNamespace`, `CollectDeclaration` | `collect_entity`, `should_collect_cursor` and what each kind of cursor becomes |
| `ReadDiagnostics`, `DisposeUnit` | errors after the visit; `Drop` of the unit |
| `StartSupplement` | headers that no unit showed anything of, in a second pass |
| `FinishParse`, `CloseIndex` | `dedupe_api`; `Drop` of the index |
| `HandOut` | `filter_to_header` for each header that gets a wrapper, and the exported flags |

`failing` is an error that is on its way up through the `Drop`s.  `api` is a sequence while
declarations are collected; what is merged keeps the place of the first of its kind, so that
`api` and the `parts` are functions on some of its places afterwards (the code sorts; nothing
depends on the order).

What libclang shows of a unit, and how its parse ends, is the input: it is external, and
modelled as the set of cursors and outcomes `parser.rs` distinguishes.  The assumptions about
it are `InputsAssumption` with `ShowsUnit`, and `PathsAssumption`: a unit shows files that
exist, each by one of its paths (libclang keeps the name it has first opened a file by) and
either as the system's or not; what is inside a declaration is in the declaration's file; a
class is defined once in a unit, as C++ demands; namespaces nest no deeper than two, which bounds
`Nested`; a unit shows its own file in its own directory; and every file is listed in the
directory that it is in.  Of the arguments they say (`IsLine`) that each is an option, a path, a
variable, or an option and one of these in one word, and that every variable has a value.  `Texts`
are the strings options and names of directories are made of, and `TextsAssumption` says that
those written out in `BuildFlags` are among them, and that the package's directory, which is
canonicalized, is spelled without `..`; in the run they are `STRING`.  A configured path may go
up with `..`; the code canonicalizes it if it is there, the model leaves it and asks where it
leads (`Walk`), among directories without links.

## 3. Runs

| Run | Instance | Shows |
|---|---|---|
| `handles_reentrant` | 3 wrappers, an object with a field and one without, calls nested 3 deep, destructors that may call Go | guards protect vouched wrappers; roots tell the truth; a nil `ptr` is a closed owner; a second destruction needs an interrupted `Close` |
| `handles_promise` | the same, destructors stay out of Go | refinement of `Ownership` |
| `callback_safety` | 2 goroutines, 1 native thread, 1 receiver, 2 callbacks, nesting 2, panics, callbacks that register | no data race, no leaked lock, refinement of `CallbackSlot`; library and registry agree once a registration is complete |
| `callback_liveness` | 1 goroutine, 1 native thread, nesting 2, panics | every activation ends |
| `generate_two` | 2 headers, 2 handles, all 22 roles a handle can have in a header | types declared once and owners consistent |
| `generate_three` | 3 headers, 1 handle, all well-formed headers, go.mod and IR dumps | symbols, and what a failed run leaves |
| `normalize` | one class under every spelling next to every other type; overloads with defaults and treacherous names in one and two headers; records with fields, operators, friends in two classes and outside; callbacks that take each of these types | kinds and handles fit, declarations are accounted for, symbols meet nowhere, `check` foretells `generate` |
| `facade` | one function of every parameter and result type; pairs of overloads; classes with methods, fields, constructors; arrays of 2 elements, an `int` from -4 to 3 | names, imports and dispatchers of the file; guards, frees, roots and arrays of every call |
| `parse` | 2 headers and a source in a directory, one more directory, links to a header elsewhere and to a file that is none, a second spelling of a path; every unit failing in every way; every list of up to 3 arguments | handles released, declarations read once and merged, failure stops all, arguments agree, the run ends |
| `generate_*` with `expect: violation` | 2 headers, 1 handle | the findings below |

Why the bounds are enough. *Handles*: a wrong destruction takes an owner, a wrapper
borrowed from it and a third one to re-enter with, in a call, in a callback, in a
call; deeper stacks repeat frames of the same kinds, and the proofs cover every
depth. *Callbacks*: races are between two threads, and a third is there to be the
writer both wait for; depth 2 is a registration inside a firing and the reverse
(depth 3 with two threads, two receivers and two callbacks passes as well). A second
receiver adds a second `slot`, which decides who may fire and nothing else.
*Pipeline*: a conflict is between two headers; a third adds one that comes after a
conflict was or was not recorded. Two handles matter because one of them decides
whether the other is recomputed. The shortcut for a single header (`Len(Headers) =
1`) is in the model and in the theorems, which hold for every list of headers; no
run is spent on it.
*Normalization*: what a type becomes depends on itself and on the names around it, so every
form of a class that the code distinguishes is paired with every type of a menu, in two
headers.  A symbol collision is between two functions; a third is what numbers and
suffixes of the two can meet.  *Facade*: names meet in pairs as well, and the number of
elements matters only as none, first, and another, hence 2; with 8 values of an `int`, 8 is an
index that it cannot hold and that comes out as 0.  *Parse*: a header may be shown in full, in part,
as a system header, or not at all, by a unit before its own, by its own and by one after:
three units show every order.  One more tree shows a header of the project through a link
and by itself, which only `PathsTell` tells apart.  A pair of arguments can be torn by one before and one
after it, hence three words; variables, which TLC multiplies by what they may stand for,
come in lists of two.

Deadlock is checked for wrappers and callbacks.  `generate_all`, `normalize`, `parse` and a call end, so their runs
say `CHECK_DEADLOCK FALSE`; that `ParseRun` does not stop before its end is `RunEnds`.  Symmetry is used for wrappers, threads of one kind,
callbacks and handles, none of which the modules tell apart; not for headers, which
are ordered, nor in the liveness run.

**Fairness** (`CallbackBridge!Fairness`): every thread that is inside the bridge is
scheduled; `sync.RWMutex` does not starve a writer (strong fairness of `BeginLock`:
its inner mutex hands over to waiters after a millisecond); and user callbacks and
the library return at every depth, rather than call and fire forever.  The last is
an assumption about code that is not here; nothing is assumed of who registers or
fires.  In `ParseRun` it is weak fairness of the whole next-state relation: the program is
one thread that waits for nothing but libclang, whose calls return.

### Preconditions and findings

Several properties hold only where a fault of the code is out of
the way.  Each is claimed and checked under its precondition; for three
faults a run refutes the property without it:

| Without the precondition | Precondition | The code |
|---|---|---|
| `TypesDeclaredOnce`, refuted | `RecomputeHarmless` | `go_facade.rs:127` recomputes the owned handles when no handle needs an owned type, and then takes other headers' classes for its own |
| `ClassHandlesGetWrappers`, refuted | part of `AllReachGo` | `c_abi.rs:178` counts methods that `classes.rs:41` drops |
| `SymbolsDefinedOnce`, refuted | `NothingShared` | `cgowrap_string_free` in every source that needs it, `c_abi.rs:1860`; likewise `cgowrap_X_delete` of a class without methods, `c_abi.rs:1422` |
| `UsedTypesDeclared` | `AllReachGo` | `c_abi.rs:167` counts types as emitted that a header without a Go file never emits |
| `FinishedSetsStand` | `DistinctStems` | output names use the file stem only, `config.rs:431`: of two headers with one name in two directories the later wins |

The other preconditions name inputs that mislead the code; each is needed, TLC finds a
violation without it, and there are inputs in the runs on either side of it:

| Property | Precondition | What happens otherwise |
|---|---|---|
| `KindsFit`, `HandlesNameClasses` | `UniqueLeaves` | of two classes with one name in two namespaces a lookup takes the first (`ir_norm.rs:1808`); a class with the name of a callback type is taken for it |
| `KindsFit` | no `HasPointersWithin` | `Foo*&` becomes a reference to `Foo` and `Foo*[3]` an array of `Foo`: the pointer within is lost (`ir_norm.rs:1759`) |
| `KindsFit`, `HandlesNameClasses` | base is a class's name (`ClassPositions`) | `Foo*const` becomes a `ModelValue`, `Foo*const*` a `ModelPointer`, of a class of its own (`base_model_cpp_type`, `ir_norm.rs:2137`) |
| `KindsFit` | `NoHiddenPointers` | a typedef `FooPtr` gets a handle of its own (`ir_norm.rs:1733`); an array of enums becomes an enum by value (`:1631`) |
| `HandlesNameClasses` | `ConsistentNames` | spellings in operators do not count for a class's name (`:417`), so that headers disagree about its handle |
| `DeclarationsAccountedFor` | `FriendsOnce` | a friend operator declared in two classes of a header is wrapped with each (`parser.rs:565`); only the part that nothing is wrapped twice needs this |
| `ClassesNeverAbort` | `UncheckedFit` | constructors and callback types are not asked all the reasons to skip (`ir_norm.rs:702`, `:1290`): a callback that takes `Foo**`, or a constructor that takes `struct Foo a[2]` or `Foo a[2][3]`, ends the run |
| `SymbolsMeetNowhere` | `PlainNames`, `OverloadsTogether` | names such as `f__int` meet suffixes; overloads in two headers get one symbol, which no check sees |
| `CheckForetellsGenerate` | `OwnCallbacks` | a callback typedef of another header is known to `check` only |
| the same | no `TaggedArray` | `struct Foo a[2]` is translated only by a header that knows `Foo` |
| `NamesDeclaredOnce` | `PackageNamesApart` | functions with the name of a type; variants of two enums with one name, as of `enum class A{Red}` and `enum class B{Red}`; variants or constants that are named like a function, a type or what the generator makes; a macro defined twice with different values: no check looks there (`go_facade.rs:448`, `:470`) |
| `NamesDeclaredOnce` | `MethodNamesApart`, `ParamNamesPlain` | a method `close`, constructors' parameters that are named like types |
| `NamesDeclaredOnce` | `TypeNamesPlain` | legal overloads alike in Go's tokens: the header is refused as a whole |
| `ImportsMatch` | `ImportsForeseen` | `unsafe` or `C` is missing or unused, for void pointer results, array setters, files of opaque types only |
| `GuardsHold` | not `raced` late | a Close between a guard and the call |
| `ResultsHaveRoots` | `ElementsProjected` | elements of classes without projection have no root (`classes.rs:464`) |
| `EveryDeclarationRead` | `SeenAlike` | a source that shows part of a header, or it inside `extern "C"`, keeps the header from being parsed by itself (`parser.rs:129`) |
| `EveryDeclarationRead` | `NoLinksOut` | a link out of the directories, or to a file whose name is no header's, is parsed and nothing of it collected (`parser.rs:1054`) |
| `DefinitionsMerged` | `PathsTell` | a unit that shows such a file by its own path is not heard about it, whatever bodies it has seen |
| `ParseReadsArguments`, `BuildAgrees` | `PlainOptions` | a variable that stands for a whole option is not resolved; options without a value, and empty arguments, swallow the next one or are lost (`config.rs:145-186`); a language in one word with its `-x` is overridden by the default, as only `-x` by itself is looked for (`compiler.rs:15`); `-std=` without a standard is passed on as it is (`c_abi.rs:582`) |

Not expressed in the modules: `cast_raw_to_projection_handle` (`calls.rs:809`) writes
an expression with an unbalanced parenthesis.  Declarations inside `extern "C"` blocks and
templates fall through `collect_entity`'s match (`parser.rs:468`).  A class whose
constructors are all private is given a default one, as the parser reports none
(`ir_norm.rs:708`).

## 4. Proofs

Checked by TLAPS for every value of the constants.

* `HandlesProofs!Invariant`: `WrapperInv`.  No property of the wrappers is inductive alone.
  That a passed guard means live memory needs that a root closes exactly when
  destruction begins; that needs that owners are the only ones to close and that no
  object has two of them (`SoleOwner`); and that a frame in `Close` belongs to a made
  owner whose root is closed (`FrameShape`), so that its end affects nobody else.
  `TypeCorrect`, `GuardsProtect`, `RootsTellLife`, `NilPtrsAreClosed`,
  `RepeatsAreInterrupted` follow.
* `HandlesOwnershipProofs!Implements`: every step of `Handles` is a step of
  `Ownership` or a stutter, if destructors do not call Go.  Assumes the constants are
  as the `ASSUME`s of `Handles` say, nothing else.
* `CallbackBridgeProofs!Invariant`, `NoRace` and `Agreement`: `RegistryInv` says that the lock is held by exactly
  the activations between its acquisition and its release, no reader is left when a
  writer stores, and `fn` is the argument of the activation that stored it.  The absence
  of data races and `ToldWhatIsStored` follow, for any number of threads and any nesting.
  The proof sees a thread only through where its top activation is (`Pc`); that what is
  below the top is in native code or in a callback (`StackInv`) says where a return or a
  panic can land.
* `CallbackBridgeProofs!Implements`: every step of `CallbackBridge` is a step of
  `CallbackSlot` or a stutter, from `CallbackBridge`'s assumptions alone.  `CallbackSlot`
  tells apart the activations that run a callback, so the proof says of every action which
  of them it adds or removes: `Read` adds one, what returns or is unwound removes some, and
  everything else none, as no other frame of a stack is touched.
* `GeneratePipelineProofs!Invariant` and `DeclaredOnce`: by `PipelineInv` each declared type can be
  traced to a header gone through, and counts as emitted from then on; classes are
  declared at home (`OneHome`), claimed handles by their claimant only.  A type
  declared twice would be a class away from home, a handle claimed twice, or one that
  was already emitted.
* `DefinedOnce`, `OwnersDelete`, `SetsStand`, `PromisesKept` of the same module each add to
  `PipelineInv` what is known of the headers the run has been through: that a symbol comes from a
  header that has reason to define it (`SymbolInv`); that an owner's delete was written a
  step before (`OwnerInv`); which files are complete and that no later file has the name of
  one (`FileInv`); and which types and owners are there already, or have a header to come
  that will declare them (`PromiseInv`).
* `FacadeCallsProofs`: `CallInv` is about one call.  `FileInv` says that declarations
  stand for functions they may call, dispatchers for groups with one result type and no two
  alike; of the arguments, that they are of the types of the function on the way to which
  they are (`ArgsInv`), and that those already converted have passed their guards or were
  closed since (`PreparedInv`).  A dispatcher that tries an overload the arguments do not fit
  goes on to the next, so none but the right one is called: `TypesDispatch`.  `GuardsKeep`,
  `CallsClean` and `ResultsRooted` follow at the stages they speak of; `ArraysOrdered` needs
  how far the loop has come (`ArrayInv`).  `FunctionsOffered` and `ImportsRight` are about
  the rendered file: a function is covered by the one group its dispatcher name puts it in,
  and each condition at the head of the file is the existence of a declaration that needs the
  import.  All of them assume `MadeByIR` of every function, see above, and of the sizes that
  an array's length fits an `int`.
* `ParseRunProofs!Invariant`, `HandlesReturned` and `NothingHalfRead`: each phase says what
  libclang has open (`Opened`), and every unit that was found is read or in line unless the
  run is failing (`Accounted`).  The first gives `UnitsReleased` on every way out; the
  second, with an empty line at the end, `FailureStopsAll`.  Assumes that there
  are finitely many files and that a parse ends in one of the four ways the code tells apart.
* `ParseRunProofs!CollectedAsRead`: `CInv` is about what is collected.  `Collecting` says that
  `api`, together with what the cursors still in line declare, is just what the units read and
  the current one declare; for a namespace that is entered this takes that its contents and
  the rest of the line make up what was there (`NamespaceEntered`).  `discovered` is traced in
  the same way, so that in the second pass each header of the directories is read, in line,
  or was seen (`Supplemented`).  `InLine` says that no unit is in line twice, which is all of
  `Types` that needs an argument.
* `HeadersReadWhole`, `EachToOneHeader` and `BodiesFound` follow at the last state from `CInv`,
  and from lemmas about keys and merging.  What is kept has the key of something collected, and
  the other way round (`DedupeMerges`); equal keys are equal declarations, bodies aside
  (`KeysArePlain`), so merging neither loses nor invents one.  Two that a header shows and
  that have one name are one declaration, since a class is defined once in a unit and all
  units see it alike (`OneDeclaration`).  An operator of what is merged is defined if one of
  those that are alike is (`MergedBodies`), and under `PathsTell` these are what every unit
  has shown (`ShownIsCollected`).  These use all that `ShowsUnit` says, see section 2.
* `ParseRunProofs!ArgumentsAsMeant`: what the code makes of a list of arguments, the directories
  it adds, and how a compiler reads the result are folds over lists.  `BuildFlagsProofs`
  shows that each of them is computed step by step (`FoldExists`, then `ReadsOneMore`,
  `ResolveOneMore`, `AddOneMore`, `ScanOneMore`), which makes facts about
  them provable prefix by prefix.  The
  reader of the resolved arguments is always where the reader of the meant ones is, and has
  taken the same things, apart from how a place is spelled (`AlikeStep`, `PlainRead`).  The scan
  that asks whether a directory is already looked in passes over just the words the reader
  takes for values (`ScanAgreesOneMore`), so that a directory is added if and only if
  the reader does not have it (`IncludeAdded`); what is added therefore repeats nothing
  (`Grown`).  `Configured` carries this to the state: the configuration is resolved once, and
  each unit gets its own arguments from it.  Assumes `InputsAssumption`, `PathsAssumption` and
  `TextsAssumption`.
* `ParseRunProofs!BuildAsMeant`: the exporter goes through the raw and the resolved list at once.
  What it has written is always read like what the words so far mean (`ExportedLike`,
  `ExportedStep`), and likewise for the linker (`LinkedUpTo`, `LinkedStep`).  `BuiltLike` says
  of the exported flags that they look in the same places in the same order, the package's own
  directory first, and that every include written in one word is among what is read
  (`Included`), so that leaving out one already written loses no place: the first occurrences
  stay (`SameFirstOnes`).  That a path leads to the same place is `RelativeLeads`: walking from
  the package up out of what is not shared, then down the rest, ends where the path itself
  ends (`UpThenDown`).  It needs that the package's directory has no `..` of its own, part of
  `TextsAssumption`: `absolute_output_dir` (`c_abi.rs:619`) canonicalizes the directory, which
  is there when flags are written.  Other paths may have `..` anywhere.

* `NormalizeProofs!InvariantHolds`: `IInv`, from `InputsAssumption` alone.  No property of
  `Normalize` is inductive, as each is about headers that are finished, and a step works on one
  that is not.  `Progress(h, n, fs, skips)` says what wrappers and skips of header `h` are like
  before its `n`-th declaration.  A wrapper is `Faithful`: its types are well formed, and each
  that stands for one of C++ is the translation of a type that some header mentions, under
  this header's own context.  A declaration is covered, with its full list of parameters or by
  a skip (`CoversDeclaration`).  A wrapper is of one of those declarations (`OfDeclaration`),
  without which a later one could be wrapped a second time, and no two wrappers are of one call
  (`OneEach`).  `IInv` claims this of the header at hand (`Current`), and of every finished one
  (`Finished`), whose handles are in its list.  The step that takes a declaration is split
  into what its outcomes are (`RecordContributes`, `FunctionContributes`, ...) and that they may
  be added (`ProgressMade`); the last step of a header only renames (`RenamingFacts`).
* `KindsAlwaysFit` and `HandlesAlwaysNameClasses` follow from `Faithful` and from what
  `NormalizeWithCanonical` makes of a type: by cases of the two spellings, and, for handles, of
  how each of the three lookups names a class.  Neither speaks of `Foo*const`, nor the first of
  references to pointers and arrays of pointers: there the code's kinds and handles do not fit
  (see the preconditions), and TLC finds `KindsFit` violated without that exclusion.  `DeclaredHandles` needs `Backed`: the list of
  handles passes over arrays, so that each array an accessor takes must be met again as a pointer.
  `AllAccountedFor` rests on `VariantsMeetNot`: no variant of an overload has the parameters of
  another, since a shortened list is offered only if no overload has it in full and none has
  offered it before.  `ClassesAlwaysPass` goes through what each type of a class or a number
  becomes and shows that what is refused has met a reason to skip before.
* What `FlattenSeq` computes is proved here for what is needed of it, by a least counterexample: the numbers for which a fact holds are a set with 0 and the
  successor of each (`AllNumbers`).  It is the induction theorems that take an operator which
  the provers cannot use.

Before the proof, `IInv` was model-checked on parts of the inputs of the run `normalize`, some
50000 states; it is no property of the run, as TLC would take longer over it than over all others.

Of the 40 properties of the runs that pass, 35 are proved.  Only model-checked are liveness
(`ActivationsEnd`, `RunEnds`), which under fairness is out of the prover's reach, and three
invariants.  `SymbolsMeetNowhere` and `NamesDeclaredOnce` are about which texts suffixes and
capitals can make; `CheckForetellsGenerate` compares two runs of the scan of typedefs, over all
headers and over one.  All need facts by induction over the data at every turn, of which
the least counterexamples above are the long way round.

## 5. Not modelled, and the plan

Left: proofs of the three invariants that are only model-checked, above all that symbols meet
nowhere.

Not modelled: the values of macros and the text of types in the parser, its scan of source
text for operator bodies, the discovery of the platform's include directories, the syntax of
variables in the configuration, all formatting of C, C++ and Go beyond the names and
conversions above, the paths in IR dumps, and what the command line prints.  These read or
write text and decide nothing else.  The data types of `pipeline/` and `domain/` hold no
behaviour of their own.
