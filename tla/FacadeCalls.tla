----------------------------- MODULE FacadeCalls -----------------------------
(***************************************************************************)
(* A call of what the Go file of a header declares: the bodies that        *)
(* src/codegen/go_facade/calls.rs and classes.rs render, and of the C      *)
(* wrapper (src/codegen/c_abi.rs) what it allocates, refuses and writes.   *)
(* The registration of callbacks is in CallbackBridge, the life of the     *)
(* objects behind the wrappers in Handles.                                 *)
(*                                                                         *)
(* An argument is a sequence of what its elements are: of one, but for     *)
(* slices.  A wrapper is nil, open, hollow (a zero struct), closed (it is  *)
(* borrowed, and its root says so), or emptied (an owner that was closed:  *)
(* its pointer is nil, too); without a root it is not closed.              *)
(***************************************************************************)
EXTENDS Facade, Integers

CONSTANTS
    ArrayLength,            \* of all arrays
    IntSpan,                \* an int of C is -IntSpan .. IntSpan - 1; a Go int has more
    Indexes                 \* the Go ints that index arrays

ASSUME SizesAssumption ==
    /\ ArrayLength \in Nat \ {0}
    /\ IntSpan \in Nat /\ ArrayLength <= IntSpan
    /\ Indexes \subseteq Int

VARIABLES
    pc,                     \* "idle", "receiver", "select", "prepare", "native",
                            \* "back", "elements", "index", "done"
    decl,                   \* the declaration that is called
    fn,                     \* the function that is called in C, 0 while not known
    asked,                  \* the function whose Go types the arguments have, or 0
    receiver,               \* << >> of what is not a method
    args,                   \* the arguments, without an index
    index,                  \* the index, and where the loops over arrays are
    prepared,               \* how many arguments are converted
    heap,                   \* what is allocated in C for this call
    cells,                  \* the elements of the array: "old", "new", "read"
    raced,                  \* whether another goroutine closed a wrapper meanwhile:
                            \* "no", "early" or, after the guard on it, "late"
    outcome,                \* "value", "nil", "zero", "error", "panic"
    result                  \* form and root of a wrapper that is returned

callVars == <<pc, decl, fn, asked, receiver, args, index, prepared, heap, cells,
              raced, outcome, result>>

vars == <<fileVars, callVars>>

-----------------------------------------------------------------------------
(* Go values and the guards on them.                                       *)

Closed == {"closed", "emptied"}

HasRoot(t) == t.handle \in RootedHandles

Wrappers(t) == {"nil", "hollow", "open"} \cup (IF HasRoot(t) THEN {"closed", "emptied"} ELSE {})

GoValues(t) ==
    CASE t.kind = "FixedModelArray" ->
             {<<v>> : v \in Wrappers(t)} \cup [1 .. ArrayLength -> Wrappers(t)]
      [] t.kind \in {"FixedByteArray", "FixedArray"} ->
             {<<"some">>, [k \in 1 .. ArrayLength |-> "some"]}
      [] t.kind \in ModelKind /\ ~IsVoidPointer(t) -> {<<v>> : v \in Wrappers(t)}
      [] \/ t.kind \in {"Pointer", "Reference", "ExternStructPointer", "ExternStructReference",
                        "Callback"}
         \/ IsVoidPointer(t) -> {<<"nil">>, <<"some">>}
      [] OTHER -> {<<"some">>}

Fits(t, v) == Len(v) = ArrayLength /\ \A k \in DOMAIN v : v[k] \in {"open", "some"}

NilChecked(t, v) ==                     \* mutant: the root is not looked at
    t.kind \in {"ModelReference", "ModelValue"} => v[1] \notin {"nil", "hollow"}

\* render_model_handle_setup: a pointer may be nil, nothing may be closed.
HandlePasses(t, v) ==
    \/ IsVoidPointer(t)
    \/ t.kind = "ModelPointer" /\ v[1] \notin Closed
    \/ v[1] = "open"

\* The guards of render_call_prep.
GuardPasses(t, v) ==
    CASE t.kind \in {"FixedByteArray", "FixedArray", "FixedModelArray"} -> Fits(t, v)
      [] t.kind \in {"Reference", "ExternStructReference"} -> v[1] # "nil"
      [] t.kind \in ModelKind -> HandlePasses(t, v)
      [] OTHER -> TRUE

IsString(t) == t.kind \in {"String", "CString"}

F == Fs[fn]

-----------------------------------------------------------------------------
(* The call begins.                                                        *)

NotWrapper == [form |-> "none", root |-> "none"]

IdleInit ==
    /\ pc = "idle" /\ decl = Decl(<< >>, << >>, "none", {})
    /\ fn = 0 /\ asked = 0 /\ receiver = << >> /\ args = << >> /\ index = 0
    /\ prepared = 0 /\ heap = {} /\ cells = << >> /\ raced = "no"
    /\ outcome = "none" /\ result = NotWrapper

Init == FileInit /\ IdleInit

Callable(d) == d.role \in {"function", "constructor", "method", "dispatcher"}

\* What a function may be given.
Taken(f) ==
    {s \in [DOMAIN f.params -> UNION {GoValues(t) : t \in ToSet(f.params)}] :
        \A k \in DOMAIN s : s[k] \in GoValues(f.params[k])}

\* Of a dispatcher, whose parameters have any type.
Untyped == [of |-> 0, args |-> <<<<"untyped">>>>]

\* The arguments a caller may have: those of one of the functions, or others.
ArgumentsFor(d) ==
    (UNION {{[of |-> i, args |-> vs] : vs \in Taken(Fs[i])} : i \in d.of})
        \cup (IF d.role = "dispatcher" THEN {Untyped} ELSE {})

\* Where the caller gives an index, it is the first parameter in C.
IsIndexed(f) == f.accessor \in {"GetAt", "SetAt"}

Begin ==
    /\ phase = "rendered" /\ pc = "idle"
    /\ \E d \in {e \in decls : Callable(e)} : \E a \in ArgumentsFor(d) :
          /\ decl' = d
          /\ asked' = a.of /\ args' = a.args
          /\ fn' \in (IF d.role = "dispatcher" THEN {0} ELSE d.of)
          /\ index' \in (IF d.role = "method" /\ IsIndexed(Fs[fn']) THEN Indexes ELSE {0})
          /\ receiver' \in (IF d.scope = << >> THEN {<< >>}
                            ELSE {<<v>> : v \in Closed \cup {"nil", "hollow", "open"}})
          /\ pc' = (IF d.scope = << >> THEN "select" ELSE "receiver")
          /\ cells' = [k \in 0 .. ArrayLength - 1 |-> "old"]
    /\ UNCHANGED <<fileVars, prepared, heap, raced, outcome, result>>

Done(o) == pc' = "done" /\ outcome' = o

\* go_nil_return_stmt, or the error of a dispatcher.
NilReceiver ==
    IF decl.role = "dispatcher" \/ F.returns.kind \in ErrorReturns
    THEN "error" ELSE "zero"

NoPointer == {"nil", "hollow", "emptied"}

\* The guard at the head of every method (render_general_api_method,
\* render_dispatcher and the four accessors of arrays).
GuardReceiver ==
    /\ pc = "receiver"
    /\ \/ receiver[1] \in NoPointer /\ Done(NilReceiver)
       \/ receiver[1] = "closed" /\ Done("panic")
       \/ receiver[1] = "open" /\ pc' = "select" /\ UNCHANGED outcome
    /\ UNCHANGED <<fileVars, decl, fn, asked, receiver, args, index, prepared, heap, cells,
                   raced, result>>

\* What follows the guard on the receiver.
StepAfterReceiver(i) ==
    CASE ~IsElementwise(Fs[i]) -> "prepare"
      [] IsIndexed(Fs[i]) -> "index"
      [] OTHER -> "elements"

Matches(i) == asked # 0 /\ inGo[i].params = inGo[asked].params

\* The switch of render_dispatcher: a candidate takes arguments of its Go types;
\* the first one gets them.
Select ==
    /\ pc = "select"
    /\ \/ /\ decl.role # "dispatcher"
          /\ pc' = StepAfterReceiver(fn)
          /\ UNCHANGED <<fn, outcome>>
       \/ /\ decl.role = "dispatcher"
          /\ \E i \in decl.of :
                Matches(i) /\ fn' = i /\ pc' = "prepare"
          /\ UNCHANGED outcome
       \/ /\ decl.role = "dispatcher"
          /\ ~\E i \in decl.of : Matches(i)
          /\ Done("error") /\ UNCHANGED fn
    /\ UNCHANGED <<fileVars, decl, asked, receiver, args, index, prepared, heap, cells,
                   raced, result>>

-----------------------------------------------------------------------------
(* A call with its arguments converted in Go.                              *)

\* The setup lines of one argument. Strings are copied to C; what frees them is
\* deferred after the last argument only.
Prepare ==
    /\ pc = "prepare" /\ prepared < Len(F.params)
    /\ LET k == prepared + 1 t == F.params[k]
       IN  IF GuardPasses(t, args[k])
           THEN /\ prepared' = k
                /\ heap' = (IF IsString(t) THEN heap \cup {k} ELSE heap)
                /\ UNCHANGED <<pc, outcome>>
           ELSE Done("panic") /\ UNCHANGED <<prepared, heap>>
    /\ UNCHANGED <<fileVars, decl, fn, asked, receiver, args, index, cells, raced, result>>

EnterC ==
    /\ pc = "prepare" /\ prepared = Len(F.params)
    /\ pc' = "native"
    /\ UNCHANGED <<fileVars, decl, fn, asked, receiver, args, index, prepared, heap, cells,
                   raced, outcome, result>>

CopiedReturns == {"String", "FixedByteArray", "FixedArray"}

\* The wrapper in C returns (render_callable_body, render_field_getter_body):
\* nullptr where malloc fails or the program's own pointer is null.
ReturnFromC ==
    /\ pc = "native"
    /\ \E raw \in (IF F.returns.kind \in CopiedReturns \cup {"CString", "Pointer", "ModelPointer"}
                   THEN {"nil", "some"} ELSE {"some"}) :
          /\ result' = [form |-> raw, root |-> "none"]
          /\ heap' = heap \cup (IF raw = "some" /\ F.returns.kind \in CopiedReturns THEN {0} ELSE {})
    /\ pc' = "back"
    /\ UNCHANGED <<fileVars, decl, fn, asked, receiver, args, index, prepared, cells, raced, outcome>>

\* infer_borrow_root_expr: the root of the only rooted argument of a function.
RootedParams(f) ==
    {k \in DOMAIN f.params : f.params[k].kind \in ModelKind /\ ~IsVoidPointer(f.params[k])
                              /\ HasRoot(f.params[k])}

BorrowRoot ==
    CASE receiver # << >> -> "receiver"
      [] receiver = << >> /\ Cardinality(RootedParams(F)) = 1 -> "argument"
      [] OTHER -> "nil"

IsOwnedResult(f) ==
    f.returns.kind = "ModelValue" \/ (f.returns.kind = "ModelPointer" /\ f.cpp \in header.owners)

Unrooted(f) == [form |-> "bare", root |-> "none"]   \* mutant: the helpers are not used

\* How a model pointer that is not nil is wrapped.
Wrapped(f) ==
    CASE ~HasRoot(f.returns) -> [form |-> "bare", root |-> "none"]
      [] HasRoot(f.returns) /\ IsOwnedResult(f) -> [form |-> "owned", root |-> "new"]
      [] OTHER -> [form |-> "borrowed", root |-> BorrowRoot]

\* The root of the argument is read though it may be a nil pointer.
RootOfNil ==
    /\ F.returns.kind \in ModelKind /\ ~IsVoidPointer(F.returns)
    /\ Wrapped(F).root = "argument"
    /\ \E k \in RootedParams(F) : args[k] = <<"nil">>

Temporary == DOMAIN F.params

KeepResult(f) == Temporary              \* mutant: results are not freed

\* What is freed as the function returns: the strings, and a result that was copied.
FreedOnReturn(f) == Temporary \cup {0}

\* render_go_call_return, and what render_facade_constructor returns. What C++
\* left in a reference is written back, whatever was returned.
ReturnToGo ==
    /\ pc = "back"
    /\ heap' = heap \ FreedOnReturn(F)
    /\ CASE F.kind = "Constructor" ->
                Done("value") /\ result' = [form |-> "owned", root |-> "new"]
         [] F.kind # "Constructor" /\ result.form = "nil" ->
                /\ Done(IF F.returns.kind \in ErrorReturns THEN "error" ELSE "nil")
                /\ result' = NotWrapper
         [] F.kind # "Constructor" /\ result.form # "nil" /\ RootOfNil ->
                Done("panic") /\ UNCHANGED result
         [] F.kind # "Constructor" /\ result.form # "nil" /\ ~RootOfNil ->
                /\ Done("value")
                /\ result' = (IF F.returns.kind \in ModelKind /\ ~IsVoidPointer(F.returns)
                              THEN Wrapped(F) ELSE NotWrapper)
    /\ args' = [k \in DOMAIN args |->
                   IF F.params[k].kind = "Reference" THEN <<"written">> ELSE args[k]]
    /\ UNCHANGED <<fileVars, decl, fn, asked, receiver, index, prepared, cells, raced>>

-----------------------------------------------------------------------------
(* Accessors of arrays of objects.                                         *)

\* C.int(index)
CInt(i) == ((i + IntSpan) % (2 * IntSpan)) - IntSpan

\* The check in the indexed getter and setter in C.
InArray(i) == i >= 0 /\ i < ArrayLength

\* render_fixed_model_array_getter_at
ElementWrapper(f) ==
    IF f.returns.handle \in header.projected
    THEN [form |-> "borrowed", root |-> "receiver"] ELSE [form |-> "bare", root |-> "none"]

GetAt ==
    /\ pc = "index" /\ F.accessor = "GetAt"
    /\ LET i == CInt(index) IN
       IF InArray(i)
       THEN /\ cells' = [k \in DOMAIN cells \cup {i} |-> IF k = i THEN "read" ELSE cells[k]]
            /\ result' = ElementWrapper(F) /\ Done("value")
       ELSE Done("nil") /\ UNCHANGED <<cells, result>>
    /\ UNCHANGED <<fileVars, decl, fn, asked, receiver, args, index, prepared, heap, raced>>

\* In C a null value is not written.
WriteElement(i, v) ==
    cells' = (IF InArray(i) /\ v = "open"
              THEN [k \in DOMAIN cells \cup {i} |-> IF k = i THEN "new" ELSE cells[k]]
              ELSE cells)

\* The element is a pointer, which may be nil.
SetAt ==
    /\ pc = "index" /\ F.accessor = "SetAt"
    /\ LET v == args[2] IN
       IF HandlePasses(F.params[2], v)
       THEN WriteElement(CInt(index), v[1]) /\ Done("value")
       ELSE Done("panic") /\ UNCHANGED cells
    /\ UNCHANGED <<fileVars, decl, fn, asked, receiver, args, index, prepared, heap, raced, result>>

\* The wrapper of the getter calls GetAt for every element, with its guard.
GetElement ==
    /\ pc = "elements" /\ F.accessor = "Get"
    /\ \/ index = ArrayLength /\ Done("value") /\ UNCHANGED <<index, cells>>
       \/ /\ index < ArrayLength /\ receiver[1] = "closed"
          /\ Done("panic") /\ UNCHANGED <<index, cells>>
       \/ /\ index < ArrayLength /\ receiver[1] = "emptied"
          /\ Done("error") /\ UNCHANGED <<index, cells>>
       \/ /\ index < ArrayLength /\ receiver[1] = "open"
          /\ cells' = [cells EXCEPT ![index] = "read"]
          /\ index' = index + 1
          /\ UNCHANGED <<pc, outcome>>
    /\ UNCHANGED <<fileVars, decl, fn, asked, receiver, args, prepared, heap, raced, result>>

LengthUnchecked(v) == TRUE              \* mutant: the length is not compared

LengthPasses(v) == Len(v) = ArrayLength

\* The wrapper of the setter looks at the length, and calls SetAt for every
\* element, with its guards.
SetElement ==
    /\ pc = "elements" /\ F.accessor = "Set"
    /\ LET v == args[1] IN
       CASE ~LengthPasses(v) -> Done("panic") /\ UNCHANGED <<index, cells>>
         [] LengthPasses(v) /\ index = Len(v) -> Done("value") /\ UNCHANGED <<index, cells>>
         [] LengthPasses(v) /\ index < Len(v)
              /\ \/ receiver[1] = "closed"
                 \/ receiver[1] = "open" /\ v[index + 1] \in Closed ->
                Done("panic") /\ UNCHANGED <<index, cells>>
         [] OTHER -> /\ IF receiver[1] = "open" THEN WriteElement(index, v[index + 1])
                        ELSE UNCHANGED cells
                     /\ index' = index + 1
                     /\ UNCHANGED <<pc, outcome>>
    /\ UNCHANGED <<fileVars, decl, fn, asked, receiver, args, prepared, heap, raced, result>>

-----------------------------------------------------------------------------
(* Another goroutine closes a wrapper of this call, at most one.           *)

GuardedReceiver == pc # "receiver"

Guarded(k) == pc = "prepare" /\ k <= prepared

\* Its Close has set the root, and may have set its pointer to nil.
CloseMeanwhile ==
    /\ pc \in {"receiver", "select", "prepare", "index", "elements"} /\ raced = "no"
    /\ \E left \in Closed :
       \/ /\ receiver = <<"open">> /\ receiver' = <<left>>
          /\ raced' = (IF GuardedReceiver THEN "late" ELSE "early")
          /\ UNCHANGED args
       \/ /\ asked # 0
          /\ \E k \in DOMAIN args : \E n \in DOMAIN args[k] :
                LET t == Fs[asked].params[k] IN
                /\ t.kind \in ModelKind \cup {"FixedModelArray"} /\ HasRoot(t)
                /\ args[k][n] = "open"
                /\ args' = [args EXCEPT ![k][n] = left]
                /\ raced' = (IF Guarded(k) THEN "late" ELSE "early")
          /\ UNCHANGED receiver
    /\ UNCHANGED <<fileVars, pc, decl, fn, asked, index, prepared, heap, cells, outcome, result>>

Next ==
    \/ CollectClasses /\ UNCHANGED callVars
    \/ CheckExports /\ UNCHANGED callVars
    \/ RenderFile /\ UNCHANGED callVars
    \/ Begin \/ GuardReceiver \/ Select \/ Prepare \/ EnterC \/ ReturnFromC \/ ReturnToGo
    \/ GetAt \/ SetAt \/ GetElement \/ SetElement \/ CloseMeanwhile

Spec == Init /\ [][Next]_vars

-----------------------------------------------------------------------------
(* Properties.                                                             *)

\* Arguments of just the Go types of an overload reach that overload and no
\* other, in whatever order the candidates are tried (render_dispatcher,
\* dispatcher_group_is_safe).
DispatchesByType ==
    decl.role = "dispatcher" /\ asked # 0 =>
        /\ fn \in {0, asked}
        /\ pc = "done" /\ fn = 0 => receiver # << >> /\ receiver[1] # "open"

\* What the C wrapper may rely on.
Required(t, v) ==
    CASE t.kind \in {"FixedByteArray", "FixedArray"} -> Len(v) = ArrayLength
      [] t.kind = "FixedModelArray" ->
             Len(v) = ArrayLength /\ \A k \in DOMAIN v : v[k] = "open"
      [] t.kind \in {"Reference", "ExternStructReference"} -> v[1] = "some"
      [] t.kind = "ModelPointer" /\ ~IsVoidPointer(t) -> v[1] \in {"nil", "hollow", "open"}
      [] t.kind \in {"ModelReference", "ModelValue"} -> v[1] = "open"
      [] OTHER -> TRUE

\* C++ gets no null reference, no slice that is too short and nothing that was
\* closed, through a typed function or through a dispatcher, unless a wrapper is
\* closed by another goroutine between the guard on it and the call
\* (render_call_prep, render_general_api_method, render_dispatcher).
GuardsHold ==
    pc = "native" /\ raced # "late" =>
        /\ receiver # << >> => receiver[1] = "open"
        /\ \A k \in DOMAIN args : Required(F.params[k], args[k])

\* When a call is over all that it allocated in C is freed, but for strings that
\* were copied before the guard on a later argument panicked (the defers stand
\* after all setup lines in render_call_prep's users); and it has panicked
\* before C++ ran or not at all, but where a result borrows from an argument that
\* may be nil, whose root is read all the same (infer_borrow_root_expr,
\* render_model_handle_setup).
CallsEndClean ==
    pc = "done" =>
        /\ heap # {} => /\ outcome = "panic" /\ 0 \notin heap
                        /\ ~GuardPasses(F.params[prepared + 1], args[prepared + 1])
        /\ outcome = "panic" /\ result.form = "some" =>
              \E k \in RootedParams(F) : F.params[k].kind = "ModelPointer" /\ args[k] = <<"nil">>

\* Arrays of objects are given out element by element for classes with projections.
ElementsProjected == F.accessor = "GetAt" => F.returns.handle \in header.projected

\* A wrapper that is returned has a root if its class has: a new one if it owns,
\* that of the receiver in a method, so that closing the receiver closes it
\* (model_return_has_wrapper_helpers must agree with rooted_handles). An element
\* is never owned, but by a dispatcher, which calls accessors as other methods.
ResultsHaveRoots ==
    /\ pc = "done" /\ outcome = "value"
    /\ F.returns.kind \in ModelKind /\ ~IsVoidPointer(F.returns) /\ HasRoot(F.returns)
    /\ decl.role = "dispatcher" \/ ElementsProjected
    => IF IsOwnedResult(F) /\ (decl.role = "dispatcher" \/ F.accessor # "GetAt")
       THEN result.form = "owned" /\ result.root = "new"
       ELSE result.form = "borrowed" /\ (receiver # << >> => result.root = "receiver")

\* By the accessor's own method; a dispatcher hands over the whole array.
SetsArray == decl.role = "method" /\ F.accessor = "Set" /\ IsElementwise(F)

FitsCInt(i) == i >= -IntSpan /\ i < IntSpan

\* An array is set from its beginning, and all of it but for the elements given
\* as nil, unless the setter panics or its receiver is closed meanwhile
\* (render_fixed_model_array_setter_wrapper).  No element beyond an array is read
\* or written, and by an accessor of one element, if the index fits an int of C,
\* only the element it names (C.int(index), render_indexed_field_getter_body and
\* render_indexed_field_setter_body).
ArraysSetInOrder ==
    /\ SetsArray =>
          LET v == args[1] IN
          /\ \A i, j \in DOMAIN cells :
                i < j /\ cells[j] = "new" => cells[i] = "new" \/ v[i + 1] \in {"nil", "hollow"}
                                               \/ raced # "no"
          /\ pc = "done" /\ outcome = "value" /\ raced = "no" =>
                /\ Len(v) = ArrayLength
                /\ \A i \in DOMAIN cells : cells[i] = "new" <=> v[i + 1] = "open"
    /\ \A i \in DOMAIN cells :
          /\ i \in 0 .. ArrayLength - 1
          /\ cells[i] # "old" /\ pc = "done" /\ fn # 0 /\ IsIndexed(F) /\ FitsCInt(index)
                => i = index
=============================================================================
