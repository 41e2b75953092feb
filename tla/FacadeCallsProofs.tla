------------------------- MODULE FacadeCallsProofs -------------------------
(***************************************************************************)
(* Proofs about modules Facade and FacadeCalls, for any set of headers of  *)
(* the shape MadeByIR:                                                     *)
(*                                                                         *)
(*   Invariant          CallInv is an invariant                            *)
(*   TypesDispatch      so is DispatchesByType                             *)
(*   GuardsKeep         so is GuardsHold                                   *)
(*   CallsClean         so is CallsEndClean                                *)
(*   Arrays             so is ArrayInv                                     *)
(*   ArraysOrdered      and with it ArraysSetInOrder                       *)
(*   ResultsRooted      so is ResultsHaveRoots                             *)
(*   FunctionsOffered   so is EveryFunctionOffered                         *)
(*   ImportsRight       so is ImportsMatch                                 *)
(*                                                                         *)
(* CallInv says of a call, at every stage: its declaration stands for      *)
(* functions that it may call (FileInv, DeclInv); the arguments are of the *)
(* types of the function it is on the way to (AskedInv, ArgsInv); what is  *)
(* past its guard is open, or another goroutine has closed it since        *)
(* (ReceiverInv, PreparedInv); what is allocated (HeapInv).  ArrayInv adds *)
(* how far the loop over an array of objects has come.                     *)
(***************************************************************************)
EXTENDS FacadeCalls, FiniteSetTheorems, TLAPS

(***************************************************************************)
(* What the file declares.                                                 *)
(***************************************************************************)

\* What a method of the file is a method of has a name.
ClassesNamed ==
    \A c \in ClassHandles :
        /\ classes[c].go # << >>
        /\ classes[c].methods \subseteq {i \in DOMAIN Fs : Fs[i].kind = "Method" /\ Fs[i].owner = c}
        /\ classes[c].constructors \subseteq
              {i \in DOMAIN Fs : Fs[i].kind = "Constructor" /\ Fs[i].owner = c}

\* What is called through a declaration: one function, or a group in which no
\* two are alike; methods just where there is a receiver.
WellDeclared(d) ==
    /\ d.of \subseteq DOMAIN Fs
    /\ d.role = "dispatcher" => GroupIsSafe(d.of)
    /\ d.role # "dispatcher" => \E i \in d.of : d.of = {i}
    /\ \A i \in d.of : Fs[i].kind = "Method" <=> d.scope # << >>
    /\ \A i \in d.of : Fs[i].kind = "Constructor" <=> d.role = "constructor"
    /\ d.role # "dispatcher" => (d.role = "method" <=> d.scope # << >>)

DeclaredWell == \A d \in decls : Callable(d) => WellDeclared(d)

\* No declaration of the file but calls functions that it may call.
FileInv == header \in Inputs /\ ClassesNamed /\ DeclaredWell

\* TypedDecls gives every function a declaration of its own.
LEMMA TypedWell ==
    ASSUME NEW scope, NEW is, NEW role, NEW d \in TypedDecls(scope, is, role),
           is \subseteq DOMAIN Fs, role # "dispatcher",
           \A i \in is : Fs[i].kind = "Method" <=> scope # << >>,
           \A i \in is : Fs[i].kind = "Constructor" <=> role = "constructor",
           role = "method" <=> scope # << >>
    PROVE  WellDeclared(d)
<1>1. PICK i \in is : d = Decl(scope, inGo[i].export, role, {i})
  BY DEF TypedDecls
<1>2. d.scope = scope /\ d.role = role /\ d.of = {i}
  BY <1>1 DEF Decl
<1> QED BY <1>2 DEF WellDeclared

\* The groups of DispatcherDecls are safe.
LEMMA DispatchersWell ==
    ASSUME NEW scope, NEW is, NEW d \in DispatcherDecls(scope, is),
           is \subseteq DOMAIN Fs,
           \A i \in is : Fs[i].kind = "Method" <=> scope # << >>,
           \A i \in is : Fs[i].kind # "Constructor"
    PROVE  WellDeclared(d)
<1>1. PICK name \in Dispatchers(is) :
          d = Decl(scope, name, "dispatcher", OverloadGroup(is, name))
  BY DEF DispatcherDecls
<1>2. d.scope = scope /\ d.role = "dispatcher" /\ d.of = OverloadGroup(is, name)
  BY <1>1 DEF Decl
<1>3. d.of \subseteq is
  BY <1>2 DEF OverloadGroup
<1>4. GroupIsSafe(d.of)
  BY <1>1, <1>2 DEF Dispatchers
<1> QED BY <1>2, <1>3, <1>4 DEF WellDeclared

\* The declarations that go with a type are not called with functions of C.
LEMMA WrappersNotCalled ==
    ASSUME NEW go, NEW role, role \in {"class", "opaque"}, NEW d \in WrapperDecls(go, role)
    PROVE  ~Callable(d)
BY DEF WrapperDecls, Decl, Callable

\* A class declares its methods, its constructors and its dispatchers well.
LEMMA ClassWell ==
    ASSUME ClassesNamed, NEW c \in ClassHandles, NEW d \in ClassDecls(classes[c]), Callable(d)
    PROVE  WellDeclared(d)
<1> DEFINE k == classes[c]
<1>0. /\ k.go # << >>
      /\ k.methods \subseteq {i \in DOMAIN Fs : Fs[i].kind = "Method"}
      /\ k.constructors \subseteq {i \in DOMAIN Fs : Fs[i].kind = "Constructor"}
  BY DEF ClassesNamed
<1> DEFINE cs == [i \in k.constructors |-> Fs[i]]
<1>1. \/ d \in WrapperDecls(k.go, "class")
      \/ \E i \in k.constructors :
            d = Decl(<< >>, ConstructorName(k.go, cs, i), "constructor", {i})
      \/ d \in TypedDecls(k.go, k.methods, "method")
      \/ d \in DispatcherDecls(k.go, k.methods)
  BY DEF ClassDecls
<1> HIDE DEF k, cs
<1>2. CASE d \in WrapperDecls(k.go, "class")
  BY <1>2, WrappersNotCalled
<1>3. ASSUME NEW i \in k.constructors,
             d = Decl(<< >>, ConstructorName(k.go, cs, i), "constructor", {i})
      PROVE  WellDeclared(d)
  <2>1. d.scope = << >> /\ d.role = "constructor" /\ d.of = {i}
    BY <1>3 DEF Decl
  <2> QED BY <1>0, <2>1 DEF WellDeclared
<1>4. CASE d \in TypedDecls(k.go, k.methods, "method")
  BY <1>0, <1>4, TypedWell
<1>5. CASE d \in DispatcherDecls(k.go, k.methods)
  BY <1>0, <1>5, DispatchersWell
<1> QED BY <1>1, <1>2, <1>3, <1>4, <1>5

\* RenderFile declares nothing else.
LEMMA FileWell ==
    ASSUME ClassesNamed, NEW d \in FileDecls, Callable(d) PROVE WellDeclared(d)
<1>0. FreeFunctions \subseteq {i \in DOMAIN Fs : Fs[i].kind = "Function"}
  BY DEF FreeFunctions
<1>1. d \notin ValueDecls \cup CallbackDecls
  BY DEF ValueDecls, CallbackDecls, ValueDecl, Callable
<1>2. d \notin OpaqueDecls
  <2>1. ASSUME NEW h \in LocalOpaques, h \in OwnedOpaques,
               d \in WrapperDecls(GoExport(h), "opaque")
        PROVE  FALSE
    BY <2>1, WrappersNotCalled
  <2>2. ASSUME NEW h \in LocalOpaques, d = Decl(<< >>, GoExport(h), "opaque", {})
        PROVE  FALSE
    BY <2>2 DEF Decl, Callable
  <2> QED BY <2>1, <2>2 DEF OpaqueDecls
<1>3. CASE d \in TypedDecls(<< >>, FreeFunctions, "function")
  BY <1>0, <1>3, TypedWell
<1>4. CASE d \in DispatcherDecls(<< >>, FreeFunctions)
  BY <1>0, <1>4, DispatchersWell
<1>5. ASSUME NEW c \in ClassHandles, d \in ClassDecls(classes[c]) PROVE WellDeclared(d)
  BY <1>5, ClassWell
<1> QED BY <1>1, <1>2, <1>3, <1>4, <1>5 DEF FileDecls

\* The actions of the file keep FileInv, and those of a call leave the file alone.
LEMMA FileKept ==
    ASSUME FileInv, [Next]_vars PROVE FileInv'
<1> USE DEF FileInv
<1>1. ASSUME CollectClasses PROVE FileInv'
  <2>1. CASE fault' = "collision"
    BY <1>1, <2>1 DEF CollectClasses, ClassesNamed, ClassHandles, DeclaredWell, WellDeclared, GroupIsSafe, Fs
  <2>2. CASE classes' = [h \in {o \in OwnersOfMethods : HasDestructor(o)} |-> FacadeClass(h)]
    <3>1. ClassesNamed'
      <4> SUFFICES ASSUME NEW c \in {o \in OwnersOfMethods : HasDestructor(o)}
                   PROVE  /\ FacadeClass(c).go # << >>
                          /\ FacadeClass(c).methods \subseteq
                                {i \in DOMAIN Fs : Fs[i].kind = "Method" /\ Fs[i].owner = c}
                          /\ FacadeClass(c).constructors \subseteq
                                {i \in DOMAIN Fs : Fs[i].kind = "Constructor" /\ Fs[i].owner = c}
        BY <1>1, <2>2 DEF ClassesNamed, ClassHandles, CollectClasses, Fs
      <4>1. PICK j \in DOMAIN Fs : Fs[j].kind = "Method" /\ Fs[j].owner = c
        BY DEF OwnersOfMethods
      <4>2. GoExport(c) # << >>
        <5>1. MadeByIR(Fs[j])
          BY <4>1, InputAssumption DEF Fs
        <5> QED BY <4>1, <5>1 DEF MadeByIR
      <4> QED BY <4>2 DEF FacadeClass, MethodsOf, ConstructorsOf
    <3>2. DeclaredWell' 
      BY <1>1 DEF CollectClasses, DeclaredWell, Callable, WellDeclared, GroupIsSafe, Fs
    <3> QED BY <1>1, <3>1, <3>2 DEF CollectClasses
  <2> QED BY <1>1, <2>1, <2>2 DEF CollectClasses
<1>2. ASSUME RenderFile PROVE FileInv'
  <2>1. UNCHANGED <<header, inGo, classes>> /\ (decls' = decls \/ decls' = FileDecls)
    BY <1>2 DEF RenderFile
  <2>2. \A d \in FileDecls : Callable(d) => WellDeclared(d)
    BY FileWell
  <2> HIDE DEF FileInv
  <2>3. DeclaredWell'
    BY <2>1, <2>2 DEF FileInv, DeclaredWell, Callable, WellDeclared, GroupIsSafe, Fs
  <2> QED BY <2>1, <2>3 DEF FileInv, ClassesNamed, ClassHandles, Fs
<1>3. ASSUME UNCHANGED <<header, inGo, classes, decls>> PROVE FileInv'
  BY <1>3 DEF ClassesNamed, ClassHandles, DeclaredWell, Callable, WellDeclared, GroupIsSafe, Fs
<1>4. CheckExports => UNCHANGED <<header, inGo, classes, decls>>
  BY DEF CheckExports
<1>5. ASSUME UNCHANGED fileVars PROVE UNCHANGED <<header, inGo, classes, decls>>
  BY <1>5 DEF fileVars
<1>6. [Next]_vars => CollectClasses \/ CheckExports \/ RenderFile \/ UNCHANGED fileVars
  BY DEF Next, vars, Begin, GuardReceiver, Select, Prepare, EnterC, ReturnFromC, ReturnToGo,
         GetAt, SetAt, GetElement, SetElement, CloseMeanwhile
<1> QED BY <1>1, <1>2, <1>3, <1>4, <1>5, <1>6

(***************************************************************************)
(* The call.                                                               *)
(***************************************************************************)

Stages == {"idle", "receiver", "select", "prepare", "native", "back", "elements", "index", "done"}
Converting == {"prepare", "native", "back"}
InBody == {"prepare", "native", "back", "elements", "index"}

\* What is called is declared.
DeclInv ==
    /\ pc \in Stages
    /\ pc = "idle" => IdleInit
    /\ pc # "idle" => phase = "rendered" /\ Callable(decl) /\ WellDeclared(decl)

\* The function is the one whose Go types the arguments have, once it is known.
AskedInv ==
    pc # "idle" =>
        /\ asked \in decl.of \cup {0}
        /\ asked = 0 => decl.role = "dispatcher"
        /\ fn \in decl.of \cup {0}
        /\ asked # 0 => fn \in {0, asked}
        /\ asked = 0 => fn = 0
        /\ fn = 0 => decl.role = "dispatcher" /\ pc \in {"receiver", "select", "done"}
        /\ fn = 0 /\ asked # 0 /\ pc = "done" => receiver # << >> /\ receiver[1] # "open"

ReceiverValues == {<<v>> : v \in Closed \cup {"nil", "hollow", "open"}}

ClosedLate == raced = "late" /\ receiver[1] \in Closed

\* Past the guard the receiver is open, or another goroutine closed it since.
ReceiverInv ==
    /\ IF decl.scope = << >> THEN receiver = << >> ELSE receiver \in ReceiverValues
    /\ pc = "receiver" => receiver # << >>
    /\ pc \in {"elements", "index"} => decl.role = "method"
    /\ pc \in InBody \cup {"select"} /\ receiver # << >> => receiver[1] = "open" \/ ClosedLate

\* The arguments are what the Go types take.
ArgsInv ==
    pc \notin {"idle", "done"} /\ asked # 0 =>
        /\ args = [k \in DOMAIN Fs[asked].params |-> args[k]]
        /\ \A k \in DOMAIN Fs[asked].params : args[k] \in GoValues(Fs[asked].params[k])

PastGuard(k) ==
    \/ GuardPasses(F.params[k], args[k])
    \/ raced = "late" /\ \E n \in DOMAIN args[k] : args[k][n] \in Closed

\* The arguments that are converted have passed their guards.
PreparedInv ==
    /\ prepared \in Nat
    /\ pc \notin Converting \cup {"done"} => prepared = 0
    /\ pc = "prepare" => prepared <= Len(F.params)
    /\ pc \in {"native", "back"} => prepared = Len(F.params)
    /\ pc \in Converting => \A k \in 1 .. prepared : PastGuard(k)

\* What is allocated goes with the call.
HeapInv ==
    /\ pc \notin Converting \cup {"done"} => heap = {}
    /\ pc \in {"prepare", "native"} => heap \subseteq 1 .. prepared
    /\ pc = "back" => heap \subseteq 0 .. prepared

\* A wrapper is there only when C++ has returned.
ResultInv == pc \notin {"back", "done"} => result = NotWrapper

\* Arrays of objects go element by element, but through dispatchers.
RouteInv ==
    /\ pc \in Converting /\ decl.role # "dispatcher" => ~IsElementwise(F)
    /\ pc \in {"elements", "index"} => IsElementwise(F) /\ (pc = "index" <=> IsIndexed(F))

CallInv ==
    RouteInv /\ FileInv /\ DeclInv /\ AskedInv /\ ReceiverInv /\ ArgsInv /\ PreparedInv /\ HeapInv /\ ResultInv

\* The places of a sequence.
LEMMA Places ==
    ASSUME NEW S, NEW s \in Seq(S) PROVE DOMAIN s = 1 .. Len(s) /\ Len(s) \in Nat
OBVIOUS

\* What the assumption on the inputs says of a function of the header.
LEMMA OfFunctions ==
    ASSUME FileInv, NEW i \in DOMAIN Fs
    PROVE  /\ i \in Nat \ {0} /\ Fs[i].params \in Seq(ToSet(Fs[i].params))
           /\ DOMAIN Fs[i].params = 1 .. Len(Fs[i].params) /\ Len(Fs[i].params) \in Nat
           /\ \A k \in DOMAIN Fs[i].params :
                 IsVoidPointer(Fs[i].params[k]) => Fs[i].params[k].kind = "ModelPointer"
           /\ Fs[i].accessor # "" => Fs[i].kind = "Method"
           /\ Fs[i].accessor \in {"Set", "SetAt"} => Fs[i].params # << >> /\ Fs[i].returns.kind = "Void"
           /\ Fs[i].kind = "Constructor" => Fs[i].returns.kind = "Opaque"
<1>1. i \in Nat \ {0} /\ MadeByIR(Fs[i])
  BY InputAssumption DEF FileInv, Fs
<1>2. \A k \in DOMAIN Fs[i].params : Fs[i].params[k] \in ToSet(Fs[i].params)
  BY DEF ToSet
<1>3. DOMAIN Fs[i].params = 1 .. Len(Fs[i].params) /\ Len(Fs[i].params) \in Nat
  BY <1>1, Places DEF MadeByIR
<1>4. \A k \in DOMAIN Fs[i].params :
          IsVoidPointer(Fs[i].params[k]) => Fs[i].params[k].kind = "ModelPointer"
  BY <1>1, <1>2 DEF MadeByIR
<1> QED BY <1>1, <1>3, <1>4 DEF MadeByIR

\* No step changes the header, or what its functions are in Go.
LEMMA SameHeader ==
    ASSUME [Next]_vars PROVE header' = header /\ inGo' = inGo
BY DEF Next, vars, fileVars, CollectClasses, CheckExports, RenderFile, Begin, GuardReceiver, Select,
       Prepare, EnterC, ReturnFromC, ReturnToGo, GetAt, SetAt, GetElement, SetElement, CloseMeanwhile

\* The steps that a call makes once it has begun.
StepOfCall ==
    \/ GuardReceiver \/ Select \/ Prepare \/ EnterC \/ ReturnFromC \/ ReturnToGo
    \/ GetAt \/ SetAt \/ GetElement \/ SetElement \/ CloseMeanwhile

\* Every step is one of the file, the beginning of a call, or a later step of it.
LEMMA Steps ==
    ASSUME [Next]_vars PROVE UNCHANGED callVars \/ Begin \/ StepOfCall
BY DEF Next, vars, StepOfCall

\* A call goes through the stages and is not begun again.
LEMMA StagesKept ==
    ASSUME StepOfCall
    PROVE  /\ decl' = decl /\ asked' = asked /\ pc \notin {"idle", "done"}
           /\ pc' \in Stages \ {"idle"} /\ UNCHANGED fileVars
<1>1. CASE GuardReceiver
  BY <1>1 DEF Stages, GuardReceiver, Done
<1>2. CASE Select
  BY <1>2 DEF Stages, Select, StepAfterReceiver, Done
<1>3. CASE Prepare \/ EnterC \/ ReturnFromC
  BY <1>3 DEF Stages, Prepare, EnterC, ReturnFromC, Done
<1>4. CASE ReturnToGo
  BY <1>4 DEF Stages, ReturnToGo, Done
<1>5. CASE GetAt \/ SetAt
  BY <1>5 DEF Stages, GetAt, SetAt, Done
<1>6. CASE GetElement
  BY <1>6 DEF Stages, GetElement, Done
<1>7. CASE SetElement
  BY <1>7 DEF Stages, SetElement, Done
<1>8. CASE CloseMeanwhile
  BY <1>8 DEF Stages, CloseMeanwhile
<1> QED BY <1>1, <1>2, <1>3, <1>4, <1>5, <1>6, <1>7, <1>8 DEF StepOfCall

\* While a call goes on the file is not changed.
LEMMA FileStands ==
    ASSUME DeclInv, [Next]_vars, pc' # "idle" PROVE UNCHANGED fileVars
<1>1. CASE UNCHANGED callVars
  <2>1. phase = "rendered"
    BY <1>1 DEF DeclInv, callVars
  <2> QED BY <2>1 DEF Next, vars, CollectClasses, CheckExports, RenderFile, Begin, GuardReceiver,
             Select, Prepare, EnterC, ReturnFromC, ReturnToGo, GetAt, SetAt, GetElement, SetElement,
             CloseMeanwhile
<1>2. CASE Begin
  BY <1>2 DEF Begin
<1>3. CASE StepOfCall
  BY <1>3, StagesKept
<1> QED BY <1>1, <1>2, <1>3, Steps

\* DeclInv is kept.
LEMMA DeclKept ==
    ASSUME FileInv, DeclInv, [Next]_vars PROVE DeclInv'
<1>0. UNCHANGED <<header, inGo>>
  BY SameHeader
<1>1. CASE UNCHANGED callVars
  <2>1. CASE pc = "idle"
    BY <1>1, <2>1 DEF DeclInv, callVars, IdleInit
  <2>2. CASE pc # "idle"
    <3>1. UNCHANGED fileVars
      BY <1>1, <2>2, FileStands DEF callVars
    <3> QED BY <1>0, <1>1, <2>2, <3>1
            DEF DeclInv, callVars, fileVars, Callable, WellDeclared, GroupIsSafe, Fs
  <2> QED BY <2>1, <2>2
<1>2. CASE Begin
  <2>1. decl' \in decls /\ Callable(decl') /\ phase' = "rendered"
    BY <1>2 DEF Begin, fileVars
  <2>2. WellDeclared(decl')
    BY <2>1 DEF FileInv, DeclaredWell
  <2> QED BY <1>0, <1>2, <2>1, <2>2 DEF DeclInv, Begin, Stages, Callable, WellDeclared, GroupIsSafe, Fs
<1>3. CASE StepOfCall
  BY <1>0, <1>3, StagesKept DEF DeclInv, fileVars, Callable, WellDeclared, GroupIsSafe, Fs
<1> QED BY <1>1, <1>2, <1>3, Steps

\* The arguments of a call are those of a function of its declaration, or, for a
\* dispatcher only, of none.
LEMMA ArgumentsOf ==
    ASSUME NEW d, NEW a \in ArgumentsFor(d)
    PROVE  \/ /\ a.of \in d.of
              /\ a.args = [k \in DOMAIN Fs[a.of].params |-> a.args[k]]
              /\ \A k \in DOMAIN Fs[a.of].params : a.args[k] \in GoValues(Fs[a.of].params[k])
           \/ d.role = "dispatcher" /\ a.of = 0
<1>1. \/ a \in UNION {{[of |-> i, args |-> vs] : vs \in Taken(Fs[i])} : i \in d.of}
      \/ d.role = "dispatcher" /\ a = Untyped
  BY DEF ArgumentsFor
<1>2. CASE a \in UNION {{[of |-> i, args |-> vs] : vs \in Taken(Fs[i])} : i \in d.of}
  <2>1. PICK i \in d.of : \E vs \in Taken(Fs[i]) : a = [of |-> i, args |-> vs]
    BY <1>2
  <2>2. a.of = i /\ a.args \in Taken(Fs[i])
    BY <2>1
  <2> QED BY <2>2 DEF Taken
<1> QED BY <1>1, <1>2 DEF Untyped

\* Of the candidates of a dispatcher just one takes arguments of given types.
LEMMA OneMatches ==
    ASSUME FileInv, WellDeclared(decl), decl.role = "dispatcher", asked \in decl.of \cup {0},
           NEW i \in decl.of, Matches(i)
    PROVE  i = asked
BY DEF WellDeclared, GroupIsSafe, Matches

\* AskedInv is kept.
LEMMA AskedKept ==
    ASSUME FileInv, DeclInv, AskedInv, ReceiverInv, [Next]_vars PROVE AskedInv'
<1>0. UNCHANGED <<header, inGo>>
  BY SameHeader
<1>1. CASE UNCHANGED callVars
  BY <1>1 DEF AskedInv, callVars
<1>2. CASE Begin
  <2>1. PICK d \in decls : \E a \in ArgumentsFor(d) :
          /\ Callable(d) /\ decl' = d /\ asked' = a.of
          /\ fn' \in (IF d.role = "dispatcher" THEN {0} ELSE d.of)
    BY <1>2 DEF Begin
  <2>2. WellDeclared(d)
    BY <2>1 DEF FileInv, DeclaredWell
  <2>3. asked' \in d.of \/ (asked' = 0 /\ d.role = "dispatcher")
    BY <2>1, ArgumentsOf
  <2>4. \A i \in d.of : i # 0
    BY <2>2, OfFunctions DEF WellDeclared
  <2>5. d.role # "dispatcher" => \E i \in d.of : d.of = {i}
    BY <2>2 DEF WellDeclared
  <2>6. pc' \in {"receiver", "select"}
    BY <1>2 DEF Begin
  <2> QED BY <2>1, <2>3, <2>4, <2>5, <2>6 DEF AskedInv
<1>3. CASE StepOfCall
  <2>0. decl' = decl /\ asked' = asked /\ pc # "idle" /\ pc # "done"
    BY <1>3, StagesKept
  <2>1. CASE GuardReceiver
    <3>1. receiver # << >> /\ receiver \in ReceiverValues
      BY <2>1 DEF GuardReceiver, ReceiverInv
    <3>2. CASE receiver[1] = "open"
      BY <2>0, <2>1, <3>2 DEF GuardReceiver, AskedInv, NoPointer
    <3>3. CASE receiver[1] # "open"
      <4>1. receiver[1] \in NoPointer \/ receiver[1] = "closed"
        BY <3>1, <3>3 DEF ReceiverValues, NoPointer, Closed
      <4>2. pc' = "done" /\ fn' = fn /\ receiver' = receiver
        BY <2>1, <3>3, <4>1 DEF GuardReceiver, Done, NoPointer
      <4> QED BY <2>0, <3>1, <3>3, <4>2 DEF AskedInv
    <3> QED BY <3>2, <3>3
  <2>2. CASE Select
    <3>1. WellDeclared(decl)
      BY <2>0 DEF DeclInv
    <3>2. \A i \in decl.of : i # 0
      BY <3>1, OfFunctions DEF WellDeclared
    <3>3. asked \in decl.of => Matches(asked)
      BY <3>2 DEF Matches
    <3>4. \A i \in decl.of : Matches(i) /\ decl.role = "dispatcher" => i = asked
      BY <2>0, <3>1, OneMatches DEF AskedInv
    <3>5. CASE decl.role # "dispatcher"
      BY <2>0, <2>2, <3>5 DEF Select, AskedInv
    <3>6. CASE decl.role = "dispatcher"
      BY <2>0, <2>2, <3>2, <3>3, <3>4, <3>6 DEF Select, AskedInv, Done
    <3> QED BY <3>5, <3>6
  <2>3. CASE fn' = fn /\ pc \notin {"receiver", "select"}
    BY <2>0, <2>3 DEF AskedInv
  <2>4. CASE CloseMeanwhile
    BY <2>0, <2>4 DEF AskedInv, CloseMeanwhile
  <2>5. StepOfCall => GuardReceiver \/ Select \/ CloseMeanwhile \/ (fn' = fn /\ pc \notin {"receiver", "select"})
    BY DEF StepOfCall, Prepare, EnterC, ReturnFromC, ReturnToGo, GetAt, SetAt, GetElement, SetElement
  <2> QED BY <1>3, <2>1, <2>2, <2>3, <2>4, <2>5
<1> QED BY <1>1, <1>2, <1>3, Steps

\* ReceiverInv is kept.
LEMMA ReceiverKept ==
    ASSUME FileInv, DeclInv, AskedInv, ReceiverInv, [Next]_vars PROVE ReceiverInv'
<1>1. CASE UNCHANGED callVars
  BY <1>1 DEF ReceiverInv, ClosedLate, callVars
<1>2. CASE Begin
  <2>1. PICK d \in decls :
          /\ decl' = d
          /\ receiver' \in (IF d.scope = << >> THEN {<< >>}
                            ELSE {<<v>> : v \in Closed \cup {"nil", "hollow", "open"}})
          /\ pc' = (IF d.scope = << >> THEN "select" ELSE "receiver")
    BY <1>2 DEF Begin
  <2>2. CASE d.scope = << >>
    BY <2>1, <2>2 DEF ReceiverInv, InBody
  <2>3. CASE d.scope # << >>
    <3>1. receiver' \in ReceiverValues /\ pc' = "receiver"
      BY <2>1, <2>3 DEF ReceiverValues
    <3>2. receiver' # << >>
      BY <3>1 DEF ReceiverValues
    <3> QED BY <2>1, <2>3, <3>1, <3>2 DEF ReceiverInv, InBody
  <2> QED BY <2>2, <2>3
<1>3. CASE StepOfCall
  <2>0. decl' = decl /\ pc # "idle"
    BY <1>3, StagesKept
  <2>1. CASE GuardReceiver
    BY <2>0, <2>1 DEF GuardReceiver, Done, ReceiverInv, ClosedLate, InBody
  <2>2. CASE Select
    <3>1. fn' \in decl.of /\ decl.role # "dispatcher" /\ IsElementwise(Fs[fn']) => decl.role = "method"
      <4>1. WellDeclared(decl)
        BY <2>0 DEF DeclInv
      <4>2. \A i \in decl.of : i \in DOMAIN Fs /\ (IsElementwise(Fs[i]) => Fs[i].kind = "Method")
        BY <4>1, OfFunctions DEF WellDeclared, IsElementwise
      <4> QED BY <4>1, <4>2 DEF WellDeclared
    <3>2. CASE decl.role # "dispatcher"
      <4>1. fn' = fn /\ fn \in decl.of
        BY <2>0, <2>2, <3>2 DEF Select, AskedInv
      <4>2. pc' \in {"elements", "index"} => IsElementwise(Fs[fn])
        BY <2>2, <3>2 DEF Select, StepAfterReceiver, IsElementwise, IsIndexed
      <4>3. pc' \in {"prepare", "elements", "index"} /\ pc = "select" /\ UNCHANGED <<receiver, raced>>
        BY <2>2, <3>2 DEF Select, StepAfterReceiver
      <4> QED BY <2>0, <3>1, <3>2, <4>1, <4>2, <4>3 DEF ReceiverInv, ClosedLate, InBody
    <3>3. CASE decl.role = "dispatcher"
      BY <2>0, <2>2, <3>3 DEF Select, Done, ReceiverInv, ClosedLate, InBody
    <3> QED BY <3>2, <3>3
  <2>3. CASE CloseMeanwhile
    BY <2>0, <2>3 DEF CloseMeanwhile, GuardedReceiver, Closed, ReceiverInv, ReceiverValues, ClosedLate, InBody
  <2>4. CASE UNCHANGED <<receiver, raced>> /\ pc \in InBody /\ pc' \in {pc, "native", "back", "done"}
    BY <2>0, <2>4 DEF ReceiverInv, ClosedLate, InBody
  <2>5. CASE Prepare \/ EnterC \/ ReturnFromC
    BY <2>4, <2>5 DEF Prepare, EnterC, ReturnFromC, Done, InBody
  <2>6. CASE ReturnToGo
    BY <2>4, <2>6 DEF ReturnToGo, Done, InBody
  <2>7. CASE GetAt \/ SetAt
    BY <2>4, <2>7 DEF GetAt, SetAt, Done, InBody
  <2>8. CASE GetElement \/ SetElement
    BY <2>4, <2>8 DEF GetElement, SetElement, Done, InBody
  <2> QED BY <1>3, <2>1, <2>2, <2>3, <2>5, <2>6, <2>7, <2>8 DEF StepOfCall
<1> QED BY <1>1, <1>2, <1>3, Steps

\* What a Go type takes depends on the file only.
LEMMA SameRoots ==
    ASSUME UNCHANGED fileVars
    PROVE  /\ Fs' = Fs /\ RootedHandles' = RootedHandles
           /\ \A t : GoValues(t)' = GoValues(t)
<1>1. Fs' = Fs /\ RootedHandles' = RootedHandles
  BY DEF fileVars, Fs, RootedHandles, OwnedOpaques, ClassHandles, FreeFunctions, MethodsOfClasses
<1>2. \A t : HasRoot(t)' <=> HasRoot(t)
  BY <1>1 DEF HasRoot
<1>3. \A t : Wrappers(t)' = Wrappers(t)
  BY <1>2 DEF Wrappers
<1> QED BY <1>1, <1>3 DEF GoValues

\* A wrapper with a root stays one that its Go type takes as it is closed.
LEMMA ClosedIsTaken ==
    ASSUME NEW t, NEW v \in GoValues(t), NEW n \in DOMAIN v, NEW left \in Closed,
           v[n] = "open", HasRoot(t), t.kind \in ModelKind \cup {"FixedModelArray"}
    PROVE  [v EXCEPT ![n] = left] \in GoValues(t)
<1>1. left \in Wrappers(t)
  BY DEF Wrappers, Closed
<1>2. CASE t.kind = "FixedModelArray"
  <2>1. GoValues(t) = {<<w>> : w \in Wrappers(t)} \cup [1 .. ArrayLength -> Wrappers(t)]
    BY <1>2 DEF GoValues, IsVoidPointer, ModelKind
  <2>2. CASE v \in [1 .. ArrayLength -> Wrappers(t)]
    BY <1>1, <2>1, <2>2
  <2>3. CASE \E w \in Wrappers(t) : v = <<w>>
    <3>1. n = 1 /\ [v EXCEPT ![n] = left] = <<left>>
      BY <2>3
    <3> QED BY <1>1, <2>1, <3>1
  <2> QED BY <2>1, <2>2, <2>3
<1>3. CASE t.kind \in ModelKind
  <2>0. t.kind \notin {"FixedModelArray", "FixedByteArray", "FixedArray", "Pointer", "Reference",
                        "ExternStructPointer", "ExternStructReference", "Callback"}
    BY <1>3 DEF ModelKind
  <2>1. CASE IsVoidPointer(t)
    <3>1. GoValues(t) = {<<"nil">>, <<"some">>}
      BY <2>0, <2>1 DEF GoValues
    <3> QED BY <3>1
  <2>2. CASE ~IsVoidPointer(t)
    <3>1. GoValues(t) = {<<w>> : w \in Wrappers(t)}
      BY <1>3, <2>0, <2>2 DEF GoValues
    <3>2. PICK w \in Wrappers(t) : v = <<w>>
      BY <3>1
    <3>3. n = 1 /\ [v EXCEPT ![n] = left] = <<left>>
      BY <3>2
    <3> QED BY <1>1, <3>1, <3>3
  <2> QED BY <2>1, <2>2
<1> QED BY <1>2, <1>3

\* Another goroutine closes one wrapper of the arguments, or the receiver.
LEMMA ClosedOne ==
    ASSUME CloseMeanwhile, asked # 0, ArgsInv
    PROVE  \/ args' = args
           \/ \E k \in DOMAIN Fs[asked].params : \E n \in DOMAIN args[k] : \E left \in Closed :
                 /\ args' = [args EXCEPT ![k] = [args[k] EXCEPT ![n] = left]]
                 /\ args'[k] \in GoValues(Fs[asked].params[k])
                 /\ \A j \in DOMAIN Fs[asked].params : j # k => args'[j] = args[j]
                 /\ args'[k][n] \in Closed /\ n \in DOMAIN args'[k]
                 /\ raced' = (IF Guarded(k) THEN "late" ELSE "early")
<1>0. /\ args = [k \in DOMAIN Fs[asked].params |-> args[k]]
      /\ \A k \in DOMAIN Fs[asked].params : args[k] \in GoValues(Fs[asked].params[k])
  BY DEF CloseMeanwhile, ArgsInv
<1>1. SUFFICES ASSUME NEW left \in Closed, NEW k \in DOMAIN args, NEW n \in DOMAIN args[k],
                      Fs[asked].params[k].kind \in ModelKind \cup {"FixedModelArray"},
                      HasRoot(Fs[asked].params[k]), args[k][n] = "open",
                      args' = [args EXCEPT ![k][n] = left],
                      raced' = (IF Guarded(k) THEN "late" ELSE "early")
               PROVE  /\ args' = [args EXCEPT ![k] = [args[k] EXCEPT ![n] = left]]
                      /\ args'[k] \in GoValues(Fs[asked].params[k])
                      /\ \A j \in DOMAIN Fs[asked].params : j # k => args'[j] = args[j]
                      /\ args'[k][n] \in Closed /\ n \in DOMAIN args'[k]
                      /\ raced' = (IF Guarded(k) THEN "late" ELSE "early")
  <2>1. PICK left \in Closed :
          \/ args' = args
          \/ \E k \in DOMAIN args : \E n \in DOMAIN args[k] :
                /\ Fs[asked].params[k].kind \in ModelKind \cup {"FixedModelArray"}
                /\ HasRoot(Fs[asked].params[k]) /\ args[k][n] = "open"
                /\ args' = [args EXCEPT ![k][n] = left]
                /\ raced' = (IF Guarded(k) THEN "late" ELSE "early")
    BY Zenon DEF CloseMeanwhile
  <2>2. DOMAIN args = DOMAIN Fs[asked].params
    BY <1>0
  <2> QED BY <1>1, <2>1, <2>2
<1>2. [args[k] EXCEPT ![n] = left] \in GoValues(Fs[asked].params[k])
  BY <1>0, <1>1, ClosedIsTaken
<1>3. /\ args' = [args EXCEPT ![k] = [args[k] EXCEPT ![n] = left]]
      /\ args'[k] = [args[k] EXCEPT ![n] = left]
  BY <1>0, <1>1
<1> QED BY <1>0, <1>1, <1>2, <1>3

\* ArgsInv is kept.
LEMMA ArgsKept ==
    ASSUME FileInv, DeclInv, AskedInv, ArgsInv, [Next]_vars PROVE ArgsInv'
<1>0. SUFFICES ASSUME pc' \notin {"idle", "done"}, asked' # 0 PROVE ArgsInv'
  BY DEF ArgsInv
<1>1. UNCHANGED fileVars /\ Fs' = Fs /\ \A t : GoValues(t)' = GoValues(t)
  BY <1>0, FileStands, SameRoots
<1>2. CASE UNCHANGED <<asked, args>> /\ pc \notin {"idle", "done"}
  BY <1>0, <1>1, <1>2 DEF ArgsInv
<1>3. CASE Begin
  <2>1. PICK d \in decls : \E a \in ArgumentsFor(d) :
          Callable(d) /\ asked' = a.of /\ args' = a.args
    BY <1>3 DEF Begin
  <2> QED BY <1>0, <1>1, <2>1, ArgumentsOf DEF ArgsInv
<1>4. CASE CloseMeanwhile
  <2>1. asked' = asked /\ asked # 0 /\ pc \notin {"idle", "done"}
    BY <1>0, <1>4 DEF CloseMeanwhile
  <2>2. CASE args' = args
    BY <1>2, <2>1, <2>2
  <2>3. CASE args' # args
    <3>1. PICK k \in DOMAIN Fs[asked].params : \E n \in DOMAIN args[k] : \E left \in Closed :
             /\ args' = [args EXCEPT ![k] = [args[k] EXCEPT ![n] = left]]
             /\ args'[k] \in GoValues(Fs[asked].params[k])
             /\ \A j \in DOMAIN Fs[asked].params : j # k => args'[j] = args[j]
      BY <1>4, <2>1, <2>3, ClosedOne
    <3>2. args' = [j \in DOMAIN Fs[asked].params |-> args'[j]]
      BY <2>1, <3>1 DEF ArgsInv
    <3>3. \A j \in DOMAIN Fs[asked].params : args'[j] \in GoValues(Fs[asked].params[j])
      BY <2>1, <3>1 DEF ArgsInv
    <3> QED BY <1>1, <2>1, <3>2, <3>3 DEF ArgsInv
  <2> QED BY <2>2, <2>3
<1>5. StepOfCall =>
         CloseMeanwhile \/ pc' = "done" \/ (UNCHANGED <<asked, args>> /\ pc \notin {"idle", "done"})
  BY DEF StepOfCall, GuardReceiver, Select, Prepare, EnterC, ReturnFromC, ReturnToGo, Done, GetAt, SetAt,
         GetElement, SetElement
<1>6. UNCHANGED callVars => (UNCHANGED <<asked, args>> /\ pc \notin {"idle", "done"})
  BY <1>0 DEF callVars
<1> QED BY <1>0, <1>2, <1>3, <1>4, <1>5, <1>6, Steps

\* While C is entered the function is known, and has arguments of its types.
LEMMA Known ==
    ASSUME FileInv, DeclInv, AskedInv, ArgsInv, pc \in InBody
    PROVE  /\ fn = asked /\ asked # 0 /\ fn \in decl.of /\ fn \in DOMAIN Fs
           /\ DOMAIN F.params = 1 .. Len(F.params) /\ Len(F.params) \in Nat
           /\ args = [k \in DOMAIN F.params |-> args[k]] /\ DOMAIN args = DOMAIN F.params
           /\ \A k \in DOMAIN F.params : args[k] \in GoValues(F.params[k])
<1>1. pc \notin {"idle", "receiver", "select", "done"}
  BY DEF InBody
<1>2. fn = asked /\ asked # 0 /\ fn \in decl.of
  BY <1>1 DEF AskedInv
<1>3. fn \in DOMAIN Fs
  BY <1>1, <1>2 DEF DeclInv, WellDeclared
<1>4. DOMAIN F.params = 1 .. Len(F.params) /\ Len(F.params) \in Nat
  BY <1>3, OfFunctions DEF F
<1> QED BY <1>1, <1>2, <1>3, <1>4 DEF ArgsInv, F

\* What has passed its guard has, whatever else of the call changes.
LEMMA GuardStands ==
    ASSUME UNCHANGED <<fileVars, fn>>, NEW k, args'[k] = args[k],
           PastGuard(k), raced' = raced \/ raced = "no"
    PROVE  PastGuard(k)'
BY DEF PastGuard, GuardPasses, HandlePasses, Fits, F, Fs, fileVars

\* PreparedInv is kept.
LEMMA PreparedKept ==
    ASSUME FileInv, DeclInv, AskedInv, ArgsInv, PreparedInv, [Next]_vars PROVE PreparedInv'
<1>1. CASE UNCHANGED callVars
  <2>1. CASE pc = "idle"
    BY <1>1, <2>1 DEF PreparedInv, callVars, Converting
  <2>2. CASE pc # "idle"
    <3>1. UNCHANGED fileVars /\ Fs' = Fs
      BY <1>1, <2>2, FileStands, SameRoots DEF callVars
    <3>2. \A k : PastGuard(k) => PastGuard(k)'
      BY <1>1, <3>1, GuardStands DEF callVars
    <3> QED BY <1>1, <3>1, <3>2 DEF PreparedInv, callVars, F
  <2> QED BY <2>1, <2>2
<1>2. CASE Begin
  BY <1>2 DEF Begin, PreparedInv, Converting
<1>3. CASE StepOfCall
  <2>0. UNCHANGED fileVars /\ Fs' = Fs /\ pc \notin {"idle", "done"}
    BY <1>3, StagesKept, SameRoots
  <2>1. CASE GuardReceiver
    BY <2>1 DEF GuardReceiver, Done, PreparedInv, Converting
  <2>2. CASE Select
    <3>1. prepared' = 0 /\ prepared = 0 /\ pc' \in {"prepare", "index", "elements", "done"}
      BY <2>2 DEF Select, StepAfterReceiver, Done, PreparedInv, Converting
    <3>2. CASE pc' = "prepare"
      <4>1. fn' \in decl.of
        <5>1. CASE decl.role # "dispatcher"
          BY <2>0, <2>2, <5>1 DEF Select, AskedInv
        <5>2. CASE decl.role = "dispatcher"
          BY <2>2, <3>2, <5>2 DEF Select, Done
        <5> QED BY <5>1, <5>2
      <4>2. fn' \in DOMAIN Fs
        BY <2>0, <4>1 DEF DeclInv, WellDeclared
      <4>3. Len(Fs[fn'].params) \in Nat
        BY <4>2, OfFunctions
      <4> QED BY <2>0, <3>1, <3>2, <4>3 DEF PreparedInv, F, Converting
    <3> QED BY <3>1, <3>2 DEF PreparedInv, Converting
  <2>3. CASE Prepare
    <3>0. pc = "prepare" /\ UNCHANGED <<fn, args, raced>>
      BY <2>3 DEF Prepare
    <3>1. DOMAIN F.params = 1 .. Len(F.params) /\ Len(F.params) \in Nat /\ F' = F
      BY <2>0, <3>0, Known DEF InBody, F
    <3>2. \A k : PastGuard(k) => PastGuard(k)'
      BY <2>0, <3>0, GuardStands
    <3>3. CASE GuardPasses(F.params[prepared + 1], args[prepared + 1])
      <4>1. pc' = "prepare" /\ prepared' = prepared + 1 /\ prepared < Len(F.params)
        BY <2>3, <3>0, <3>3 DEF Prepare
      <4>2. PastGuard(prepared + 1)
        BY <3>3 DEF PastGuard
      <4> QED BY <3>0, <3>1, <3>2, <4>1, <4>2 DEF PreparedInv, Converting
    <3>4. CASE ~GuardPasses(F.params[prepared + 1], args[prepared + 1])
      BY <2>3, <3>0, <3>4 DEF Prepare, Done, PreparedInv, Converting
    <3> QED BY <3>3, <3>4
  <2>4. CASE EnterC \/ ReturnFromC
    <3>0. /\ UNCHANGED <<fn, args, raced, prepared>>
          /\ pc \in {"prepare", "native"} /\ pc' \in {"native", "back"} /\ prepared = Len(F.params)
      BY <2>4 DEF EnterC, ReturnFromC, PreparedInv
    <3>2. \A k : PastGuard(k) => PastGuard(k)'
      BY <2>0, <3>0, GuardStands
    <3> QED BY <2>0, <3>0, <3>2 DEF PreparedInv, Converting, F
  <2>5. CASE prepared' = prepared /\ pc' = "done"
    BY <2>5 DEF PreparedInv, Converting
  <2>6. CASE ReturnToGo \/ GetAt \/ SetAt
    BY <2>5, <2>6 DEF ReturnToGo, Done, GetAt, SetAt
  <2>7. CASE GetElement \/ SetElement
    <3>1. prepared' = prepared /\ pc = "elements" /\ pc' \in {"elements", "done"}
      BY <2>7 DEF GetElement, SetElement, Done
    <3> QED BY <3>1 DEF PreparedInv, Converting
  <2>8. CASE CloseMeanwhile
    <3>0. UNCHANGED <<pc, fn, asked, prepared>> /\ raced = "no" /\ pc \notin {"native", "back"}
      BY <2>8 DEF CloseMeanwhile
    <3>1. CASE pc # "prepare"
      BY <3>0, <3>1 DEF PreparedInv, Converting
    <3>2. CASE pc = "prepare"
      <4>1. /\ fn = asked /\ asked # 0 /\ DOMAIN F.params = 1 .. Len(F.params)
            /\ Len(F.params) \in Nat /\ F' = F
        BY <2>0, <3>0, <3>2, Known DEF InBody, F
      <4>2. CASE args' = args
        <5>1. \A k : PastGuard(k) => PastGuard(k)'
          BY <2>0, <3>0, <4>2, GuardStands
        <5> QED BY <3>0, <4>1, <5>1 DEF PreparedInv
      <4>3. CASE args' # args
        <5>1. PICK k \in DOMAIN F.params : \E n \in DOMAIN args[k] :
                /\ \A j \in DOMAIN F.params : j # k => args'[j] = args[j]
                /\ args'[k][n] \in Closed /\ n \in DOMAIN args'[k]
                /\ raced' = (IF Guarded(k) THEN "late" ELSE "early")
          BY <2>8, <4>1, <4>3, ClosedOne DEF F
        <5>2. \A j \in 1 .. prepared : j # k => PastGuard(j)'
          <6> SUFFICES ASSUME NEW j \in 1 .. prepared, j # k PROVE PastGuard(j)'
            OBVIOUS
          <6>1. PastGuard(j) /\ j \in DOMAIN F.params
            BY <3>2, <4>1 DEF PreparedInv, Converting
          <6> QED BY <2>0, <3>0, <5>1, <6>1, GuardStands
        <5>3. k \in 1 .. prepared => PastGuard(k)'
          BY <3>2, <5>1 DEF PastGuard, Guarded
        <5> QED BY <3>0, <4>1, <5>2, <5>3 DEF PreparedInv
      <4> QED BY <4>2, <4>3
    <3> QED BY <3>1, <3>2
  <2> QED BY <1>3, <2>1, <2>2, <2>3, <2>4, <2>6, <2>7, <2>8 DEF StepOfCall
<1> QED BY <1>1, <1>2, <1>3, Steps

\* HeapInv and ResultInv are kept.
LEMMA HeapKept ==
    ASSUME DeclInv, PreparedInv, HeapInv, ResultInv, [Next]_vars PROVE HeapInv' /\ ResultInv'
<1>1. CASE UNCHANGED callVars
  BY <1>1 DEF HeapInv, ResultInv, callVars, NotWrapper
<1>2. CASE Begin
  BY <1>2 DEF Begin, HeapInv, ResultInv, Converting, NotWrapper
<1>3. CASE StepOfCall
  <2>0. pc \notin {"idle", "done"} /\ prepared \in Nat
    BY <1>3, StagesKept DEF PreparedInv
  <2>1. CASE GuardReceiver
    BY <2>1 DEF GuardReceiver, Done, HeapInv, ResultInv, Converting, NotWrapper
  <2>2. CASE Select
    <3>1. /\ pc = "select" /\ pc' \in {"prepare", "index", "elements", "done"}
          /\ UNCHANGED <<heap, prepared, result>>
      BY <2>2 DEF Select, StepAfterReceiver, Done
    <3> QED BY <3>1 DEF HeapInv, ResultInv, Converting, NotWrapper
  <2>3. CASE Prepare
    <3>0. pc = "prepare" /\ heap \subseteq 1 .. prepared /\ result' = result
      BY <2>3 DEF Prepare, HeapInv
    <3>1. CASE pc' = "prepare"
      <4>1. prepared' = prepared + 1 /\ heap' \subseteq heap \cup {prepared + 1}
        BY <2>3, <3>1 DEF Prepare, Done
      <4> QED BY <2>0, <3>0, <3>1, <4>1 DEF HeapInv, ResultInv, Converting, NotWrapper
    <3>2. CASE pc' = "done"
      BY <3>0, <3>2 DEF HeapInv, ResultInv, Converting, NotWrapper
    <3> QED BY <2>3, <3>0, <3>1, <3>2 DEF Prepare, Done
  <2>4. CASE EnterC
    BY <2>4 DEF EnterC, HeapInv, ResultInv, Converting, NotWrapper
  <2>5. CASE ReturnFromC
    <3>1. pc = "native" /\ pc' = "back" /\ heap' \subseteq heap \cup {0} /\ prepared' = prepared
      BY <2>5 DEF ReturnFromC
    <3> QED BY <2>0, <3>1 DEF HeapInv, ResultInv, Converting
  <2>6. CASE pc' = "done"
    BY <2>6 DEF HeapInv, ResultInv, Converting
  <2>7. CASE ReturnToGo \/ GetAt \/ SetAt
    BY <2>6, <2>7 DEF ReturnToGo, GetAt, SetAt, Done
  <2>8. CASE GetElement \/ SetElement
    <3>1. UNCHANGED <<heap, result>> /\ pc = "elements" /\ pc' \in {"elements", "done"}
      BY <2>8 DEF GetElement, SetElement, Done
    <3> QED BY <3>1 DEF HeapInv, ResultInv, Converting, NotWrapper
  <2>9. CASE CloseMeanwhile
    BY <2>9 DEF CloseMeanwhile, HeapInv, ResultInv, NotWrapper
  <2> QED BY <1>3, <2>1, <2>2, <2>3, <2>4, <2>5, <2>7, <2>8, <2>9 DEF StepOfCall
<1> QED BY <1>1, <1>2, <1>3, Steps

\* RouteInv is kept.
LEMMA RouteKept ==
    ASSUME DeclInv, RouteInv, [Next]_vars PROVE RouteInv'
<1>1. CASE pc' \notin InBody
  BY <1>1 DEF RouteInv, Converting, InBody
<1>2. CASE pc' \in InBody
  <2>0. UNCHANGED fileVars /\ Fs' = Fs
    BY <1>2, FileStands, SameRoots DEF InBody
  <2>1. CASE Select
    <3>1. CASE decl.role = "dispatcher"
      BY <2>1, <3>1 DEF Select, Done, RouteInv, Converting
    <3>2. CASE decl.role # "dispatcher"
      BY <2>0, <2>1, <3>2
         DEF Select, StepAfterReceiver, IsElementwise, IsIndexed, RouteInv, Converting, F
    <3> QED BY <3>1, <3>2
  <2>2. CASE UNCHANGED <<fn, decl>> /\ (pc' = pc \/ (pc \in Converting /\ pc' \in Converting))
    BY <2>0, <2>2 DEF RouteInv, Converting, F
  <2>3. UNCHANGED callVars =>
           UNCHANGED <<fn, decl>> /\ (pc' = pc \/ (pc \in Converting /\ pc' \in Converting))
    BY DEF callVars
  <2>4. ~Begin /\ ~GuardReceiver /\ ~ReturnToGo /\ ~GetAt /\ ~SetAt
    BY <1>2 DEF Begin, GuardReceiver, ReturnToGo, GetAt, SetAt, Done, InBody
  <2>5. Prepare \/ EnterC \/ ReturnFromC \/ GetElement \/ SetElement \/ CloseMeanwhile =>
           UNCHANGED <<fn, decl>> /\ (pc' = pc \/ (pc \in Converting /\ pc' \in Converting))
    BY <1>2 DEF Prepare, EnterC, ReturnFromC, GetElement, SetElement, CloseMeanwhile, Done, InBody, Converting
  <2> QED BY <2>1, <2>2, <2>3, <2>4, <2>5, Steps DEF StepOfCall
<1> QED BY <1>1, <1>2

\* CallInv is an invariant.
THEOREM Invariant == Spec => []CallInv
<1>1. Init => CallInv
  <2> SUFFICES ASSUME Init PROVE CallInv
    OBVIOUS
  <2>1. FileInv
    BY DEF Init, FileInit, FileInv, ClassesNamed, ClassHandles, DeclaredWell
  <2>2. DeclInv /\ AskedInv /\ ArgsInv
    BY DEF Init, IdleInit, DeclInv, AskedInv, ArgsInv, Stages
  <2>3. ReceiverInv
    BY DEF Init, IdleInit, ReceiverInv, Decl, InBody
  <2>4. PreparedInv /\ HeapInv /\ ResultInv /\ RouteInv
    BY DEF Init, IdleInit, PreparedInv, HeapInv, ResultInv, RouteInv, Converting
  <2> QED BY <2>1, <2>2, <2>3, <2>4 DEF CallInv
<1>2. CallInv /\ [Next]_vars => CallInv'
  BY FileKept, DeclKept, AskedKept, ReceiverKept, ArgsKept, PreparedKept,
     HeapKept, RouteKept DEF CallInv
<1> QED BY <1>1, <1>2, PTL DEF Spec

(***************************************************************************)
(* What follows.                                                           *)
(***************************************************************************)

\* Arguments reach the overload of their Go types (render_dispatcher).
THEOREM TypesDispatch == Spec => []DispatchesByType
<1>1. CallInv => DispatchesByType
  BY DEF CallInv, DeclInv, AskedInv, IdleInit, Decl, DispatchesByType
<1> QED BY <1>1, Invariant, PTL

\* An argument that has passed its guard is what the C wrapper relies on
\* (render_call_prep).
LEMMA GuardsSuffice ==
    ASSUME NEW t, NEW v \in GoValues(t), GuardPasses(t, v), IsVoidPointer(t) => t.kind = "ModelPointer"
    PROVE  Required(t, v)
<1>1. CASE t.kind \in {"FixedByteArray", "FixedArray"}
  BY <1>1 DEF Required, GuardPasses, Fits, ModelKind
<1>2. CASE t.kind = "FixedModelArray"
  <2>1. GoValues(t) = {<<w>> : w \in Wrappers(t)} \cup [1 .. ArrayLength -> Wrappers(t)]
    BY <1>2 DEF GoValues, IsVoidPointer, ModelKind
  <2>2. \A k \in DOMAIN v : v[k] # "some"
    <3>1. "some" \notin Wrappers(t)
      BY DEF Wrappers
    <3>2. CASE v \in [1 .. ArrayLength -> Wrappers(t)]
      BY <3>1, <3>2
    <3>3. CASE \E w \in Wrappers(t) : v = <<w>>
      BY <3>1, <3>3
    <3> QED BY <2>1, <3>2, <3>3
  <2> QED BY <1>2, <2>2 DEF Required, GuardPasses, Fits, ModelKind
<1>3. CASE t.kind \in {"Reference", "ExternStructReference"}
  <2>1. GoValues(t) = {<<"nil">>, <<"some">>}
    BY <1>3 DEF GoValues, IsVoidPointer, ModelKind
  <2> QED BY <1>3, <2>1 DEF Required, GuardPasses, ModelKind
<1>4. CASE t.kind \in ModelKind
  <2>1. HandlePasses(t, v)
    BY <1>4 DEF GuardPasses, ModelKind
  <2>2. CASE IsVoidPointer(t)
    BY <2>2 DEF Required
  <2>3. CASE ~IsVoidPointer(t)
    <3>1. GoValues(t) = {<<w>> : w \in Wrappers(t)}
      BY <1>4, <2>3 DEF GoValues, ModelKind
    <3>2. v[1] \in {"nil", "hollow", "open"} \cup Closed
      BY <3>1 DEF Wrappers, Closed
    <3> QED BY <1>4, <2>1, <2>3, <3>2 DEF HandlePasses, Required, ModelKind
  <2> QED BY <2>2, <2>3
<1>5. CASE t.kind \notin {"FixedByteArray", "FixedArray", "FixedModelArray", "Reference",
                         "ExternStructReference"} \cup ModelKind
  BY <1>5 DEF Required, ModelKind
<1> QED BY <1>1, <1>2, <1>3, <1>4, <1>5

\* C++ gets nothing that is null or closed and must not be (render_call_prep,
\* render_general_api_method).
THEOREM GuardsKeep == Spec => []GuardsHold
<1>1. CallInv => GuardsHold
  <2> SUFFICES ASSUME CallInv, pc = "native", raced # "late"
               PROVE  /\ receiver # << >> => receiver[1] = "open"
                      /\ \A k \in DOMAIN args : Required(F.params[k], args[k])
    BY DEF GuardsHold
  <2> USE DEF CallInv
  <2>1. receiver # << >> => receiver[1] = "open"
    BY DEF ReceiverInv, ClosedLate, InBody
  <2>2. /\ fn \in DOMAIN Fs /\ DOMAIN args = DOMAIN F.params /\ DOMAIN F.params = 1 .. Len(F.params)
        /\ \A k \in DOMAIN F.params : args[k] \in GoValues(F.params[k])
    BY Known DEF InBody
  <2>3. ASSUME NEW k \in DOMAIN args PROVE Required(F.params[k], args[k])
    <3>1. GuardPasses(F.params[k], args[k])
      BY <2>2 DEF PreparedInv, Converting, PastGuard
    <3>2. IsVoidPointer(F.params[k]) => F.params[k].kind = "ModelPointer"
      BY <2>2, OfFunctions DEF F
    <3> QED BY <2>2, <3>1, <3>2, GuardsSuffice
  <2> QED BY <2>1, <2>3
<1> QED BY <1>1, Invariant, PTL

\* When a call is over nothing of it changes.
LEMMA OverForGood ==
    ASSUME DeclInv, [Next]_vars, pc = "done" PROVE UNCHANGED vars
<1>1. UNCHANGED callVars
  <2>1. ~Begin
    BY DEF Begin
  <2> QED BY <2>1, Steps, StagesKept
<1> QED BY <1>1, FileStands DEF callVars, vars

\* What C++ returned is dropped with a panic only for the root of an argument
\* that is nil (infer_borrow_root_expr).
LEMMA ReturnsClean ==
    ASSUME CallInv, ReturnToGo PROVE CallsEndClean'
<1> USE DEF CallInv
<1>0. pc = "back" /\ UNCHANGED <<fileVars, fn, raced, prepared>> /\ F' = F
  BY DEF ReturnToGo, fileVars, F, Fs
<1>1. /\ fn \in DOMAIN Fs /\ DOMAIN args = DOMAIN F.params /\ DOMAIN F.params = 1 .. Len(F.params)
      /\ Len(F.params) \in Nat
      /\ prepared = Len(F.params) /\ heap \subseteq 0 .. prepared
  BY <1>0, Known DEF InBody, PreparedInv, HeapInv
<1>2. heap' = {}
  BY <1>1 DEF ReturnToGo, FreedOnReturn, Temporary
<1>3. ASSUME outcome' = "panic", result'.form = "some"
      PROVE  (\E k \in RootedParams(F) : F.params[k].kind = "ModelPointer" /\ args[k] = <<"nil">>)'
  <2>1. RootOfNil
    BY <1>3 DEF ReturnToGo, Done
  <2>2. PICK k \in RootedParams(F) : args[k] = <<"nil">>
    BY <2>1 DEF RootOfNil
  <2>3. k \in DOMAIN F.params /\ F.params[k].kind \in ModelKind /\ ~IsVoidPointer(F.params[k])
    BY <2>2 DEF RootedParams
  <2>4. PastGuard(k)
    BY <1>0, <1>1, <2>3 DEF PreparedInv, Converting
  <2>5. args[k][1] = "nil" /\ \A n \in DOMAIN args[k] : args[k][n] \notin Closed
    BY <2>2 DEF Closed
  <2>6. HandlePasses(F.params[k], args[k])
    BY <2>3, <2>4, <2>5 DEF PastGuard, GuardPasses, ModelKind
  <2>7. F.params[k].kind = "ModelPointer"
    BY <2>3, <2>5, <2>6 DEF HandlePasses
  <2>8. args'[k] = <<"nil">>
    BY <1>1, <2>2, <2>3, <2>7 DEF ReturnToGo
  <2>9. RootedParams(F)' = RootedParams(F)
    BY <1>0, SameRoots DEF RootedParams, HasRoot
  <2> QED BY <1>0, <2>2, <2>7, <2>8, <2>9
<1> QED BY <1>2, <1>3 DEF CallsEndClean

\* Nothing of a call stays allocated but strings before an argument that was
\* refused.
THEOREM CallsClean == Spec => []CallsEndClean
<1>1. Init => CallsEndClean
  BY DEF Init, IdleInit, CallsEndClean
<1>2. CallInv /\ CallsEndClean /\ [Next]_vars => CallsEndClean'
  <2> SUFFICES ASSUME CallInv, CallsEndClean, [Next]_vars, pc' = "done" PROVE CallsEndClean'
    BY DEF CallsEndClean
  <2> USE DEF CallInv
  <2>1. CASE pc = "done"
    <3>1. UNCHANGED vars
      BY <2>1, OverForGood
    <3> QED BY <2>1, <3>1, SameRoots
            DEF vars, callVars, CallsEndClean, F, GuardPasses, HandlePasses, Fits, RootedParams, HasRoot
  <2>2. CASE pc # "done"
    <3>1. StepOfCall /\ ~CloseMeanwhile
      <4>1. ~Begin /\ ~CloseMeanwhile /\ ~UNCHANGED callVars
        BY <2>2 DEF Begin, CloseMeanwhile, callVars
      <4> QED BY <4>1, Steps
    <3>2. CASE ReturnToGo
      BY <3>2, ReturnsClean
    <3>3. CASE Prepare
      <4>1. /\ pc = "prepare" /\ UNCHANGED <<fileVars, fn, args, prepared, heap, result>>
            /\ ~GuardPasses(F.params[prepared + 1], args[prepared + 1]) /\ outcome' = "panic"
        BY <3>3 DEF Prepare, Done
      <4>2. ~GuardPasses(F.params[prepared + 1], args[prepared + 1])'
        BY <4>1 DEF GuardPasses, HandlePasses, Fits, F, Fs, fileVars
      <4>3. 0 \notin heap' /\ result'.form # "some"
        BY <4>1 DEF HeapInv, PreparedInv, ResultInv, NotWrapper
      <4> QED BY <4>1, <4>2, <4>3 DEF CallsEndClean
    <3>4. CASE pc \notin Converting /\ heap' = heap /\ (result' = result \/ outcome' # "panic")
      BY <2>2, <3>4 DEF CallsEndClean, HeapInv, ResultInv, NotWrapper, Converting
    <3>5. CASE GuardReceiver \/ Select
      BY <3>4, <3>5 DEF GuardReceiver, Select, Converting
    <3>6. CASE GetAt
      BY <3>4, <3>6 DEF GetAt, Done, Converting
    <3>7. CASE SetAt \/ GetElement \/ SetElement
      BY <3>4, <3>7 DEF SetAt, GetElement, SetElement, Converting
    <3>8. ~EnterC /\ ~ReturnFromC
      BY DEF EnterC, ReturnFromC
    <3> QED BY <3>1, <3>2, <3>3, <3>5, <3>6, <3>7, <3>8 DEF StepOfCall
  <2> QED BY <2>1, <2>2
<1> QED BY <1>1, <1>2, Invariant, PTL DEF Spec

(***************************************************************************)
(* Arrays of objects.                                                      *)
(***************************************************************************)

\* An index that fits an int of C is not changed by C.int(index).
LEMMA CIntOfSmall ==
    ASSUME NEW i \in Int, FitsCInt(i) PROVE CInt(i) = i
<1>1. i + IntSpan >= 0 /\ i + IntSpan < 2 * IntSpan /\ IntSpan \in Nat
  BY SizesAssumption DEF FitsCInt
<1>2. (i + IntSpan) % (2 * IntSpan) = i + IntSpan
  BY <1>1
<1> QED BY <1>1, <1>2 DEF CInt

\* What the accessors have done to the elements, those before the index.
Untouched == \A i \in DOMAIN cells : cells[i] = "old"

SetSoFar ==
    /\ index \in 0 .. ArrayLength
    /\ \A i \in DOMAIN cells :
          /\ i < index => cells[i] = "new" \/ args[1][i + 1] \in {"nil", "hollow"} \/ raced # "no"
          /\ i < index /\ raced = "no" => (cells[i] = "new" <=> args[1][i + 1] = "open")
          /\ i >= index => cells[i] = "old"
    /\ pc = "done" /\ outcome = "value" => Len(args[1]) = ArrayLength /\ index = ArrayLength

OnlyNamed == IsIndexed(F) /\ FitsCInt(index) => \A i \in DOMAIN cells : cells[i] # "old" => i = index

ArrayInv ==
    /\ index \in Int
    /\ IF pc = "idle" THEN cells = << >> ELSE cells \in [0 .. ArrayLength - 1 -> {"old", "new", "read"}]
    /\ pc \notin {"idle", "elements", "done"} =>
          Untouched /\ (decl.role = "method" /\ ~IsIndexed(F) => index = 0)
    /\ pc = "elements" => index \in 0 .. ArrayLength
    /\ pc = "done" /\ fn # 0 => OnlyNamed
    /\ SetsArray => SetSoFar

\* A method is called by its own function throughout.
LEMMA SameFunction ==
    ASSUME CallInv, [Next]_vars, pc # "idle"
    PROVE  /\ UNCHANGED <<fileVars, decl>> /\ Fs' = Fs /\ pc' # "idle"
           /\ decl.role # "dispatcher" => F' = F /\ fn' = fn /\ fn # 0
           /\ (SetsArray' <=> SetsArray)
<1> USE DEF CallInv
<1>1. pc' # "idle" /\ decl' = decl
  <2>1. ~Begin
    BY DEF Begin
  <2> QED BY <2>1, Steps, StagesKept DEF callVars
<1>2. UNCHANGED fileVars /\ Fs' = Fs
  BY <1>1, FileStands, SameRoots
<1>3. decl.role # "dispatcher" => fn' = fn /\ fn # 0
  <2> SUFFICES ASSUME decl.role # "dispatcher" PROVE fn' = fn /\ fn # 0
    OBVIOUS
  <2>1. fn # 0
    BY DEF AskedInv
  <2>2. ~Begin
    BY DEF Begin
  <2>3. Select => fn' = fn
    BY DEF Select
  <2>4. StepOfCall => Select \/ fn' = fn
    BY DEF StepOfCall, GuardReceiver, Prepare, EnterC, ReturnFromC, ReturnToGo, GetAt, SetAt,
           GetElement, SetElement, CloseMeanwhile
  <2> QED BY <2>1, <2>2, <2>3, <2>4, Steps DEF callVars
<1>4. decl.role # "dispatcher" => F' = F
  BY <1>2, <1>3 DEF F
<1> QED BY <1>1, <1>2, <1>3, <1>4 DEF SetsArray

\* An array accessor is neither one of an element nor written in C.
LEMMA SettersRoute ==
    ASSUME CallInv, SetsArray
    PROVE  F.accessor = "Set" /\ ~IsIndexed(F) /\ pc \notin Converting \cup {"idle", "index"}
<1>1. pc # "idle" /\ pc \notin Converting
  BY DEF CallInv, DeclInv, RouteInv, SetsArray, IdleInit, Decl
<1> QED BY <1>1 DEF CallInv, RouteInv, SetsArray, IsIndexed

\* Steps that leave the elements alone keep ArrayInv.
LEMMA ArrayLeftAlone ==
    ASSUME CallInv, CallInv', ArrayInv, [Next]_vars, pc \notin {"idle", "elements", "done"},
           UNCHANGED <<index, cells>>, SetsArray => UNCHANGED <<args, raced>>,
           SetsArray /\ pc' = "done" => outcome' # "value"
    PROVE  ArrayInv'
<1>1. /\ pc' # "idle" /\ decl' = decl /\ (SetsArray' <=> SetsArray)
      /\ decl.role # "dispatcher" => F' = F
  BY SameFunction
<1>2. Untouched' /\ (decl.role = "method" /\ ~IsIndexed(F)' => index' = 0)
  BY <1>1 DEF ArrayInv, Untouched
<1>3. pc' = "elements" => index' \in 0 .. ArrayLength
  <2>1. pc' = "elements" => decl' .role = "method" /\ ~IsIndexed(F)'
    BY DEF CallInv, ReceiverInv, RouteInv
  <2> QED BY <1>1, <1>2, <2>1, SizesAssumption
<1>4. SetsArray' => SetSoFar'
  BY <1>1 DEF ArrayInv, SetSoFar
<1>5. OnlyNamed'
  BY <1>2 DEF OnlyNamed, Untouched
<1> QED BY <1>1, <1>2, <1>3, <1>4, <1>5 DEF ArrayInv

\* An accessor of one element touches only the one it names.
LEMMA ElementTouched ==
    ASSUME CallInv, CallInv', ArrayInv, GetAt \/ SetAt, [Next]_vars PROVE ArrayInv'
<1> DEFINE at == CInt(index)
<1>1. /\ pc = "index" /\ pc' = "done" /\ index' = index /\ index \in Int
      /\ cells \in [0 .. ArrayLength - 1 -> {"old", "new", "read"}] /\ Untouched
  BY DEF GetAt, SetAt, Done, ArrayInv
<1>2. decl.role = "method" /\ F' = F /\ ~SetsArray'
  BY <1>1, SameFunction, SettersRoute DEF CallInv, ReceiverInv
<1>3. /\ cells' \in [0 .. ArrayLength - 1 -> {"old", "new", "read"}]
      /\ \A i \in 0 .. ArrayLength - 1 : i # at => cells'[i] = cells[i]
  <2>1. InArray(at) => at \in 0 .. ArrayLength - 1
    BY <1>1, SizesAssumption DEF InArray, CInt
  <2>2. \/ cells' = cells
        \/ /\ InArray(at)
           /\ \E to \in {"new", "read"} :
                 cells' = [k \in DOMAIN cells \cup {at} |-> IF k = at THEN to ELSE cells[k]]
    BY DEF GetAt, SetAt, WriteElement
  <2> HIDE DEF at
  <2> QED BY <1>1, <2>1, <2>2
<1>4. OnlyNamed'
  <2>1. FitsCInt(index) => at = index
    BY <1>1, CIntOfSmall
  <2> HIDE DEF at
  <2> QED BY <1>1, <1>3, <2>1 DEF OnlyNamed, Untouched, FitsCInt
<1> QED BY <1>1, <1>2, <1>3, <1>4 DEF ArrayInv

\* The loop of the getter goes through the array.
LEMMA ElementGot ==
    ASSUME CallInv, CallInv', ArrayInv, GetElement, [Next]_vars PROVE ArrayInv'
<1>1. /\ pc = "elements" /\ pc' \in {"elements", "done"} /\ index \in 0 .. ArrayLength
      /\ cells \in [0 .. ArrayLength - 1 -> {"old", "new", "read"}]
  BY DEF GetElement, Done, ArrayInv
<1>2. decl.role = "method" /\ F' = F /\ ~SetsArray'
  BY <1>1, SameFunction DEF CallInv, ReceiverInv, GetElement, SetsArray
<1>3. ~IsIndexed(F)
  BY <1>1 DEF CallInv, RouteInv
<1>4. \/ UNCHANGED <<index, cells>>
      \/ index < ArrayLength /\ index' = index + 1 /\ cells' = [cells EXCEPT ![index] = "read"]
  BY DEF GetElement
<1>5. index' \in 0 .. ArrayLength /\ cells' \in [0 .. ArrayLength - 1 -> {"old", "new", "read"}]
  BY <1>1, <1>4, SizesAssumption
<1> QED BY <1>1, <1>2, <1>3, <1>5 DEF ArrayInv, OnlyNamed

\* The loop of the setter writes the element that it is at, if one is given.
LEMMA ElementSet ==
    ASSUME CallInv, CallInv', ArrayInv, SetElement, [Next]_vars PROVE ArrayInv'
<1> DEFINE v == args[1]
<1>1. /\ pc = "elements" /\ pc' \in {"elements", "done"} /\ index \in 0 .. ArrayLength
      /\ cells \in [0 .. ArrayLength - 1 -> {"old", "new", "read"}] /\ UNCHANGED <<args, raced>>
  BY DEF SetElement, Done, ArrayInv
<1>2. decl.role = "method" /\ F' = F /\ fn # 0 /\ UNCHANGED fileVars
  BY <1>1, SameFunction DEF CallInv, ReceiverInv
<1>3. SetsArray /\ ~IsIndexed(F) /\ F.params[1].kind = "FixedModelArray"
  BY <1>1, <1>2 DEF SetElement, SetsArray, CallInv, RouteInv, IsElementwise
<1>4. SetSoFar
  BY <1>3 DEF ArrayInv
<1>5. /\ receiver # << >> /\ (raced = "no" => receiver[1] = "open")
  <2>1. WellDeclared(decl)
    BY <1>1 DEF CallInv, DeclInv
  <2>2. decl.scope # << >>
    BY <1>2, <2>1 DEF WellDeclared
  <2>3. receiver # << >>
    BY <2>2 DEF CallInv, ReceiverInv, ReceiverValues
  <2> QED BY <1>1, <2>3 DEF CallInv, ReceiverInv, ClosedLate, InBody
<1>6. Len(v) = ArrayLength /\ index < ArrayLength =>
          v[index + 1] \in {"nil", "hollow", "open"} \cup Closed
  <2>1. 1 \in DOMAIN F.params /\ v \in GoValues(F.params[1])
    <3>1. fn \in DOMAIN Fs /\ DOMAIN F.params = 1 .. Len(F.params) /\ Len(F.params) \in Nat
          /\ \A k \in DOMAIN F.params : args[k] \in GoValues(F.params[k])
      BY <1>1, Known DEF CallInv, InBody
    <3>2. F.params # << >> /\ F.params \in Seq(ToSet(F.params))
      BY <1>3, <3>1, OfFunctions DEF CallInv, F, SetsArray
    <3>3. Len(F.params) # 0
      BY <3>2
    <3> QED BY <3>1, <3>3
  <2>2. GoValues(F.params[1]) = {<<w>> : w \in Wrappers(F.params[1])}
                                  \cup [1 .. ArrayLength -> Wrappers(F.params[1])]
    BY <1>3 DEF GoValues, IsVoidPointer, ModelKind
  <2>3. Wrappers(F.params[1]) \subseteq {"nil", "hollow", "open"} \cup Closed
    BY DEF Wrappers, Closed
  <2>4. CASE v \in [1 .. ArrayLength -> Wrappers(F.params[1])]
    BY <1>1, <2>3, <2>4, SizesAssumption
  <2>5. CASE \E w \in Wrappers(F.params[1]) : v = <<w>>
    BY <1>1, <2>3, <2>5, SizesAssumption
  <2> HIDE DEF v
  <2> QED BY <2>1, <2>2, <2>4, <2>5
<1> HIDE DEF v
<1>7. CASE UNCHANGED <<index, cells>> /\ pc' = "done"
           /\ (outcome' = "value" => Len(v) = ArrayLength /\ index = ArrayLength)
  <2>1. SetSoFar'
    BY <1>1, <1>4, <1>7 DEF SetSoFar, v
  <2> QED BY <1>1, <1>2, <1>3, <1>7, <2>1 DEF ArrayInv, OnlyNamed
<1>8. CASE /\ Len(v) = ArrayLength /\ index < ArrayLength /\ index' = index + 1 /\ pc' = "elements"
           /\ ~(receiver[1] = "open" /\ v[index + 1] \in Closed)
           /\ IF receiver[1] = "open" THEN WriteElement(index, v[index + 1]) ELSE UNCHANGED cells
  <2>1. index \in DOMAIN cells /\ InArray(index)
    BY <1>1, <1>8, SizesAssumption DEF InArray
  <2>2. \/ receiver[1] = "open" /\ v[index + 1] = "open"
           /\ cells' = [k \in DOMAIN cells |-> IF k = index THEN "new" ELSE cells[k]]
        \/ cells' = cells /\ (raced # "no" \/ v[index + 1] \in {"nil", "hollow"})
    <3>1. DOMAIN cells \cup {index} = DOMAIN cells
      BY <2>1
    <3>2. CASE receiver[1] = "open" /\ v[index + 1] = "open"
      BY <1>8, <2>1, <3>1, <3>2 DEF WriteElement
    <3>3. CASE receiver[1] = "open" /\ v[index + 1] # "open"
      BY <1>6, <1>8, <3>3 DEF WriteElement
    <3>4. CASE receiver[1] # "open"
      BY <1>5, <1>8, <3>4
    <3> QED BY <3>2, <3>3, <3>4
  <2>3. cells' \in [0 .. ArrayLength - 1 -> {"old", "new", "read"}] /\ index' \in 0 .. ArrayLength
    BY <1>1, <1>8, <2>2, SizesAssumption
  <2>4. ASSUME NEW i \in 0 .. ArrayLength - 1
        PROVE  /\ i < index' => cells'[i] = "new" \/ v[i + 1] \in {"nil", "hollow"} \/ raced # "no"
               /\ i < index' /\ raced = "no" => (cells'[i] = "new" <=> v[i + 1] = "open")
               /\ i >= index' => cells'[i] = "old"
    <3>0. /\ i < index => cells[i] = "new" \/ v[i + 1] \in {"nil", "hollow"} \/ raced # "no"
          /\ i < index /\ raced = "no" => (cells[i] = "new" <=> v[i + 1] = "open")
          /\ i >= index => cells[i] = "old"
      BY <1>1, <1>4 DEF SetSoFar, v
    <3>1. CASE i = index
      BY <1>1, <1>8, <2>2, <3>0, <3>1, SizesAssumption
    <3>2. CASE i # index
      <4>1. cells'[i] = cells[i] /\ (i < index' <=> i < index)
        BY <1>1, <1>8, <2>2, <3>2, SizesAssumption
      <4> QED BY <1>1, <1>8, <3>0, <3>2, <4>1, SizesAssumption
    <3> QED BY <3>1, <3>2
  <2>5. SetSoFar'
    BY <1>1, <1>8, <2>3, <2>4 DEF SetSoFar, v
  <2> QED BY <1>1, <1>8, <2>3, <2>5, SizesAssumption DEF ArrayInv
<1>9. \/ UNCHANGED <<index, cells>> /\ pc' = "done"
         /\ (outcome' = "value" => Len(v) = ArrayLength /\ index = ArrayLength)
      \/ /\ Len(v) = ArrayLength /\ index < ArrayLength /\ index' = index + 1 /\ pc' = "elements"
         /\ ~(receiver[1] = "open" /\ v[index + 1] \in Closed)
         /\ IF receiver[1] = "open" THEN WriteElement(index, v[index + 1]) ELSE UNCHANGED cells
  <2>1. CASE ~LengthPasses(v) \/ index = Len(v)
    BY <1>1, <2>1, SizesAssumption DEF SetElement, Done, LengthPasses, v
  <2>2. CASE LengthPasses(v) /\ index # Len(v)
    BY <1>1, <2>2, SizesAssumption DEF SetElement, Done, LengthPasses, v
  <2> QED BY <2>1, <2>2
<1> QED BY <1>7, <1>8, <1>9

\* A call begins with nothing done.
LEMMA ArrayBegun ==
    ASSUME CallInv, CallInv', ArrayInv, Begin PROVE ArrayInv'
<1>1. /\ cells' = [k \in 0 .. ArrayLength - 1 |-> "old"] /\ UNCHANGED fileVars
      /\ pc' \in {"receiver", "select"}
      /\ index' \in (IF decl'.role = "method" /\ IsIndexed(Fs[fn']) THEN Indexes ELSE {0})
  BY DEF Begin
<1>2. F' = Fs[fn'] /\ index' \in Int /\ (decl'.role = "method" /\ ~IsIndexed(F)' => index' = 0)
  BY <1>1, SizesAssumption DEF F, Fs, fileVars
<1>3. SetsArray' => index' = 0
  BY <1>2 DEF SetsArray, IsIndexed
<1>4. Untouched'
  BY <1>1 DEF Untouched
<1>5. SetsArray' => SetSoFar'
  BY <1>1, <1>3, SizesAssumption DEF SetSoFar
<1> QED BY <1>1, <1>2, <1>4, <1>5 DEF ArrayInv

\* A wrapper that is closed meanwhile leaves the elements alone.
LEMMA ArrayRaced ==
    ASSUME CallInv, CallInv', ArrayInv, CloseMeanwhile, [Next]_vars PROVE ArrayInv'
<1>1. /\ UNCHANGED <<pc, fn, decl, index, cells, outcome>> /\ pc # "done" /\ raced' # "no"
      /\ pc # "idle"
  BY DEF CloseMeanwhile
<1>2. Fs' = Fs /\ F' = F /\ (SetsArray' <=> SetsArray)
  BY <1>1, SameFunction DEF F
<1>3. SetsArray => SetSoFar'
  BY <1>1 DEF ArrayInv, SetSoFar
<1> QED BY <1>1, <1>2, <1>3 DEF ArrayInv, Untouched

\* ArrayInv is kept.
LEMMA ArrayKept ==
    ASSUME CallInv, CallInv', ArrayInv, [Next]_vars PROVE ArrayInv'
<1>1. CASE UNCHANGED callVars
  <2>1. CASE pc = "idle"
    <3>1. ~SetsArray'
      BY <1>1, <2>1 DEF CallInv, DeclInv, IdleInit, Decl, SetsArray, callVars
    <3> QED BY <1>1, <2>1, <3>1 DEF ArrayInv, callVars
  <2>2. CASE pc # "idle"
    <3>1. Fs' = Fs /\ F' = F /\ (SetsArray' <=> SetsArray)
      BY <1>1, <2>2, SameFunction DEF F, callVars
    <3> QED BY <1>1, <3>1 DEF ArrayInv, SetSoFar, Untouched, OnlyNamed, callVars
  <2> QED BY <2>1, <2>2
<1>2. CASE Begin
  BY <1>2, ArrayBegun
<1>3. CASE GuardReceiver
  <2>1. UNCHANGED <<index, cells, args, raced>> /\ pc = "receiver" /\ (pc' = "done" => outcome' # "value")
    BY <1>3 DEF GuardReceiver, Done, NilReceiver
  <2> QED BY <2>1, ArrayLeftAlone
<1>4. CASE Select
  <2>1. UNCHANGED <<index, cells, args, raced>> /\ pc = "select" /\ (SetsArray => pc' # "done")
    BY <1>4 DEF Select, StepAfterReceiver, SetsArray
  <2> QED BY <2>1, ArrayLeftAlone
<1>5. CASE Prepare \/ EnterC \/ ReturnFromC \/ ReturnToGo
  <2>1. UNCHANGED <<index, cells>> /\ pc \in Converting
    BY <1>5 DEF Prepare, EnterC, ReturnFromC, ReturnToGo, Converting
  <2>2. ~SetsArray
    BY <2>1, SettersRoute
  <2> QED BY <2>1, <2>2, ArrayLeftAlone DEF Converting
<1> QED BY <1>1, <1>2, <1>3, <1>4, <1>5, Steps, ElementTouched, ElementGot, ElementSet, ArrayRaced
        DEF StepOfCall

\* ArrayInv is an invariant.
THEOREM Arrays == Spec => []ArrayInv
<1>1. Init => ArrayInv
  BY DEF Init, IdleInit, Decl, ArrayInv, SetsArray
<1>2. CallInv /\ CallInv' /\ ArrayInv /\ [Next]_vars => ArrayInv'
  BY ArrayKept
<1> QED BY <1>1, <1>2, Invariant, PTL DEF Spec

\* Arrays are set from their beginning and as a whole, and an accessor of one
\* element touches that one and none outside the array.
THEOREM ArraysOrdered == Spec => []ArraysSetInOrder
<1>1. CallInv /\ ArrayInv => ArraysSetInOrder
  <2> SUFFICES ASSUME CallInv, ArrayInv PROVE ArraysSetInOrder
    OBVIOUS
  <2>1. DOMAIN cells \subseteq 0 .. ArrayLength - 1
    BY SizesAssumption DEF ArrayInv
  <2>2. ASSUME SetsArray
        PROVE  /\ \A i, j \in DOMAIN cells :
                     i < j /\ cells[j] = "new" => cells[i] = "new" \/ args[1][i + 1] \in {"nil", "hollow"}
                                                   \/ raced # "no"
               /\ pc = "done" /\ outcome = "value" /\ raced = "no" =>
                     /\ Len(args[1]) = ArrayLength
                     /\ \A i \in DOMAIN cells : cells[i] = "new" <=> args[1][i + 1] = "open"
    <3>1. SetSoFar
      BY <2>2 DEF ArrayInv
    <3>2. ASSUME NEW i \in DOMAIN cells, NEW j \in DOMAIN cells, i < j, cells[j] = "new"
          PROVE  cells[i] = "new" \/ args[1][i + 1] \in {"nil", "hollow"} \/ raced # "no"
      <4>1. j < index
        BY <2>1, <3>1, <3>2, SizesAssumption DEF SetSoFar
      <4>2. i < index
        BY <2>1, <3>1, <3>2, <4>1, SizesAssumption DEF SetSoFar
      <4> QED BY <3>1, <4>2 DEF SetSoFar
    <3>3. ASSUME pc = "done", outcome = "value", raced = "no"
          PROVE  /\ Len(args[1]) = ArrayLength
                 /\ \A i \in DOMAIN cells : cells[i] = "new" <=> args[1][i + 1] = "open"
      <4>1. Len(args[1]) = ArrayLength /\ index = ArrayLength
        BY <3>1, <3>3 DEF SetSoFar
      <4>2. \A i \in DOMAIN cells : i < index
        BY <2>1, <4>1, SizesAssumption
      <4> QED BY <3>1, <3>3, <4>1, <4>2 DEF SetSoFar
    <3> QED BY <3>2, <3>3
  <2>3. ASSUME NEW i \in DOMAIN cells
        PROVE  /\ i \in 0 .. ArrayLength - 1
               /\ cells[i] # "old" /\ pc = "done" /\ fn # 0 /\ IsIndexed(F) /\ FitsCInt(index)
                     => i = index
    BY <2>1 DEF ArrayInv, OnlyNamed
  <2> QED BY <2>2, <2>3 DEF ArraysSetInOrder
<1> QED BY <1>1, Invariant, Arrays, PTL

(***************************************************************************)
(* Results.                                                                *)
(***************************************************************************)

\* The result of C++ is wrapped with the root that its class asks for.
LEMMA ReturnsRooted ==
    ASSUME CallInv, ReturnToGo PROVE ResultsHaveRoots'
<1>0. pc = "back" /\ UNCHANGED <<fileVars, fn, decl, receiver>> /\ F' = F
  BY DEF ReturnToGo, fileVars, F, Fs
<1>1. HasRoot(F.returns)' <=> HasRoot(F.returns)
  BY <1>0, SameRoots DEF HasRoot
<1>2. SUFFICES ASSUME outcome' = "value", F.returns.kind \in ModelKind, ~IsVoidPointer(F.returns),
                      HasRoot(F.returns)
               PROVE  IF IsOwnedResult(F) /\ (decl.role = "dispatcher" \/ F.accessor # "GetAt")
                      THEN result'.form = "owned" /\ result'.root = "new"
                      ELSE result'.form = "borrowed" /\ (receiver # << >> => result'.root = "receiver")
  BY <1>0, <1>1 DEF ResultsHaveRoots, IsOwnedResult, fileVars
<1>3. fn \in DOMAIN Fs
  BY <1>0, Known DEF CallInv, InBody
<1>4. F.kind # "Constructor"
  BY <1>2, <1>3, OfFunctions DEF CallInv, F, ModelKind
<1>5. result' = Wrapped(F)
  BY <1>2, <1>4 DEF ReturnToGo, Done
<1>6. decl.role = "dispatcher" \/ F.accessor # "GetAt"
  BY <1>0 DEF CallInv, RouteInv, Converting, IsElementwise
<1> QED BY <1>2, <1>5, <1>6 DEF Wrapped, BorrowRoot

\* A wrapper that is returned is closed with what it lives in.
THEOREM ResultsRooted == Spec => []ResultsHaveRoots
<1>1. Init => ResultsHaveRoots
  BY DEF Init, IdleInit, ResultsHaveRoots
<1>2. CallInv /\ ResultsHaveRoots /\ [Next]_vars => ResultsHaveRoots'
  <2> SUFFICES ASSUME CallInv, ResultsHaveRoots, [Next]_vars, pc' = "done", outcome' = "value"
               PROVE  ResultsHaveRoots'
    BY DEF ResultsHaveRoots
  <2>1. CASE pc = "done"
    <3>1. UNCHANGED vars
      BY <2>1, OverForGood DEF CallInv
    <3> QED BY <2>1, <3>1, SameRoots
            DEF vars, callVars, fileVars, ResultsHaveRoots, F, HasRoot, IsOwnedResult, ElementsProjected
  <2>2. CASE pc # "done"
    <3>1. ~Begin /\ ~CloseMeanwhile /\ ~UNCHANGED callVars /\ ~EnterC /\ ~ReturnFromC
          /\ ~GuardReceiver /\ ~Select /\ ~Prepare
      BY <2>2 DEF Begin, CloseMeanwhile, callVars, EnterC, ReturnFromC, GuardReceiver, Select, Prepare,
             Done, NilReceiver, StepAfterReceiver
    <3>2. CASE ReturnToGo
      BY <3>2, ReturnsRooted
    <3>3. CASE GetAt
      <4>1. pc = "index" /\ UNCHANGED <<fileVars, decl, fn, receiver>> /\ F' = F /\ F.accessor = "GetAt"
        BY <3>3 DEF GetAt, fileVars, F, Fs
      <4>2. decl.role = "method"
        BY <4>1 DEF CallInv, ReceiverInv
      <4>3. result' = ElementWrapper(F)
        BY <3>3 DEF GetAt, Done
      <4> QED BY <4>1, <4>2, <4>3 DEF ResultsHaveRoots, ElementsProjected, ElementWrapper, fileVars
    <3>4. CASE SetAt \/ GetElement \/ SetElement
      <4>1. /\ pc \in {"index", "elements"} /\ F' = F
            /\ F.accessor \in {"Set", "SetAt"} \/ (pc = "elements" /\ F.accessor = "Get")
        BY <3>4 DEF SetAt, GetElement, SetElement, fileVars, F, Fs
      <4>2. fn \in DOMAIN Fs
        BY <4>1, Known DEF CallInv, InBody
      <4>3. F.returns.kind \notin ModelKind
        <5>1. CASE F.accessor \in {"Set", "SetAt"}
          BY <4>2, <5>1, OfFunctions DEF CallInv, F, ModelKind
        <5>2. CASE pc = "elements" /\ F.accessor = "Get"
          BY <5>2 DEF CallInv, RouteInv, IsElementwise, ModelKind
        <5> QED BY <4>1, <5>1, <5>2
      <4> QED BY <4>1, <4>3 DEF ResultsHaveRoots
    <3> QED BY <3>1, <3>2, <3>3, <3>4, Steps DEF StepOfCall
  <2> QED BY <2>1, <2>2
<1> QED BY <1>1, <1>2, Invariant, PTL DEF Spec

(***************************************************************************)
(* The declarations of the file.                                           *)
(***************************************************************************)

\* Of functions that are declared or dispatched in one scope.
Declarations(scope, is, role) == TypedDecls(scope, is, role) \cup DispatcherDecls(scope, is)

\* They stand for functions of that scope only, and for each just once.
LEMMA DeclaredOnce ==
    ASSUME NEW scope, NEW is, NEW role
    PROVE  /\ \A e \in Declarations(scope, is, role) : e.of \subseteq is
           /\ \A i \in is : \E d \in Declarations(scope, is, role) :
                 i \in d.of /\ \A e \in Declarations(scope, is, role) : i \in e.of => e = d
<1>1. ASSUME NEW e \in TypedDecls(scope, is, role)
      PROVE  \E i \in is \ Covered(is) : e = Decl(scope, inGo[i].export, role, {i}) /\ e.of = {i}
  BY DEF TypedDecls, Decl
<1>2. ASSUME NEW e \in DispatcherDecls(scope, is)
      PROVE  \E name \in Dispatchers(is) :
                /\ e = Decl(scope, name, "dispatcher", OverloadGroup(is, name))
                /\ e.of = OverloadGroup(is, name)
  BY DEF DispatcherDecls, Decl
<1>3. ASSUME NEW name \in Dispatchers(is) PROVE OverloadGroup(is, name) \subseteq Covered(is) \cap is
  BY DEF Covered, OverloadGroup
<1>4. ASSUME NEW i \in is
      PROVE  \E d \in Declarations(scope, is, role) :
                i \in d.of /\ \A e \in Declarations(scope, is, role) : i \in e.of => e = d
  <2>1. CASE i \in Covered(is)
    <3>1. PICK name \in Dispatchers(is) : i \in OverloadGroup(is, name)
      BY <2>1 DEF Covered
    <3> DEFINE d == Decl(scope, name, "dispatcher", OverloadGroup(is, name))
    <3>2. d \in Declarations(scope, is, role) /\ i \in d.of
      BY <3>1 DEF Declarations, DispatcherDecls, Decl
    <3>3. ASSUME NEW e \in Declarations(scope, is, role), i \in e.of PROVE e = d
      <4>1. e \notin TypedDecls(scope, is, role)
        BY <1>1, <2>1, <3>3
      <4>2. PICK other \in Dispatchers(is) :
               /\ e = Decl(scope, other, "dispatcher", OverloadGroup(is, other))
               /\ i \in OverloadGroup(is, other)
        BY <1>2, <3>3, <4>1 DEF Declarations
      <4>3. other = inGo[i].dispatcher /\ name = inGo[i].dispatcher
        BY <3>1, <4>2 DEF OverloadGroup
      <4> QED BY <4>2, <4>3
    <3> QED BY <3>2, <3>3
  <2>2. CASE i \notin Covered(is)
    <3> DEFINE d == Decl(scope, inGo[i].export, role, {i})
    <3>1. d \in Declarations(scope, is, role) /\ i \in d.of
      BY <2>2 DEF Declarations, TypedDecls, Decl
    <3>2. ASSUME NEW e \in Declarations(scope, is, role), i \in e.of PROVE e = d
      <4>1. e \notin DispatcherDecls(scope, is)
        BY <1>2, <1>3, <2>2, <3>2
      <4> QED BY <1>1, <3>2, <4>1 DEF Declarations
    <3> QED BY <3>1, <3>2
  <2> QED BY <2>1, <2>2
<1>5. ASSUME NEW e \in Declarations(scope, is, role) PROVE e.of \subseteq is
  <2>1. CASE e \in TypedDecls(scope, is, role)
    BY <1>1, <2>1
  <2>2. CASE e \in DispatcherDecls(scope, is)
    BY <1>2, <1>3, <2>2
  <2> QED BY <2>1, <2>2 DEF Declarations
<1> QED BY <1>4, <1>5

\* What stands for functions in the declarations of a class.
LEMMA InClass ==
    ASSUME NEW k, NEW d \in ClassDecls(k)
    PROVE  \/ d.of = {}
           \/ \E i \in k.constructors :
                 /\ d = Decl(<< >>, ConstructorName(k.go, [j \in k.constructors |-> Fs[j]], i),
                             "constructor", {i})
                 /\ d.of = {i}
           \/ d \in Declarations(k.go, k.methods, "method")
<1> DEFINE cs == [i \in k.constructors |-> Fs[i]]
<1>1. \/ d \in WrapperDecls(k.go, "class")
      \/ \E i \in k.constructors :
            d = Decl(<< >>, ConstructorName(k.go, cs, i), "constructor", {i})
      \/ d \in Declarations(k.go, k.methods, "method")
  BY DEF ClassDecls, Declarations
<1> HIDE DEF cs
<1>2. CASE d \in WrapperDecls(k.go, "class")
  BY <1>2 DEF WrapperDecls, Decl
<1>3. ASSUME NEW i \in k.constructors,
             d = Decl(<< >>, ConstructorName(k.go, cs, i), "constructor", {i})
      PROVE  d.of = {i}
  BY <1>3 DEF Decl
<1> QED BY <1>1, <1>2, <1>3 DEF cs

\* What stands for functions in the file.
LEMMA InFile ==
    ASSUME NEW d \in FileDecls
    PROVE  \/ d.of = {}
           \/ d \in Declarations(<< >>, FreeFunctions, "function")
           \/ \E c \in ClassHandles : d \in ClassDecls(classes[c])
<1>1. d \in ValueDecls \cup CallbackDecls => d.of = {}
  BY DEF ValueDecls, CallbackDecls, ValueDecl
<1>2. d \in OpaqueDecls => d.of = {}
  <2>1. ASSUME NEW h, d \in WrapperDecls(GoExport(h), "opaque") PROVE d.of = {}
    BY <2>1 DEF WrapperDecls, Decl
  <2>2. ASSUME NEW h, d = Decl(<< >>, GoExport(h), "opaque", {}) PROVE d.of = {}
    BY <2>2 DEF Decl
  <2> QED BY <2>1, <2>2 DEF OpaqueDecls
<1> QED BY <1>1, <1>2 DEF FileDecls, Declarations

\* The functions of the declarations are those of the package, of one class, or
\* constructors of one class.
LEMMA OfClass ==
    ASSUME ClassesNamed, NEW c \in ClassHandles, NEW d \in ClassDecls(classes[c]), NEW i \in d.of
    PROVE  i \in DOMAIN Fs /\ Fs[i].owner = c /\ Fs[i].kind \in {"Method", "Constructor"}
<1> DEFINE k == classes[c]
<1>1. i \in k.methods \/ i \in k.constructors
  <2>1. CASE d \in Declarations(k.go, k.methods, "method")
    BY <2>1, DeclaredOnce
  <2>2. CASE \E j \in k.constructors : d.of = {j}
    BY <2>2
  <2> HIDE DEF k
  <2> QED BY <2>1, <2>2, InClass DEF k
<1> QED BY <1>1 DEF ClassesNamed

\* Every function that Go can take has one declaration in the file.
LEMMA FileOffers ==
    ASSUME ClassesNamed, NEW i \in OfferedFunctions
    PROVE  \E d \in FileDecls : i \in d.of /\ \A e \in FileDecls : i \in e.of => e = d
<1>0. FreeFunctions \subseteq {j \in DOMAIN Fs : Fs[j].kind = "Function"}
  BY DEF FreeFunctions
<1>1. CASE i \in FreeFunctions
  <2>1. PICK d \in Declarations(<< >>, FreeFunctions, "function") :
           i \in d.of /\ \A e \in Declarations(<< >>, FreeFunctions, "function") : i \in e.of => e = d
    BY <1>1, DeclaredOnce
  <2>2. d \in FileDecls
    BY DEF FileDecls, Declarations
  <2>3. ASSUME NEW e \in FileDecls, i \in e.of PROVE e = d
    <3>1. \A c \in ClassHandles : e \notin ClassDecls(classes[c])
      BY <1>0, <1>1, <2>3, OfClass
    <3> QED BY <2>1, <2>3, <3>1, InFile
  <2> QED BY <2>1, <2>2, <2>3
<1>2. ASSUME NEW c \in ClassHandles, i \in classes[c].methods \cup classes[c].constructors
      PROVE  \E d \in FileDecls : i \in d.of /\ \A e \in FileDecls : i \in e.of => e = d
  <2> DEFINE k == classes[c]
  <2>1. /\ i \in DOMAIN Fs /\ Fs[i].owner = c
        /\ i \in k.methods => Fs[i].kind = "Method"
        /\ i \in k.constructors => Fs[i].kind = "Constructor"
    BY <1>2 DEF ClassesNamed
  <2>2. ASSUME NEW e \in FileDecls, i \in e.of PROVE e \in ClassDecls(k)
    <3>1. e \notin Declarations(<< >>, FreeFunctions, "function")
      BY <1>0, <1>2, <2>1, <2>2, DeclaredOnce
    <3>2. PICK o \in ClassHandles : e \in ClassDecls(classes[o])
      BY <2>2, <3>1, InFile
    <3>3. o = c
      BY <2>1, <2>2, <3>2, OfClass
    <3> QED BY <3>2, <3>3
  <2>3. ClassDecls(k) \subseteq FileDecls
    BY DEF FileDecls
  <2>4. \A e \in Declarations(k.go, k.methods, "method") : e.of \subseteq k.methods
    BY DeclaredOnce
  <2>5. CASE i \in k.methods
    <3>1. PICK d \in Declarations(k.go, k.methods, "method") :
             i \in d.of /\ \A e \in Declarations(k.go, k.methods, "method") : i \in e.of => e = d
      BY <2>5, DeclaredOnce
    <3>2. d \in ClassDecls(k)
      BY DEF ClassDecls, Declarations
    <3>3. ASSUME NEW e \in FileDecls, i \in e.of PROVE e = d
      <4>1. ~\E j \in k.constructors : e.of = {j}
        BY <1>2, <2>1, <2>5, <3>3 DEF ClassesNamed
      <4> QED BY <2>2, <3>1, <3>3, <4>1, InClass
    <3> QED BY <2>3, <3>1, <3>2, <3>3
  <2>6. CASE i \in k.constructors
    <3> DEFINE cs == [j \in k.constructors |-> Fs[j]]
               name == ConstructorName(k.go, cs, i)
               d == Decl(<< >>, name, "constructor", {i})
    <3>1. d \in ClassDecls(k) /\ i \in d.of
      BY <2>6 DEF ClassDecls, Decl
    <3>2. ASSUME NEW e \in FileDecls, i \in e.of PROVE e = d
      <4>1. e \notin Declarations(k.go, k.methods, "method")
        BY <2>1, <2>4, <2>6, <3>2 DEF ClassesNamed
      <4>2. PICK j \in k.constructors :
               e = Decl(<< >>, ConstructorName(k.go, cs, j), "constructor", {j}) /\ e.of = {j}
        BY <2>2, <3>2, <4>1, InClass
      <4>3. j = i
        BY <3>2, <4>2
      <4> QED BY <4>2, <4>3
    <3> HIDE DEF d
    <3> QED BY <2>3, <3>1, <3>2
  <2> QED BY <1>2, <2>5, <2>6
<1> QED BY <1>1, <1>2 DEF OfferedFunctions, MethodsOfClasses

\* Just one element of a set that has a property makes one.
LEMMA JustOne ==
    ASSUME NEW x, NEW T, T = {x} PROVE Cardinality(T) = 1
BY FS_Singleton

\* Nothing is declared before the file is rendered.
DeclsLast == decls # {} => phase = "rendered"

\* Every function that Go can take is offered, and once.
THEOREM FunctionsOffered == Spec => []EveryFunctionOffered
<1>1. Init => DeclsLast /\ EveryFunctionOffered
  BY DEF Init, FileInit, DeclsLast, EveryFunctionOffered, Rendered
<1>2. CallInv /\ DeclsLast /\ EveryFunctionOffered /\ [Next]_vars => (DeclsLast /\ EveryFunctionOffered)'
  <2> SUFFICES ASSUME CallInv, DeclsLast, EveryFunctionOffered, [Next]_vars
               PROVE  DeclsLast' /\ EveryFunctionOffered'
    OBVIOUS
  <2>1. CASE UNCHANGED fileVars
    BY <2>1 DEF fileVars, DeclsLast, EveryFunctionOffered, Rendered, OfferedFunctions, FreeFunctions,
                MethodsOfClasses, ClassHandles, Fs
  <2>2. CASE CollectClasses \/ CheckExports
    <3>1. decls = {} /\ decls' = {}
      BY <2>2 DEF CollectClasses, CheckExports, DeclsLast
    <3> QED BY <3>1 DEF DeclsLast, EveryFunctionOffered, Rendered
  <2>3. CASE RenderFile
    <3>1. CASE decls' = decls
      <4>1. decls' = {}
        BY <2>3, <3>1 DEF RenderFile, DeclsLast
      <4> QED BY <4>1 DEF DeclsLast, EveryFunctionOffered, Rendered
    <3>2. CASE decls' = FileDecls /\ phase' = "rendered" /\ UNCHANGED <<header, inGo, classes>>
      <4>1. OfferedFunctions' = OfferedFunctions
        BY <3>2 DEF OfferedFunctions, FreeFunctions, MethodsOfClasses, ClassHandles, Fs
      <4>2. ASSUME NEW i \in OfferedFunctions PROVE Cardinality({d \in decls' : i \in d.of}) = 1
        <5>1. PICK d \in FileDecls : i \in d.of /\ \A e \in FileDecls : i \in e.of => e = d
          BY FileOffers DEF CallInv, FileInv
        <5>2. {e \in decls' : i \in e.of} = {d}
          BY <3>2, <5>1
        <5> QED BY <5>2, JustOne
      <4> QED BY <3>2, <4>1, <4>2 DEF DeclsLast, EveryFunctionOffered
    <3> QED BY <2>3, <3>1, <3>2 DEF RenderFile
  <2>4. CollectClasses \/ CheckExports \/ RenderFile \/ UNCHANGED fileVars
    BY DEF Next, vars, Begin, GuardReceiver, Select, Prepare, EnterC, ReturnFromC, ReturnToGo,
           GetAt, SetAt, GetElement, SetElement, CloseMeanwhile
  <2> QED BY <2>1, <2>2, <2>3, <2>4
<1> QED BY <1>1, <1>2, Invariant, PTL DEF Spec

(***************************************************************************)
(* The imports of the file.                                                *)
(***************************************************************************)

\* The roles of declarations that stand for functions.
LEMMA RolesOfFunctions ==
    ASSUME NEW scope, NEW is, NEW role, NEW d \in Declarations(scope, is, role)
    PROVE  /\ d.role \in {role, "dispatcher"} /\ is # {}
           /\ d.role = "dispatcher" /\ role # "dispatcher" => Dispatchers(is) # {}
<1>1. CASE d \in TypedDecls(scope, is, role)
  BY <1>1 DEF TypedDecls, Decl
<1>2. CASE d \in DispatcherDecls(scope, is)
  BY <1>2 DEF DispatcherDecls, Decl, Dispatchers
<1> QED BY <1>1, <1>2 DEF Declarations

\* Those of the declarations of a class.
LEMMA RolesInClass ==
    ASSUME NEW k, NEW d \in ClassDecls(k)
    PROVE  \/ d.role \in {"class", "close", "helper"} /\ d.of = {}
           \/ d.role = "constructor" /\ d.of \subseteq k.constructors /\ k.constructors # {}
           \/ d \in Declarations(k.go, k.methods, "method")
<1> DEFINE cs == [i \in k.constructors |-> Fs[i]]
<1>1. \/ d \in WrapperDecls(k.go, "class")
      \/ \E i \in k.constructors :
            d = Decl(<< >>, ConstructorName(k.go, cs, i), "constructor", {i})
      \/ d \in Declarations(k.go, k.methods, "method")
  BY DEF ClassDecls, Declarations
<1> HIDE DEF cs
<1>2. CASE d \in WrapperDecls(k.go, "class")
  BY <1>2 DEF WrapperDecls, Decl
<1>3. ASSUME NEW i \in k.constructors,
             d = Decl(<< >>, ConstructorName(k.go, cs, i), "constructor", {i})
      PROVE  d.role = "constructor" /\ d.of = {i}
  BY <1>3 DEF Decl
<1> QED BY <1>1, <1>2, <1>3

\* And of all of the file.
LEMMA RolesInFile ==
    ASSUME NEW d \in FileDecls
    PROVE  \/ d.role \in {"constant", "enum", "variant"} /\ d.of = {}
           \/ /\ d.role \in {"callback", "registry", "export"}
              /\ d.of = {} /\ CallbackUsages # {}
           \/ d.role \in {"opaque", "close", "helper"} /\ d.of = {} /\ LocalOpaques # {}
           \/ d \in Declarations(<< >>, FreeFunctions, "function")
           \/ \E c \in ClassHandles : d \in ClassDecls(classes[c])
<1>1. d \in ValueDecls => d.role \in {"constant", "enum", "variant"} /\ d.of = {}
  BY DEF ValueDecls, ValueDecl
<1>2. d \in CallbackDecls =>
         d.role \in {"callback", "registry", "export"} /\ d.of = {} /\ CallbackUsages # {}
  BY DEF CallbackDecls, ValueDecl, UsedCallbacks
<1>3. d \in OpaqueDecls => d.role \in {"opaque", "close", "helper"} /\ d.of = {} /\ LocalOpaques # {}
  <2>1. ASSUME NEW h \in LocalOpaques, d \in WrapperDecls(GoExport(h), "opaque")
        PROVE  d.role \in {"opaque", "close", "helper"} /\ d.of = {}
    BY <2>1 DEF WrapperDecls, Decl
  <2>2. ASSUME NEW h \in LocalOpaques, d = Decl(<< >>, GoExport(h), "opaque", {})
        PROVE  d.role \in {"opaque", "close", "helper"} /\ d.of = {}
    BY <2>2 DEF Decl
  <2> QED BY <2>1, <2>2 DEF OpaqueDecls
<1> QED BY <1>1, <1>2, <1>3 DEF FileDecls, Declarations

\* What the declarations of the file stand for is offered.
LEMMA OfOffered ==
    ASSUME NEW d \in FileDecls, NEW i \in d.of
    PROVE  /\ i \in OfferedFunctions
           /\ d.role = "constructor" => \E c \in ClassHandles : classes[c].constructors # {}
<1>1. CASE d \in Declarations(<< >>, FreeFunctions, "function")
  BY <1>1, DeclaredOnce, RolesOfFunctions DEF OfferedFunctions
<1>2. ASSUME NEW c \in ClassHandles, d \in ClassDecls(classes[c])
      PROVE  /\ i \in classes[c].methods \cup classes[c].constructors
             /\ d.role = "constructor" => classes[c].constructors # {}
  <2> DEFINE k == classes[c]
  <2>1. CASE d \in Declarations(k.go, k.methods, "method")
    BY <2>1, DeclaredOnce, RolesOfFunctions
  <2> HIDE DEF k
  <2> QED BY <1>2, <2>1, RolesInClass DEF k
<1> QED BY <1>1, <1>2, RolesInFile DEF OfferedFunctions, MethodsOfClasses

\* C is called where there is a function or a class.
LEMMA ImportsC ==
    ASSUME ClassesNamed, ImportsForeseen
    PROVE  (FreeFunctions # {} \/ ClassHandles # {}) <=>
              \E d \in FileDecls : d.role \in {"class", "opaque", "function", "dispatcher"}
<1>1. ASSUME NEW i \in FreeFunctions
      PROVE  \E d \in FileDecls : d.role \in {"class", "opaque", "function", "dispatcher"}
  <2>1. PICK d \in Declarations(<< >>, FreeFunctions, "function") : i \in d.of
    BY DeclaredOnce
  <2>2. d \in FileDecls
    BY DEF FileDecls, Declarations
  <2> QED BY <2>1, <2>2, RolesOfFunctions
<1>2. ASSUME NEW c \in ClassHandles
      PROVE  \E d \in FileDecls : d.role \in {"class", "opaque", "function", "dispatcher"}
  <2> DEFINE d == Decl(<< >>, classes[c].go, "class", {})
  <2>1. d \in ClassDecls(classes[c]) /\ d.role = "class"
    BY DEF ClassDecls, WrapperDecls, Decl
  <2> QED BY <2>1 DEF FileDecls
<1>3. ASSUME NEW d \in FileDecls, d.role \in {"class", "opaque", "function", "dispatcher"},
             FreeFunctions = {}, ClassHandles = {}
      PROVE  FALSE
  <2>1. LocalOpaques = {}
    BY <1>3 DEF ImportsForeseen
  <2> QED BY <1>3, <2>1, RolesInFile, RolesOfFunctions
<1> QED BY <1>1, <1>2, <1>3

\* Errors are made where a result or a constructor may fail.
LEMMA ImportsErrors ==
    ASSUME ClassesNamed
    PROVE  RequiresErrors <=>
              \E d \in FileDecls : \E i \in d.of :
                 Fs[i].returns.kind \in ErrorReturns \/ d.role = "constructor"
<1>1. ASSUME NEW c \in ClassHandles, NEW i \in classes[c].constructors
      PROVE  \E d \in FileDecls : \E j \in d.of : d.role = "constructor"
  <2> DEFINE k == classes[c]
             name == ConstructorName(k.go, [j \in k.constructors |-> Fs[j]], i)
             d == Decl(<< >>, name, "constructor", {i})
  <2>1. d \in ClassDecls(k) /\ i \in d.of /\ d.role = "constructor"
    BY DEF ClassDecls, Decl
  <2> HIDE DEF d
  <2> QED BY <2>1 DEF FileDecls
<1>2. ASSUME NEW i \in FreeFunctions \cup MethodsOfClasses
      PROVE  \E d \in FileDecls : i \in d.of
  BY FileOffers DEF OfferedFunctions
<1>3. ASSUME NEW d \in FileDecls, NEW i \in d.of,
             Fs[i].returns.kind \in ErrorReturns \/ d.role = "constructor"
      PROVE  RequiresErrors
  BY <1>3, OfOffered DEF RequiresErrors, OfferedFunctions
<1> QED BY <1>1, <1>2, <1>3 DEF RequiresErrors

\* Errors of dispatchers are formatted.
LEMMA ImportsFmt ==
    HasDispatchers <=> \E d \in FileDecls : d.role = "dispatcher"
<1>1. ASSUME NEW scope, NEW is, NEW name \in Dispatchers(is)
      PROVE  \E d \in DispatcherDecls(scope, is) : d.role = "dispatcher"
  <2> DEFINE d == Decl(scope, name, "dispatcher", OverloadGroup(is, name))
  <2>1. d \in DispatcherDecls(scope, is)
    BY DEF DispatcherDecls
  <2>2. d.role = "dispatcher"
    BY DEF Decl
  <2> HIDE DEF d
  <2> QED BY <2>1, <2>2
<1>2. DispatcherDecls(<< >>, FreeFunctions) \subseteq FileDecls
  BY DEF FileDecls
<1>3. ASSUME NEW c \in ClassHandles
      PROVE  DispatcherDecls(classes[c].go, classes[c].methods) \subseteq FileDecls
  BY DEF FileDecls, ClassDecls
<1>4. HasDispatchers => \E d \in FileDecls : d.role = "dispatcher"
  BY <1>1, <1>2, <1>3 DEF HasDispatchers
<1>5. ASSUME NEW d \in FileDecls, d.role = "dispatcher" PROVE HasDispatchers
  <2>1. CASE d \in Declarations(<< >>, FreeFunctions, "function")
    BY <1>5, <2>1, RolesOfFunctions DEF HasDispatchers
  <2>2. ASSUME NEW c \in ClassHandles, d \in ClassDecls(classes[c])
        PROVE  Dispatchers(classes[c].methods) # {}
    BY <1>5, <2>2, RolesInClass, RolesOfFunctions
  <2> QED BY <1>5, <2>1, <2>2, RolesInFile DEF HasDispatchers
<1> QED BY <1>4, <1>5

\* The registries of callbacks have a lock.
LEMMA ImportsSync ==
    UsedCallbacks # {} <=> \E d \in FileDecls : d.role = "registry"
<1>1. UsedCallbacks # {} <=> CallbackUsages # {}
  BY DEF UsedCallbacks
<1>2. ASSUME NEW u \in CallbackUsages PROVE \E d \in FileDecls : d.role = "registry"
  <2> DEFINE d == ValueDecl(RegistryName(u), "registry", u)
  <2>1. d \in CallbackDecls
    BY DEF CallbackDecls
  <2>2. d.role = "registry"
    BY DEF ValueDecl
  <2> HIDE DEF d
  <2> QED BY <2>1, <2>2 DEF FileDecls
<1>3. ASSUME NEW d \in FileDecls, d.role = "registry" PROVE CallbackUsages # {}
  <2>1. d \notin Declarations(<< >>, FreeFunctions, "function")
    BY <1>3, RolesOfFunctions
  <2>2. \A c \in ClassHandles : d \notin ClassDecls(classes[c])
    BY <1>3, RolesInClass, RolesOfFunctions
  <2> QED BY <1>3, <2>1, <2>2, RolesInFile
<1> QED BY <1>1, <1>2, <1>3

\* What is asked of parameters is whether their conversion is written with unsafe.
LEMMA ParamsUnsafe ==
    ASSUME NEW f
    PROVE  ParamsNeedUnsafe(f) <=>
              \E t \in ToSet(f.params) : t.kind \in ConvertedUnsafely \/ IsVoidPointer(t)
BY DEF ParamsNeedUnsafe, ConvertedUnsafely, HandledUnsafely, ToSet

\* What RequiresUnsafe asks of a function, by its kind, is whether it is
\* written with unsafe.
LEMMA UnsafeForeseen ==
    ASSUME NEW f, MadeByIR(f), ~IsVoidPointer(f.returns)
    PROVE  /\ f.kind = "Function" =>
                 (WrittenWithUnsafe(f) <=>
                    \/ ParamsNeedUnsafe(f)
                    \/ f.returns.kind \in {"Pointer", "FixedByteArray", "FixedArray", "FixedModelArray"})
           /\ f.kind = "Constructor" => (WrittenWithUnsafe(f) <=> ParamsNeedUnsafe(f))
           /\ f.kind = "Method" /\ f.returns.kind # "FixedArray" /\ (f.accessor = "Set" => ~IsElementwise(f)) =>
                 (WrittenWithUnsafe(f) <=>
                    ParamsNeedUnsafe(f) \/ f.returns.kind \in {"Pointer", "FixedByteArray"})
<1>1. WrittenWithUnsafe(f) <=>
         /\ ~IsElementwise(f)
         /\ ParamsNeedUnsafe(f) \/ f.returns.kind \in {"Pointer", "FixedByteArray", "FixedArray"}
  BY ParamsUnsafe DEF WrittenWithUnsafe
<1>2. f.kind # "Method" => f.accessor = "" /\ ~IsElementwise(f)
  BY DEF MadeByIR, IsElementwise
<1>3. f.accessor \in {"Get", "GetAt", "SetAt"} => ~ParamsNeedUnsafe(f)
  BY ParamsUnsafe DEF MadeByIR, ConvertedUnsafely
<1>4. f.returns.kind = "FixedModelArray" => f.accessor = "Get" /\ IsElementwise(f)
  BY DEF MadeByIR, IsElementwise
<1>5. IsElementwise(f) /\ f.accessor # "Set" =>
         ~ParamsNeedUnsafe(f) /\ f.returns.kind \notin {"Pointer", "FixedByteArray"}
  BY <1>3 DEF MadeByIR, IsElementwise
<1>6. f.kind = "Constructor" => f.returns.kind = "Opaque"
  BY DEF MadeByIR
<1> QED BY <1>1, <1>2, <1>4, <1>5, <1>6 DEF IsElementwise

\* The header of the file asks for unsafe just where a declaration uses it.
LEMMA ImportsUnsafe ==
    ASSUME FileInv, ImportsForeseen
    PROVE  RequiresUnsafe <=> \E d \in FileDecls : \E i \in d.of : WrittenWithUnsafe(Fs[i])
<1>1. (\E d \in FileDecls : \E i \in d.of : WrittenWithUnsafe(Fs[i])) <=>
         \E i \in OfferedFunctions : WrittenWithUnsafe(Fs[i])
  BY OfOffered, FileOffers DEF FileInv
<1>2. ASSUME NEW i \in OfferedFunctions
      PROVE  i \in DOMAIN Fs /\ MadeByIR(Fs[i]) /\ ~IsVoidPointer(Fs[i].returns)
  <2>1. i \in DOMAIN Fs
    BY DEF OfferedFunctions, MethodsOfClasses, FreeFunctions, FileInv, ClassesNamed
  <2> QED BY <2>1, InputAssumption DEF FileInv, Fs, ImportsForeseen
<1>3. ASSUME NEW i \in FreeFunctions
      PROVE  WrittenWithUnsafe(Fs[i]) <=>
                \/ ParamsNeedUnsafe(Fs[i])
                \/ Fs[i].returns.kind \in {"Pointer", "FixedByteArray", "FixedArray", "FixedModelArray"}
  <2>1. i \in OfferedFunctions /\ Fs[i].kind = "Function"
    BY DEF OfferedFunctions, FreeFunctions
  <2> QED BY <1>2, <2>1, UnsafeForeseen
<1>4. ASSUME NEW c \in ClassHandles, NEW i \in classes[c].constructors
      PROVE  WrittenWithUnsafe(Fs[i]) <=> ParamsNeedUnsafe(Fs[i])
  <2>1. i \in OfferedFunctions /\ Fs[i].kind = "Constructor"
    BY DEF OfferedFunctions, FileInv, ClassesNamed
  <2> QED BY <1>2, <2>1, UnsafeForeseen
<1>5. ASSUME NEW c \in ClassHandles, NEW i \in classes[c].methods
      PROVE  WrittenWithUnsafe(Fs[i]) <=>
                ParamsNeedUnsafe(Fs[i]) \/ Fs[i].returns.kind \in {"Pointer", "FixedByteArray"}
  <2>1. i \in MethodsOfClasses /\ i \in OfferedFunctions /\ Fs[i].kind = "Method"
    BY DEF OfferedFunctions, MethodsOfClasses, FileInv, ClassesNamed
  <2>2. Fs[i].returns.kind # "FixedArray" /\ (Fs[i].accessor = "Set" => ~IsElementwise(Fs[i]))
    BY <2>1 DEF ImportsForeseen
  <2> QED BY <1>2, <2>1, <2>2, UnsafeForeseen
<1>6. (\E i \in OfferedFunctions : WrittenWithUnsafe(Fs[i])) <=>
         \/ \E i \in FreeFunctions : WrittenWithUnsafe(Fs[i])
         \/ \E c \in ClassHandles :
               \/ \E i \in classes[c].constructors : WrittenWithUnsafe(Fs[i])
               \/ \E i \in classes[c].methods : WrittenWithUnsafe(Fs[i])
  BY DEF OfferedFunctions, MethodsOfClasses
<1> QED BY <1>1, <1>3, <1>4, <1>5, <1>6 DEF RequiresUnsafe

\* A file imports what it uses, and nothing else.
THEOREM ImportsRight == Spec => []ImportsMatch
<1>1. Init => DeclsLast /\ ImportsMatch
  BY DEF Init, FileInit, DeclsLast, ImportsMatch, Rendered
<1>2. CallInv /\ DeclsLast /\ ImportsMatch /\ [Next]_vars => (DeclsLast /\ ImportsMatch)'
  <2> SUFFICES ASSUME CallInv, DeclsLast, ImportsMatch, [Next]_vars
               PROVE  DeclsLast' /\ ImportsMatch'
    OBVIOUS
  <2>1. CASE UNCHANGED fileVars
    <3>1. ImportsUsed' = ImportsUsed
      BY <2>1 DEF fileVars, ImportsUsed, WrittenWithUnsafe, Fs
    <3>2. ImportsForeseen' <=> ImportsForeseen
      BY <2>1 DEF fileVars, ImportsForeseen, OfferedFunctions, FreeFunctions, MethodsOfClasses,
                  ClassHandles, LocalOpaques, OwnedOpaques, Fs
    <3> QED BY <2>1, <3>1, <3>2 DEF fileVars, DeclsLast, ImportsMatch, Rendered
  <2>2. CASE CollectClasses \/ CheckExports
    <3>1. decls = {} /\ decls' = {}
      BY <2>2 DEF CollectClasses, CheckExports, DeclsLast
    <3> QED BY <3>1 DEF DeclsLast, ImportsMatch, Rendered
  <2>3. CASE RenderFile
    <3>1. CASE decls' = decls
      <4>1. decls' = {}
        BY <2>3, <3>1 DEF RenderFile, DeclsLast
      <4> QED BY <4>1 DEF DeclsLast, ImportsMatch, Rendered
    <3>2. CASE /\ decls' = FileDecls /\ imports' = FileImports /\ phase' = "rendered"
               /\ UNCHANGED <<header, inGo, classes>>
      <4>1. ImportsForeseen' <=> ImportsForeseen
        BY <3>2 DEF ImportsForeseen, OfferedFunctions, FreeFunctions, MethodsOfClasses,
                    ClassHandles, LocalOpaques, OwnedOpaques, Fs
      <4>2. ASSUME ImportsForeseen PROVE ImportsUsed' = FileImports
        <5>1. Fs' = Fs /\ \A f : WrittenWithUnsafe(f)' <=> WrittenWithUnsafe(f)
          BY <3>2 DEF Fs, WrittenWithUnsafe
        <5>2. ImportsUsed' =
                (IF FreeFunctions # {} \/ ClassHandles # {} THEN {"C"} ELSE {})
                  \cup (IF RequiresErrors THEN {"errors"} ELSE {})
                  \cup (IF HasDispatchers THEN {"fmt"} ELSE {})
                  \cup (IF RequiresUnsafe THEN {"unsafe"} ELSE {})
                  \cup (IF UsedCallbacks # {} THEN {"sync"} ELSE {})
          BY <3>2, <4>2, <5>1, ImportsC, ImportsErrors, ImportsFmt, ImportsUnsafe, ImportsSync
             DEF ImportsUsed, CallInv, FileInv
        <5> QED BY <5>2 DEF FileImports
      <4> QED BY <3>2, <4>1, <4>2 DEF DeclsLast, ImportsMatch
    <3> QED BY <2>3, <3>1, <3>2 DEF RenderFile
  <2>4. CollectClasses \/ CheckExports \/ RenderFile \/ UNCHANGED fileVars
    BY DEF Next, vars, Begin, GuardReceiver, Select, Prepare, EnterC, ReturnFromC, ReturnToGo,
           GetAt, SetAt, GetElement, SetElement, CloseMeanwhile
  <2> QED BY <2>1, <2>2, <2>3, <2>4
<1> QED BY <1>1, <1>2, Invariant, PTL DEF Spec
=============================================================================
