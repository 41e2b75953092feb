------------------------------ MODULE Handles ------------------------------
(***************************************************************************)
(* The run-time behaviour of the Go wrappers a generated facade hands to   *)
(* its user: structs {ptr, owned, root}, the guards at the head of every   *)
(* generated function, the roots that returned wrappers inherit, and       *)
(* Close.  The templates are in src/codegen/go_facade/classes.rs and       *)
(* calls.rs.                                                               *)
(*                                                                         *)
(* One goroutine uses the wrappers.  Native code may call back into Go in  *)
(* the middle of a call (a callback parameter), so calls nest: `stack` is  *)
(* the goroutine's stack of generated functions that are inside native     *)
(* code.  A panic raised in such a callback unwinds to whatever frame      *)
(* recovers it.                                                            *)
(***************************************************************************)
EXTENDS Naturals, Sequences, FiniteSets

CONSTANTS
    Handle,                 \* wrapper structs the Go program may allocate
    NoHandle,               \* a nil *bool root, or no wrapper
    NilParam,               \* the root expression of a nil argument
    Object,                 \* native objects and their parts (fields)
    NoObject,               \* a nil ptr
    Within,                 \* the allocation each native object lives in
    DestructorCallsGo,      \* may a native destructor run a Go callback?
    MaxDepth                \* bound on the nesting of calls

ASSUME SentinelAssumption ==
    /\ NoHandle \notin Handle
    /\ NilParam \notin Handle \cup {NoHandle}
    /\ NoObject \notin Object

ASSUME WithinAssumption ==
    /\ Within \in [Object -> Object]
    /\ \A o \in Object : Within[Within[o]] = Within[o]

ASSUME ParameterAssumption ==
    /\ DestructorCallsGo \in BOOLEAN
    /\ MaxDepth \in Nat

VARIABLES
    made,                   \* the wrappers allocated so far
    ptr, owned, root,       \* the three fields of each wrapper
    closed,                 \* the bool behind the root each owner allocates
    stack,                  \* generated functions inside native code
    life,                   \* where each native allocation is in its life
    owns,                   \* history: the allocation an owner was given
    abandoned               \* history: owners whose Close was unwound

vars == <<made, ptr, owned, root, closed, stack, life, owns, abandoned>>

Allocation == {o \in Object : Within[o] = o}

FrameFields ==
    [op   : {"call", "close"},
     self : Handle \cup {NoHandle},               \* the wrapper being closed
     root : Handle \cup {NoHandle, NilParam},     \* what a result inherits
     used : SUBSET Allocation,                    \* history: see Vouched
     inGo : BOOLEAN]                              \* running a Go callback

Frame == {f \in FrameFields : f.op = "close" => f.self \in Handle}

TypeOK ==
    /\ made \in SUBSET Handle
    /\ ptr \in [Handle -> Object \cup {NoObject}]
    /\ owned \in [Handle -> BOOLEAN]
    /\ root \in [Handle -> Handle \cup {NoHandle}]
    /\ closed \in [Handle -> BOOLEAN]
    /\ stack \in Seq(Frame)
    /\ life \in [Allocation -> {"absent", "alive", "dying", "dead"}]
    /\ owns \in [Handle -> Object \cup {NoObject}]
    /\ abandoned \in SUBSET Handle

Init ==
    /\ made = {}
    /\ ptr = [h \in Handle |-> NoObject]
    /\ owned = [h \in Handle |-> FALSE]
    /\ root = [h \in Handle |-> NoHandle]
    /\ closed = [h \in Handle |-> FALSE]
    /\ stack = << >>
    /\ life \in [Allocation -> {"absent", "alive"}]  \* the library's own objects
    /\ owns = [h \in Handle |-> NoObject]
    /\ abandoned = {}

-----------------------------------------------------------------------------
(* Who is running, and the guards.                                         *)

Top == stack[Len(stack)]

Popped == SubSeq(stack, 1, Len(stack) - 1)

\* Go code runs at the bottom of the stack and inside callbacks.
GoRuns == stack # << >> => Top.inGo

NativeRuns(op) == stack # << >> /\ ~Top.inGo /\ Top.op = op

RootClosed(h) == root[h] # NoHandle /\ closed[root[h]]

ArgumentUnchecked(h) == h \in made                  \* mutant: no root check

\* The guard of a wrapper argument that is not nil.  A closed root panics.
ArgumentPasses(h) == h \in made /\ ~RootClosed(h)

\* The guard of a receiver: a nil ptr returns early with a zero value.
ReceiverPasses(h) == h \in made /\ ptr[h] # NoObject /\ ~RootClosed(h)

\* Pointers whose lifetime the wrapper's root really stands for: the native
\* library returned a part of the object that root belongs to.
Vouched(h) ==
    /\ root[h] # NoHandle
    /\ ptr[h] # NoObject
    /\ Within[ptr[h]] = owns[root[h]]

UsedBy(args) == {Within[ptr[h]] : h \in {a \in args : Vouched(a)}}

Enter(args, inherited) ==
    /\ Len(stack) < MaxDepth
    /\ stack' = Append(stack,
         [op |-> "call", self |-> NoHandle, root |-> inherited,
          used |-> UsedBy(args), inGo |-> FALSE])
    /\ UNCHANGED <<made, ptr, owned, root, closed, life, owns, abandoned>>

-----------------------------------------------------------------------------
(* Generated functions enter native code.                                  *)

\* A method: results inherit the receiver's root.
CallMethod(h, args) ==
    /\ GoRuns
    /\ ReceiverPasses(h)
    /\ \A a \in args : ArgumentPasses(a)
    /\ Enter(args \cup {h}, root[h])

\* A free function or a constructor.  Results inherit the root of the only
\* parameter of a rooted type, if there is exactly one (elements of arrays do
\* not count).  Where that argument is nil, nothing is guarded, and the root
\* expression will dereference it.
CallFree(args) ==
    /\ GoRuns
    /\ \A a \in args : ArgumentPasses(a)
    /\ \/ \E a \in args : Enter(args, root[a])
       \/ Enter(args, NoHandle)
       \/ Enter(args, NilParam)

-----------------------------------------------------------------------------
(* Native code returns.                                                    *)

Leave == stack' = Popped

\* void, a scalar, a string, or a null model pointer.
ReturnNothing ==
    /\ NativeRuns("call")
    /\ Leave
    /\ UNCHANGED <<made, ptr, owned, root, closed, life, owns, abandoned>>

ResultHasRootUnchecked == TRUE              \* mutant: the nil root is taken over

\* raw.root of a nil argument dereferences nil instead of giving a root.
ResultHasRoot == Top.root # NilParam

NewWrapper(h, o, isOwner, itsRoot) ==
    /\ h \notin made
    /\ made' = made \cup {h}
    /\ ptr' = [ptr EXCEPT ![h] = o]
    /\ owned' = [owned EXCEPT ![h] = isOwner]
    /\ root' = [root EXCEPT ![h] = itsRoot]

\* newBorrowed(raw, root).  The library returns a pointer into a live
\* object, or one computed before a callback destroyed the root's object.
ReturnBorrowed(h, o) ==
    /\ NativeRuns("call")
    /\ ResultHasRoot
    /\ \/ life[Within[o]] = "alive"
       \/ Top.root \in Handle /\ Within[o] = owns[Top.root]
    /\ NewWrapper(h, o, FALSE, Top.root)
    /\ Leave
    /\ UNCHANGED <<closed, life, owns, abandoned>>

\* &T{ptr: raw}: the returned class has no wrapper helpers in this package.
ReturnUnrooted(h, o) ==
    /\ NativeRuns("call")
    /\ life[Within[o]] = "alive"
    /\ NewWrapper(h, o, FALSE, NoHandle)
    /\ Leave
    /\ UNCHANGED <<closed, life, owns, abandoned>>

\* root := new(bool): the cell is named after the owner it is allocated for.
OwnerRoot(h) == h

\* newOwned(raw), or the literal of an input.owner callable: a new object, or
\* one the library gives up.
ReturnOwned(h, o) ==
    /\ NativeRuns("call")
    /\ o \in Allocation
    /\ \/ life[o] = "absent"
       \/ life[o] = "alive" /\ \A other \in made : owns[other] # o
    /\ NewWrapper(h, o, TRUE, OwnerRoot(h))
    /\ closed' = [closed EXCEPT ![h] = FALSE]
    /\ life' = [life EXCEPT ![o] = "alive"]
    /\ owns' = [owns EXCEPT ![h] = o]
    /\ Leave
    /\ UNCHANGED abandoned

-----------------------------------------------------------------------------
(* Close.                                                                  *)

CloseOfAnyWrapper(h) ==                        \* mutant: owned is not tested
    /\ h \in made
    /\ ptr[h] # NoObject

\* Close returns early for a nil ptr and for a borrowed wrapper.
ClosePasses(h) ==
    /\ h \in made
    /\ ptr[h] # NoObject
    /\ owned[h]

LeaveRootOpen(h) == UNCHANGED closed           \* mutant: *root = true is missing

CloseRoot(h) == closed' = [closed EXCEPT ![root[h]] = TRUE]

KeepPtr(h) == UNCHANGED ptr                    \* mutant: ptr = nil is missing

ClearPtr(h) == ptr' = [ptr EXCEPT ![h] = NoObject]

\* Close up to the call of the native destructor.
BeginClose(h) ==
    /\ GoRuns
    /\ ClosePasses(h)
    /\ Len(stack) < MaxDepth
    /\ CloseRoot(h)
    /\ life' = [life EXCEPT ![ptr[h]] = "dying"]
    /\ stack' = Append(stack,
         [op |-> "close", self |-> h, root |-> NoHandle,
          used |-> {}, inGo |-> FALSE])
    /\ UNCHANGED <<made, ptr, owned, root, owns, abandoned>>

\* The destructor returns and Close clears ptr.
EndClose ==
    /\ NativeRuns("close")
    /\ life' = [life EXCEPT ![owns[Top.self]] = "dead"]
    /\ ClearPtr(Top.self)
    /\ Leave
    /\ UNCHANGED <<made, owned, root, closed, owns, abandoned>>

-----------------------------------------------------------------------------
(* Callbacks and panics.                                                   *)

SetTopInGo(inGo) ==
    /\ stack' = [stack EXCEPT ![Len(stack)].inGo = inGo]
    /\ UNCHANGED <<made, ptr, owned, root, closed, life, owns, abandoned>>

CallbackBegins ==
    /\ \/ NativeRuns("call")
       \/ NativeRuns("close") /\ DestructorCallsGo
    /\ SetTopInGo(TRUE)

CallbackReturns ==
    /\ stack # << >>
    /\ Top.inGo
    /\ SetTopInGo(FALSE)

\* A panic in a callback (the user's own, or a guard's "handle is closed"),
\* or of the nil root expression, unwinds to the frame that recovers it.
Unwind(depth) ==
    /\ stack # << >>
    /\ Top.inGo \/ Top.root = NilParam
    /\ depth < Len(stack)
    /\ stack' = SubSeq(stack, 1, depth)
    /\ abandoned' = abandoned \cup
         {stack[i].self : i \in {j \in depth + 1 .. Len(stack) :
                                    stack[j].op = "close"}}
    /\ UNCHANGED <<made, ptr, owned, root, closed, life, owns>>

-----------------------------------------------------------------------------
GoCalls ==
    \/ \E h \in Handle, args \in SUBSET Handle : CallMethod(h, args)
    \/ \E args \in SUBSET Handle : CallFree(args)
    \/ \E h \in Handle : BeginClose(h)

NativeSteps ==
    \/ ReturnNothing
    \/ \E h \in Handle, o \in Object :
          ReturnBorrowed(h, o) \/ ReturnUnrooted(h, o) \/ ReturnOwned(h, o)
    \/ EndClose
    \/ CallbackBegins

Next ==
    \/ GoCalls
    \/ NativeSteps
    \/ CallbackReturns
    \/ \E depth \in 0 .. MaxDepth : Unwind(depth)

Spec == Init /\ [][Next]_vars

-----------------------------------------------------------------------------
(* Correctness.                                                            *)

\* A wrapper whose root is open, and stands for the object it points into,
\* points at live memory: whatever closed the owner, in whatever callback,
\* the guards of the generated functions stop the wrapper's next use.
GuardProtects ==
    \A h \in made :
        Vouched(h) /\ ~RootClosed(h) => life[Within[ptr[h]]] = "alive"

\* The root of an owner tells the truth in both directions: open means the
\* object can be used, closed means its destruction has begun.  An object Go
\* was given is therefore never left alive without an owner that can close it.
RootTellsLife ==
    \A h \in made :
        owned[h] => (RootClosed(h) <=> life[owns[h]] # "alive")

\* Only a closed owner has a nil ptr.  A model-pointer argument is tested for
\* a closed root but not for a nil ptr, so this is what keeps a closed wrapper
\* from reaching the native library as a null pointer.
NilPtrIsClosed ==
    \A h \in made : ptr[h] = NoObject => owned[h] /\ RootClosed(h)

ClosesNext(h) ==
    /\ Len(stack') > Len(stack)
    /\ stack'[Len(stack')].op = "close"
    /\ stack'[Len(stack')].self = h

Closing(h) == \E i \in DOMAIN stack : stack[i].op = "close" /\ stack[i].self = h

\* Close deletes an object a second time only if its first Close has not
\* reached `ptr = nil`: it is still running, or a panic unwound it.
RepeatedCloseIsInterrupted ==
    [][\A h \in made :
          ClosesNext(h) /\ life[owns[h]] # "alive" => Closing(h) \/ h \in abandoned]_vars

-----------------------------------------------------------------------------
(* The inductive invariant behind the properties above.                    *)

WrapperShape ==
    \A h \in made :
        /\ owned[h] => /\ root[h] = h
                       /\ owns[h] \in Allocation
                       /\ ptr[h] \in {owns[h], NoObject}
                       /\ life[owns[h]] # "absent"
        /\ root[h] # NoHandle => root[h] \in made /\ owned[root[h]]

SoleOwner ==
    \A g, h \in made : owned[g] /\ owned[h] /\ owns[g] = owns[h] => g = h

FrameShape ==
    \A i \in DOMAIN stack :
        /\ stack[i].op = "close" =>
              /\ stack[i].self \in made
              /\ owned[stack[i].self]
              /\ closed[stack[i].self]
        /\ stack[i].root \in Handle =>
              stack[i].root \in made /\ owned[stack[i].root]

\* A closed owner still holding its pointer is a Close that has not finished.
UnfinishedClose ==
    \A h \in made :
        owned[h] /\ closed[h] /\ ptr[h] # NoObject => Closing(h) \/ h \in abandoned

\* Whatever is wrong with one wrapper is wrong in the company of others: the
\* shape of the wrappers and frames, that no object has two owners, and how
\* far each Close has got, are together preserved by every step.
WrapperInv ==
    /\ TypeOK
    /\ WrapperShape
    /\ SoleOwner
    /\ FrameShape
    /\ RootTellsLife
    /\ NilPtrIsClosed
    /\ UnfinishedClose
=============================================================================
