--------------------------- MODULE CallbackBridge ---------------------------
(***************************************************************************)
(* The bridge generated for a callback parameter of a native function:     *)
(*                                                                         *)
(*   - a package variable {mu sync.RWMutex; fn}, one for each parameter,   *)
(*     whatever the receiver of the call;                                  *)
(*   - the generated Go function, which stores its argument in fn under    *)
(*     the lock, and then calls the bridge function in C++;                *)
(*   - the bridge function, which hands the native library a captureless   *)
(*     trampoline, or nullptr;                                             *)
(*   - the exported Go function the trampoline calls, which copies fn      *)
(*     under the read lock and runs the copy without it.                   *)
(*                                                                         *)
(* A thread's activations of these functions nest: the library may fire a  *)
(* callback inside a registration, and a callback may register again.      *)
(* sync.RWMutex and the library are external.                              *)
(***************************************************************************)
EXTENDS Naturals, Sequences, FiniteSets

CONSTANTS
    Goroutine,              \* threads that start in Go
    NativeThread,           \* threads the native library starts
    NoThread,
    Receiver,               \* native objects that hold a callback
    NoReceiver,
    Callback,               \* Go functions
    NoFn,                   \* a nil function
    CallbacksRegister,      \* may a callback register a callback?
    MayPanic,               \* may a callback or an argument's guard panic?
    MaxDepth                \* bound on the nesting of activations

Thread == Goroutine \cup NativeThread

ASSUME ThreadAssumption ==
    /\ Goroutine \cap NativeThread = {}
    /\ NoThread \notin Thread
    /\ NoReceiver \notin Receiver

ASSUME CallbackAssumption ==
    /\ NoFn \notin Callback
    /\ CallbacksRegister \in BOOLEAN
    /\ MayPanic \in BOOLEAN
    /\ MaxDepth \in Nat

VARIABLES
    fn,                     \* the fn of the registry
    slot,                   \* does each receiver hold the trampoline?
    storer,                 \* history: the activation that stored fn
    told,                   \* history: the receiver it has then passed on, if
                            \*   that was the last call of the bridge
    stack,                  \* the activations of each thread
    writer,                 \* RWMutex: who holds or waits for the write lock
    readers,                \* RWMutex: activations that hold the read lock
    waiting                 \* RWMutex: activations that wait for it

vars == <<fn, slot, storer, told, stack, writer, readers, waiting>>
history == <<storer, told>>
lock == <<writer, readers, waiting>>

\* Where an activation is: at the step it will take next.
RegisterStep == {"lock", "drain", "store", "unlock", "call", "native"}
FireStep == {"rlock", "blocked", "read", "runlock", "run"}

Frame == [at       : RegisterStep \cup FireStep,
          receiver : Receiver,
          fn       : Callback \cup {NoFn}]     \* the argument, or the copy

Activation == Thread \X (1 .. MaxDepth)

TypeOK ==
    /\ fn \in Callback \cup {NoFn}
    /\ slot \in [Receiver -> BOOLEAN]
    /\ storer \in Activation \cup {NoThread}
    /\ told \in Receiver \cup {NoReceiver}
    /\ stack \in [Thread -> Seq(Frame)]
    /\ writer \in Thread \cup {NoThread}
    /\ readers \in SUBSET Activation
    /\ waiting \in SUBSET Activation

Init ==
    /\ fn = NoFn
    /\ slot = [r \in Receiver |-> FALSE]
    /\ storer = NoThread
    /\ told = NoReceiver
    /\ stack = [t \in Thread |-> << >>]
    /\ writer = NoThread
    /\ readers = {}
    /\ waiting = {}

-----------------------------------------------------------------------------
Top(t) == stack[t][Len(stack[t])]

This(t) == <<t, Len(stack[t])>>             \* the activation t is in

At(t, step) == stack[t] # << >> /\ Top(t).at = step

GoTo(t, step) == stack' = [stack EXCEPT ![t][Len(stack[t])].at = step]

Push(t, frame) ==
    /\ Len(stack[t]) < MaxDepth
    /\ stack' = [stack EXCEPT ![t] = Append(@, frame)]

Cut(t, depth) == stack' = [stack EXCEPT ![t] = SubSeq(@, 1, depth)]

Pop(t) == Cut(t, Len(stack[t]) - 1)

-----------------------------------------------------------------------------
(* sync.RWMutex.  Lock first excludes other writers and turns new readers  *)
(* away, then waits for the readers there are; Unlock lets in all readers  *)
(* that were turned away.                                                  *)

Announce(t) ==
    /\ writer = NoThread
    /\ writer' = t
    /\ UNCHANGED <<readers, waiting>>

Unlock ==
    /\ writer' = NoThread
    /\ readers' = waiting
    /\ waiting' = {}

RLock(a) ==
    \/ /\ writer = NoThread
       /\ readers' = readers \cup {a}
       /\ UNCHANGED <<writer, waiting>>
    \/ /\ writer # NoThread
       /\ waiting' = waiting \cup {a}
       /\ UNCHANGED <<writer, readers>>

KeepReadLock(a) == UNCHANGED lock            \* mutant: RUnlock is missing

RUnlock(a) ==
    /\ readers' = readers \ {a}
    /\ UNCHANGED <<writer, waiting>>

-----------------------------------------------------------------------------
(* The generated Go function, called by Go code with a callback.           *)

\* Go code runs in a goroutine and inside callbacks.
GoRuns(t) ==
    \/ t \in Goroutine /\ stack[t] = << >>
    \/ At(t, "run") /\ CallbacksRegister

CallRegister(t, r, cb) ==
    /\ GoRuns(t)
    /\ Push(t, [at |-> "lock", receiver |-> r, fn |-> cb])
    /\ UNCHANGED <<fn, slot, history, lock>>

\* mu.Lock(), until other writers are gone.
BeginLock(t) ==
    /\ At(t, "lock")
    /\ Announce(t)
    /\ GoTo(t, "drain")
    /\ UNCHANGED <<fn, slot, history>>

DrainUnchecked == TRUE                       \* mutant: Lock before the fn := copies end

ReadersGone == readers = {}

\* mu.Lock(), until the readers are gone.
EndLock(t) ==
    /\ At(t, "drain")
    /\ ReadersGone
    /\ GoTo(t, "store")
    /\ UNCHANGED <<fn, slot, history, lock>>

\* state.fn = cb
Store(t) ==
    /\ At(t, "store")
    /\ fn' = Top(t).fn
    /\ storer' = This(t)
    /\ told' = NoReceiver
    /\ GoTo(t, "unlock")
    /\ UNCHANGED <<slot, lock>>

SkipUnlock(t) ==                             \* mutant: mu.Unlock() is missing
    /\ At(t, "unlock")
    /\ GoTo(t, "call")
    /\ UNCHANGED <<fn, slot, history, lock>>

\* mu.Unlock()
EndStore(t) ==
    /\ At(t, "unlock")
    /\ Unlock
    /\ GoTo(t, "call")
    /\ UNCHANGED <<fn, slot, history>>

UseTrampoline(cb) == TRUE                    \* mutant: the argument is not tested

\* C.bool(cb != nil), the choice between the trampoline and nullptr.
UseCb(cb) == cb # NoFn

\* The bridge function calls the library, which keeps the callback.
CallBridge(t) ==
    /\ At(t, "call")
    /\ slot' = [slot EXCEPT ![Top(t).receiver] = UseCb(Top(t).fn)]
    /\ told' = IF storer = This(t) THEN Top(t).receiver ELSE NoReceiver
    /\ GoTo(t, "native")
    /\ UNCHANGED <<fn, storer, lock>>

ReturnFromNative(t) ==
    /\ At(t, "native")
    /\ Pop(t)
    /\ UNCHANGED <<fn, slot, history, lock>>

-----------------------------------------------------------------------------
(* The library fires: trampoline, then the exported Go function.           *)

\* Native code runs in its own threads, in registrations, and in other calls.
NativeRuns(t) == stack[t] = << >> \/ At(t, "native")

\* The library takes the trampoline from a receiver, and is about to call it.
Fire(t, r) ==
    /\ NativeRuns(t)
    /\ slot[r]
    /\ Push(t, [at |-> "rlock", receiver |-> r, fn |-> NoFn])
    /\ UNCHANGED <<fn, slot, history, lock>>

\* mu.RLock()
BeginRead(t) ==
    /\ At(t, "rlock")
    /\ RLock(This(t))
    /\ GoTo(t, IF writer = NoThread THEN "read" ELSE "blocked")
    /\ UNCHANGED <<fn, slot, history>>

\* mu.RLock() after a wait
WakeUp(t) ==
    /\ At(t, "blocked")
    /\ This(t) \in readers
    /\ GoTo(t, "read")
    /\ UNCHANGED <<fn, slot, history, lock>>

\* fn := state.fn
Read(t) ==
    /\ At(t, "read")
    /\ stack' = [stack EXCEPT ![t][Len(stack[t])].at = "runlock",
                              ![t][Len(stack[t])].fn = fn]
    /\ UNCHANGED <<fn, slot, history, lock>>

CopyUnchecked(t) == GoTo(t, "run")           \* mutant: `if fn == nil` is missing

\* if fn == nil { return zero }
TestCopy(t) ==
    \/ Top(t).fn = NoFn /\ Pop(t)
    \/ Top(t).fn # NoFn /\ GoTo(t, "run")

\* mu.RUnlock() and the test of the copy.
EndRead(t) ==
    /\ At(t, "runlock")
    /\ RUnlock(This(t))
    /\ TestCopy(t)
    /\ UNCHANGED <<fn, slot, history>>

\* fn(...) returns.
CallbackReturns(t) ==
    /\ At(t, "run")
    /\ Pop(t)
    /\ UNCHANGED <<fn, slot, history, lock>>

\* A callback panics, or the guard of an argument after the callback does,
\* when fn is stored and the library not called.  Go code recovers: the
\* goroutine's, or a callback's further down.
Panic(t, depth) ==
    /\ MayPanic
    /\ At(t, "run") \/ At(t, "call")
    /\ depth < Len(stack[t])
    /\ IF depth = 0 THEN t \in Goroutine ELSE stack[t][depth].at = "run"
    /\ Cut(t, depth)
    /\ UNCHANGED <<fn, slot, history, lock>>

-----------------------------------------------------------------------------
\* The steps a thread takes once it is in an activation.
Continue(t) ==
    \/ BeginLock(t) \/ EndLock(t) \/ Store(t) \/ EndStore(t)
    \/ CallBridge(t) \/ ReturnFromNative(t)
    \/ BeginRead(t) \/ WakeUp(t) \/ Read(t) \/ EndRead(t)
    \/ CallbackReturns(t)

Next ==
    \E t \in Thread :
        \/ \E r \in Receiver, cb \in Callback \cup {NoFn} : CallRegister(t, r, cb)
        \/ \E r \in Receiver : Fire(t, r)
        \/ Continue(t)
        \/ \E depth \in 0 .. MaxDepth : Panic(t, depth)

Spec == Init /\ [][Next]_vars

\* Goroutines and native threads are scheduled, every call of a callback or of
\* the library returns, and the mutex inside RWMutex starves no writer.
Fairness ==
    \A t \in Thread :
        /\ WF_vars(Continue(t))
        /\ SF_vars(BeginLock(t))
        /\ \A depth \in 1 .. MaxDepth :
              /\ SF_vars(Len(stack[t]) = depth /\ ReturnFromNative(t))
              /\ SF_vars(Len(stack[t]) = depth /\ CallbackReturns(t))

FairSpec == Spec /\ Fairness

-----------------------------------------------------------------------------
(* Correctness.                                                            *)

\* Two threads never access fn at the same time if one of them writes it: the
\* registry has no data race, whoever registers and fires.
RaceFree ==
    \A s, t \in Thread :
        s # t /\ At(s, "store") => ~At(t, "store") /\ ~At(t, "read")

\* The lock is held by activations that are between its acquisition and its
\* release and by no other, below or above them on any stack: neither a nil
\* callback, nor a panic, nor a nested registration leaves it behind.
LockIsReleased ==
    /\ \A t \in Thread :
          writer = t <=> At(t, "drain") \/ At(t, "store") \/ At(t, "unlock")
    /\ readers \cup waiting =
          {This(t) : t \in {s \in Thread :
              At(s, "blocked") \/ At(s, "read") \/ At(s, "runlock")}}
    /\ \A t \in Thread :
          \A i \in 1 .. Len(stack[t]) - 1 : stack[t][i].at \in {"run", "native"}

\* The library and the registry are told of a registration separately, one
\* after the other.  They agree on whether there is a callback if the last to
\* store is also the last to call the library, whatever ran in between.  After
\* a panic between the two steps, or registrations that overtake each other,
\* the receiver may be left with a trampoline that runs nothing, or without
\* one; and other receivers run what was registered for this one.
ToldWhatIsStored == told # NoReceiver => (slot[told] <=> fn # NoFn)

\* What makes the lock exclude: who holds it, that nobody waits for a free
\* lock, and that the readers are gone before the writer stores.  And what
\* makes registry and library agree: fn is the argument of its storer.
RegistryInv ==
    /\ TypeOK
    /\ LockIsReleased
    /\ \A t \in Thread : Len(stack[t]) <= MaxDepth
    /\ readers \cap waiting = {}
    /\ waiting # {} => writer # NoThread
    /\ \A t \in Thread :
          /\ At(t, "read") \/ At(t, "runlock") => This(t) \in readers
          /\ At(t, "store") \/ At(t, "unlock") => readers = {}
          /\ (At(t, "unlock") \/ At(t, "call")) /\ storer = This(t) => fn = Top(t).fn
    /\ ToldWhatIsStored

\* Every thread gets out of the bridge again and again: a registration gets
\* the lock though callbacks keep firing, a firing though others keep
\* registering, and a callback may register without waiting for itself.
ActivationsEnd == \A t \in Thread : []<>(stack[t] = << >>)
=============================================================================
