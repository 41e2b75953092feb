------------------------ MODULE CallbackBridgeProofs ------------------------
(***************************************************************************)
(* Proofs about the lock of the callback bridge, and that the bridge       *)
(* implements module CallbackSlot, for any number of threads, receivers    *)
(* and callbacks and any nesting of activations.  The second part says for *)
(* each action what it does to the callbacks that run: nothing, except     *)
(* that a firing is added when it copies a callback, and activations that  *)
(* return or are unwound are removed.                                      *)
(***************************************************************************)
EXTENDS CallbackBridgeSlot, SequenceTheorems, TLAPS

Step == RegisterStep \cup FireStep

\* Where a thread is, as the lock sees it.
Pc(t) == IF stack[t] = << >> THEN "outside" ELSE Top(t).at

Writing == {"drain", "store", "unlock"}
Reading == {"blocked", "read", "runlock"}

\* The invariant without the stacks: what relates the lock to the threads.
LockInv ==
    /\ \A t \in Thread : writer = t <=> Pc(t) \in Writing
    /\ \A a : a \in readers \cup waiting <=>
          \E t \in Thread : a = This(t) /\ Pc(t) \in Reading
    /\ readers \cap waiting = {}
    /\ waiting # {} => writer # NoThread
    /\ \A t \in Thread :
          /\ Pc(t) \in {"read", "runlock"} => This(t) \in readers
          /\ Pc(t) \in {"store", "unlock"} => readers = {}

\* The stacks: no deeper than the bound, and below the top only activations
\* that are in native code or in a callback.
StackInv ==
    \A t \in Thread :
        /\ Len(stack[t]) <= MaxDepth
        /\ \A i \in 1 .. Len(stack[t]) - 1 : stack[t][i].at \in {"run", "native"}

\* Registry and library: fn is the argument of the activation that stored it,
\* for as long as that has not called the library.
ToldInv ==
    /\ \A t \in Thread :
          Pc(t) \in {"unlock", "call"} /\ storer = This(t) => fn = Top(t).fn
    /\ ToldWhatIsStored

\* A step of thread t: the others stay where they are.
OthersStay(t) ==
    \A s \in Thread \ {t} :
        Pc(s)' = Pc(s) /\ This(s)' = This(s) /\ Top(s)' = Top(s)

-----------------------------------------------------------------------------
(* How a stack changes.                                                    *)

\* A frame pushed on a stack leaves the ones below where they are.
LEMMA PushedStack ==
  ASSUME NEW q \in Seq(Frame), NEW f \in Frame
  PROVE  /\ Append(q, f) \in Seq(Frame)
         /\ Append(q, f) # << >>
         /\ Len(Append(q, f)) = Len(q) + 1
         /\ Append(q, f)[Len(q) + 1] = f
         /\ \A i \in 1 .. Len(q) : Append(q, f)[i] = q[i]
BY AppendProperties, LenProperties

\* What is left of a stack after a return or a panic is a prefix of it.
LEMMA CutStack ==
  ASSUME NEW q \in Seq(Frame), NEW n \in 0 .. Len(q)
  PROVE  /\ SubSeq(q, 1, n) \in Seq(Frame)
         /\ Len(SubSeq(q, 1, n)) = n
         /\ \A i \in 1 .. n : SubSeq(q, 1, n)[i] = q[i]
<1>1. \A i \in 1 .. n : q[i] \in Frame
  BY ElementOfSeq, LenProperties
<1>2. /\ SubSeq(q, 1, n) \in Seq(Frame)
      /\ Len(SubSeq(q, 1, n)) = IF 1 <= n THEN n - 1 + 1 ELSE 0
      /\ \A i \in 1 .. n - 1 + 1 : SubSeq(q, 1, n)[i] = q[1 + i - 1]
  BY <1>1, SubSeqProperties, LenProperties
<1>3. n - 1 + 1 = n /\ \A i \in 1 .. n : 1 + i - 1 = i
  BY LenProperties
<1> QED BY <1>2, <1>3, LenProperties

\* The top of a stack that is not empty is a frame.
LEMMA TopOfStack ==
  ASSUME NEW q \in Seq(Frame), q # << >>
  PROVE  Len(q) \in Nat \ {0} /\ q[Len(q)] \in Frame
BY EmptySeq, LenProperties, ElementOfSeq

\* Exchanging the top frame leaves the ones below where they are.
LEMMA SwappedStack ==
  ASSUME NEW q \in Seq(Frame), q # << >>, NEW f \in Frame
  PROVE  LET r == [q EXCEPT ![Len(q)] = f]
         IN  /\ r \in Seq(Frame)
             /\ r # << >>
             /\ Len(r) = Len(q)
             /\ r[Len(q)] = f
             /\ \A i \in 1 .. Len(q) - 1 : r[i] = q[i]
<1> DEFINE r == [q EXCEPT ![Len(q)] = f]
<1>1. Len(q) \in 1 .. Len(q)
  BY TopOfStack
<1>2. /\ r \in Seq(Frame)
      /\ Len(r) = Len(q)
      /\ \A j \in 1 .. Len(q) : r[j] = IF j = Len(q) THEN f ELSE q[j]
  BY <1>1, ExceptSeq
<1> HIDE DEF r
<1>3. r # << >>
  BY <1>1, <1>2, EmptySeq, LenProperties
<1>4. r[Len(q)] = f /\ \A i \in 1 .. Len(q) - 1 : r[i] = q[i]
  BY <1>1, <1>2
<1> QED BY <1>2, <1>3, <1>4 DEF r

-----------------------------------------------------------------------------
(* How a thread's stack changes in the actions.                            *)

\* An activation that goes on keeps its place.
LEMMA GoingOn ==
  ASSUME TypeOK, StackInv, NEW t \in Thread, stack[t] # << >>, NEW f \in Frame,
         stack' = [stack EXCEPT ![t] = [stack[t] EXCEPT ![Len(stack[t])] = f]]
  PROVE  /\ stack' \in [Thread -> Seq(Frame)]
         /\ StackInv'
         /\ Pc(t)' = f.at
         /\ This(t)' = This(t)
         /\ Top(t)' = f
         /\ OthersStay(t)
<1> DEFINE q == stack[t]
           r == [q EXCEPT ![Len(q)] = f]
<1>1. q \in Seq(Frame)
  BY DEF TypeOK
<1>2. stack' = [stack EXCEPT ![t] = r]
  OBVIOUS
<1>3. /\ r \in Seq(Frame)
      /\ r # << >>
      /\ Len(r) = Len(q)
      /\ r[Len(q)] = f
      /\ \A i \in 1 .. Len(q) - 1 : r[i] = q[i]
  BY <1>1, SwappedStack
<1> HIDE DEF r
<1>4. /\ stack' \in [Thread -> Seq(Frame)]
      /\ stack'[t] = r
      /\ \A s \in Thread \ {t} : stack'[s] = stack[s]
  BY <1>2, <1>3 DEF TypeOK
<1>5. StackInv'
  BY <1>3, <1>4 DEF StackInv
<1>6. Pc(t)' = f.at /\ This(t)' = This(t) /\ Top(t)' = f
  BY <1>3, <1>4 DEF Pc, Top, This
<1>7. OthersStay(t)
  BY <1>4 DEF OthersStay, Pc, Top, This
<1> QED BY <1>4, <1>5, <1>6, <1>7

\* GoTo is such a change.
LEMMA Going ==
  ASSUME TypeOK, StackInv, NEW t \in Thread, stack[t] # << >>,
         NEW step \in Step, GoTo(t, step)
  PROVE  /\ stack' \in [Thread -> Seq(Frame)]
         /\ StackInv'
         /\ Pc(t)' = step
         /\ This(t)' = This(t)
         /\ Top(t)'.fn = Top(t).fn
         /\ OthersStay(t)
<1> DEFINE f == [Top(t) EXCEPT !.at = step]
<1>1. Top(t) \in Frame
  BY TopOfStack DEF TypeOK, Top
<1>2. f \in Frame /\ f.at = step /\ f.fn = Top(t).fn
  BY <1>1 DEF Frame, Step
<1>3. stack' = [stack EXCEPT ![t] = [stack[t] EXCEPT ![Len(stack[t])] = f]]
  BY DEF GoTo, Top
<1> HIDE DEF f
<1> QED BY <1>2, <1>3, GoingOn

\* A new activation is above one that is in native code or in a callback.
LEMMA Pushing ==
  ASSUME TypeOK, StackInv, NEW t \in Thread, NEW f \in Frame, Push(t, f),
         Pc(t) \in {"outside", "run", "native"}
  PROVE  /\ stack' \in [Thread -> Seq(Frame)]
         /\ StackInv'
         /\ Pc(t)' = f.at
         /\ OthersStay(t)
<1> DEFINE q == stack[t]
           r == Append(q, f)
<1>1. q \in Seq(Frame) /\ Len(q) \in Nat /\ Len(q) < MaxDepth
  BY LenProperties DEF TypeOK, Push
<1>2. /\ r \in Seq(Frame)
      /\ r # << >>
      /\ Len(r) = Len(q) + 1
      /\ r[Len(q) + 1] = f
      /\ \A i \in 1 .. Len(q) : r[i] = q[i]
  BY <1>1, PushedStack
<1>3. stack' = [stack EXCEPT ![t] = r]
  BY DEF Push
<1> HIDE DEF r
<1>4. /\ stack' \in [Thread -> Seq(Frame)]
      /\ stack'[t] = r
      /\ \A s \in Thread \ {t} : stack'[s] = stack[s]
  BY <1>2, <1>3 DEF TypeOK
<1>5. \A i \in 1 .. Len(q) : q[i].at \in {"run", "native"}
  <2>1. CASE q = << >>
    BY <2>1, EmptySeq
  <2>2. CASE q # << >>
    <3>1. q[Len(q)].at \in {"run", "native"}
      <4>1. Pc(t) = q[Len(q)].at
        BY <2>2 DEF Pc, Top
      <4>2. q[Len(q)] \in Frame
        BY <1>1, <2>2, TopOfStack
      <4> QED BY <4>1, <4>2 DEF Frame, RegisterStep, FireStep
    <3> QED BY <1>1, <3>1 DEF StackInv
  <2> QED BY <2>1, <2>2
<1>6. StackInv'
  <2>1. Len(r) <= MaxDepth /\ Len(r) - 1 = Len(q)
    BY <1>1, <1>2, CallbackAssumption
  <2>2. \A i \in 1 .. Len(r) - 1 : r[i].at \in {"run", "native"}
    BY <1>2, <1>5, <2>1
  <2> QED BY <1>4, <2>1, <2>2 DEF StackInv
<1>7. Pc(t)' = f.at
  BY <1>2, <1>4 DEF Pc, Top
<1>8. OthersStay(t)
  BY <1>4 DEF OthersStay, Pc, Top, This
<1> QED BY <1>4, <1>6, <1>7, <1>8

\* A return or a panic lands in native code, in a callback, or outside.
LEMMA Cutting ==
  ASSUME TypeOK, StackInv, NEW t \in Thread, NEW n \in 0 .. Len(stack[t]) - 1,
         Cut(t, n)
  PROVE  /\ stack' \in [Thread -> Seq(Frame)]
         /\ StackInv'
         /\ Pc(t)' \in {"outside", "run", "native"}
         /\ OthersStay(t)
<1> DEFINE q == stack[t]
           r == SubSeq(q, 1, n)
<1>1. q \in Seq(Frame) /\ Len(q) \in Nat /\ n \in 0 .. Len(q)
  BY LenProperties DEF TypeOK
<1>2. /\ r \in Seq(Frame)
      /\ Len(r) = n
      /\ \A i \in 1 .. n : r[i] = q[i]
  BY <1>1, CutStack
<1>3. stack' = [stack EXCEPT ![t] = r]
  BY DEF Cut
<1> HIDE DEF r
<1>4. /\ stack' \in [Thread -> Seq(Frame)]
      /\ stack'[t] = r
      /\ \A s \in Thread \ {t} : stack'[s] = stack[s]
  BY <1>2, <1>3 DEF TypeOK
<1>5. \A i \in 1 .. n : r[i].at \in {"run", "native"}
  BY <1>1, <1>2 DEF StackInv
<1>6. StackInv'
  <2>1. Len(r) <= MaxDepth
    BY <1>1, <1>2, CallbackAssumption DEF StackInv
  <2> QED BY <1>1, <1>2, <1>4, <1>5, <2>1 DEF StackInv
<1>7. Pc(t)' \in {"outside", "run", "native"}
  <2>1. CASE r = << >>
    BY <1>4, <2>1 DEF Pc
  <2>2. CASE r # << >>
    <3>1. n \in 1 .. n /\ Pc(t)' = r[n].at
      BY <1>2, <1>4, <2>2, TopOfStack DEF Pc, Top
    <3> QED BY <1>5, <3>1
  <2> QED BY <2>1, <2>2
<1>8. OthersStay(t)
  BY <1>4 DEF OthersStay, Pc, Top, This
<1> QED BY <1>4, <1>6, <1>7, <1>8

-----------------------------------------------------------------------------
(* How the lock changes.                                                   *)

\* No two threads are in one activation.
LEMMA DistinctActivations ==
  ASSUME NEW s, NEW t, This(s) = This(t)
  PROVE  s = t
BY DEF This

\* Steps that neither take nor release the lock, and do not hold it.
LEMMA WithoutLock ==
  ASSUME LockInv, NEW t \in Thread, OthersStay(t), UNCHANGED lock,
         Pc(t) \notin Writing \cup Reading,
         Pc(t)' \notin Writing \cup Reading
  PROVE  LockInv'
BY DEF LockInv, OthersStay, lock, Writing, Reading

\* Steps from one place where the lock is held to another.
LEMMA HoldingLock ==
  ASSUME LockInv, NEW t \in Thread, OthersStay(t), UNCHANGED lock,
         This(t)' = This(t),
         \/ {Pc(t), Pc(t)'} \subseteq Writing
         \/ {Pc(t), Pc(t)'} \subseteq Reading,
         Pc(t)' \in {"read", "runlock"} => This(t) \in readers,
         Pc(t)' \in {"store", "unlock"} => readers = {}
  PROVE  LockInv'
<1>1. Pc(t) \in Writing <=> Pc(t)' \in Writing
  BY DEF Writing, Reading
<1>2. Pc(t) \in Reading <=> Pc(t)' \in Reading
  BY DEF Writing, Reading
<1>3. \A s \in Thread : /\ Pc(s)' \in Writing <=> Pc(s) \in Writing
                        /\ Pc(s)' \in Reading <=> Pc(s) \in Reading
                        /\ This(s)' = This(s)
  BY <1>1, <1>2 DEF OthersStay
<1>4. \A s \in Thread :
          /\ Pc(s)' \in {"read", "runlock"} => This(s)' \in readers'
          /\ Pc(s)' \in {"store", "unlock"} => readers' = {}
  BY DEF LockInv, OthersStay, lock
<1> QED BY <1>3, <1>4 DEF LockInv, lock

\* Lock: the write lock is announced when nobody has it.
LEMMA AnnouncedLock ==
  ASSUME LockInv, NEW t \in Thread, OthersStay(t), Announce(t),
         This(t)' = This(t), Pc(t) = "lock", Pc(t)' = "drain"
  PROVE  LockInv'
BY ThreadAssumption DEF LockInv, OthersStay, Announce, Writing, Reading

\* Unlock: whoever waited has the read lock.
LEMMA ReleasedLock ==
  ASSUME LockInv, NEW t \in Thread, OthersStay(t), Unlock,
         This(t)' = This(t), Pc(t) = "unlock", Pc(t)' = "call"
  PROVE  LockInv'
<1>1. readers = {} /\ writer = t
  BY DEF LockInv, Writing
<1>2. \A s \in Thread : Pc(s) \notin {"read", "runlock"}
  BY <1>1 DEF LockInv
<1>3. \A s \in Thread \ {t} : Pc(s) \notin Writing
  BY <1>1 DEF LockInv
<1>4. \A s \in Thread : Pc(s)' \notin Writing \cup {"read", "runlock"}
  BY <1>2, <1>3 DEF OthersStay, Writing
<1>5. \A a : a \in readers' \cup waiting' <=>
          \E s \in Thread : a = This(s)' /\ Pc(s)' \in Reading
  BY <1>1 DEF LockInv, OthersStay, Unlock, Reading
<1>6. writer' \notin Thread /\ waiting' = {}
  BY ThreadAssumption DEF Unlock
<1> QED BY <1>4, <1>5, <1>6 DEF LockInv, Writing

\* RLock: a new reader gets the lock, or waits behind the writer.
LEMMA TakenReadLock ==
  ASSUME LockInv, NEW t \in Thread, OthersStay(t), RLock(This(t)),
         This(t)' = This(t), Pc(t) = "rlock",
         Pc(t)' = IF writer = NoThread THEN "read" ELSE "blocked"
  PROVE  LockInv'
<1>1. This(t) \notin readers \cup waiting
  BY DistinctActivations DEF LockInv, Reading
<1>2. CASE writer = NoThread
  <2>1. /\ Pc(t)' = "read"
        /\ writer' = writer
        /\ readers' = readers \cup {This(t)}
        /\ waiting' = waiting /\ waiting = {}
    BY <1>2 DEF RLock, LockInv
  <2>2. \A s \in Thread : Pc(s) \notin Writing
    BY <1>2, ThreadAssumption DEF LockInv
  <2>3. \A s \in Thread : Pc(s)' \notin Writing
    BY <2>1, <2>2 DEF OthersStay, Writing
  <2>4. \A s \in Thread : Pc(s)' \in {"read", "runlock"} => This(s)' \in readers'
    BY <2>1 DEF LockInv, OthersStay
  <2>5. \A a : a \in readers' \cup waiting' <=>
            \E s \in Thread : a = This(s)' /\ Pc(s)' \in Reading
    BY <2>1 DEF LockInv, OthersStay, Reading
  <2>6. writer' \notin Thread
    BY <1>2, <2>1, ThreadAssumption
  <2> QED BY <2>1, <2>3, <2>4, <2>5, <2>6 DEF LockInv, Writing
<1>3. CASE writer # NoThread
  <2>1. /\ Pc(t)' = "blocked"
        /\ writer' = writer
        /\ readers' = readers
        /\ waiting' = waiting \cup {This(t)}
    BY <1>3 DEF RLock
  <2>2. \A a : a \in readers' \cup waiting' <=>
            \E s \in Thread : a = This(s)' /\ Pc(s)' \in Reading
    BY <2>1 DEF LockInv, OthersStay, Reading
  <2>3. \A s \in Thread :
            /\ writer' = s <=> Pc(s)' \in Writing
            /\ Pc(s)' \in {"read", "runlock"} => This(s)' \in readers'
            /\ Pc(s)' \in {"store", "unlock"} => readers' = {}
    BY <2>1 DEF LockInv, OthersStay, Writing
  <2>4. readers' \cap waiting' = {}
    BY <1>1, <2>1 DEF LockInv
  <2> QED BY <1>3, <2>1, <2>2, <2>3, <2>4 DEF LockInv
<1> QED BY <1>2, <1>3

\* RUnlock: the reader is gone.
LEMMA DroppedReadLock ==
  ASSUME LockInv, NEW t \in Thread, OthersStay(t), RUnlock(This(t)),
         Pc(t) = "runlock", Pc(t)' \in {"outside", "run", "native"}
  PROVE  LockInv'
<1>1. This(t) \in readers /\ This(t) \notin waiting
  BY DEF LockInv
<1>2. \A s \in Thread \ {t} : This(s) # This(t)
  BY DistinctActivations
<1>3. /\ readers' = readers \ {This(t)}
      /\ UNCHANGED <<writer, waiting>>
  BY DEF RUnlock
<1>4. Pc(t) \notin Writing /\ Pc(t)' \notin Writing \cup Reading
  BY DEF Writing, Reading
<1>5. \A a : a \in readers' \cup waiting' <=>
          \E s \in Thread : a = This(s)' /\ Pc(s)' \in Reading
  <2>1. \A a : a \in readers' \cup waiting' <=>
            \E s \in Thread \ {t} : a = This(s) /\ Pc(s) \in Reading
    BY <1>1, <1>2, <1>3 DEF LockInv
  <2> QED BY <1>4, <2>1 DEF OthersStay
<1>6. \A s \in Thread :
          /\ writer' = s <=> Pc(s)' \in Writing
          /\ Pc(s)' \in {"read", "runlock"} => This(s)' \in readers'
          /\ Pc(s)' \in {"store", "unlock"} => readers' = {}
  BY <1>2, <1>3, <1>4 DEF LockInv, OthersStay, Writing, Reading
<1> QED BY <1>3, <1>5, <1>6 DEF LockInv

\* Steps that leave registry and library alone.
LEMMA WithoutTelling ==
  ASSUME ToldInv, NEW t \in Thread, OthersStay(t),
         UNCHANGED <<fn, slot, storer, told>>,
         Pc(t)' \notin {"unlock", "call"}
  PROVE  ToldInv'
<1>1. ToldWhatIsStored'
  BY DEF ToldInv, ToldWhatIsStored
<1> QED BY <1>1 DEF ToldInv, OthersStay

-----------------------------------------------------------------------------
(* The invariant.                                                          *)

\* Where a thread is, is what the guards of its actions say.
LEMMA PcIsAt ==
  ASSUME NEW t, NEW step \in Step
  PROVE  At(t, step) <=> stack[t] # << >> /\ Pc(t) = step
BY DEF At, Pc

\* An activation within the bound has a name.
LEMMA ThisIsActivation ==
  ASSUME TypeOK, StackInv, NEW t \in Thread, stack[t] # << >>
  PROVE  This(t) \in Activation
<1>1. Len(stack[t]) \in Nat \ {0} /\ Len(stack[t]) <= MaxDepth
  BY TopOfStack DEF TypeOK, StackInv
<1> QED BY <1>1, CallbackAssumption DEF This, Activation

\* The invariant, said with Pc.
LEMMA InvInParts ==
  ASSUME RegistryInv
  PROVE  TypeOK /\ StackInv /\ LockInv /\ ToldInv
<1>1. \A t \in Thread :
          /\ At(t, "drain") \/ At(t, "store") \/ At(t, "unlock") <=> Pc(t) \in Writing
          /\ At(t, "blocked") \/ At(t, "read") \/ At(t, "runlock") <=> Pc(t) \in Reading
          /\ Pc(t) \in {"read", "runlock"} <=> At(t, "read") \/ At(t, "runlock")
          /\ Pc(t) \in {"store", "unlock"} <=> At(t, "store") \/ At(t, "unlock")
          /\ Pc(t) \in {"unlock", "call"} <=> At(t, "unlock") \/ At(t, "call")
  BY DEF At, Pc, Writing, Reading
<1>2. \A a : a \in readers \cup waiting <=>
          \E t \in Thread : a = This(t) /\ Pc(t) \in Reading
  BY <1>1 DEF RegistryInv, LockIsReleased
<1> QED BY <1>1, <1>2 DEF RegistryInv, LockIsReleased, StackInv, LockInv, ToldInv

\* ... and back, after a step.
LEMMA PartsAreInv ==
  ASSUME TypeOK', StackInv', LockInv', ToldInv'
  PROVE  RegistryInv'
<1>1. \A t \in Thread :
          /\ At(t, "drain")' \/ At(t, "store")' \/ At(t, "unlock")' <=> Pc(t)' \in Writing
          /\ At(t, "blocked")' \/ At(t, "read")' \/ At(t, "runlock")' <=> Pc(t)' \in Reading
          /\ Pc(t)' \in {"read", "runlock"} <=> At(t, "read")' \/ At(t, "runlock")'
          /\ Pc(t)' \in {"store", "unlock"} <=> At(t, "store")' \/ At(t, "unlock")'
          /\ Pc(t)' \in {"unlock", "call"} <=> At(t, "unlock")' \/ At(t, "call")'
  BY DEF At, Pc, Writing, Reading
<1>2. (readers \cup waiting)' =
          {This(t)' : t \in {s \in Thread :
              At(s, "blocked")' \/ At(s, "read")' \/ At(s, "runlock")'}}
  BY <1>1 DEF LockInv
<1>3. LockIsReleased'
  BY <1>1, <1>2 DEF LockIsReleased, LockInv, StackInv
<1> QED BY <1>1, <1>3 DEF RegistryInv, StackInv, LockInv, ToldInv

\* A registration: what happens to the stack and the lock in each of its steps.
LEMMA RegistrationKeepsInv ==
  ASSUME TypeOK, StackInv, LockInv, ToldInv, NEW t \in Thread,
         \/ \E r \in Receiver, cb \in Callback \cup {NoFn} : CallRegister(t, r, cb)
         \/ BeginLock(t) \/ EndLock(t) \/ Store(t) \/ EndStore(t)
         \/ CallBridge(t) \/ ReturnFromNative(t)
  PROVE  TypeOK' /\ StackInv' /\ LockInv' /\ ToldInv'
<1>1. ASSUME NEW r \in Receiver, NEW cb \in Callback \cup {NoFn},
             CallRegister(t, r, cb)
      PROVE  TypeOK' /\ StackInv' /\ LockInv' /\ ToldInv'
  <2> DEFINE f == [at |-> "lock", receiver |-> r, fn |-> cb]
  <2>1. f \in Frame /\ f.at = "lock"
    BY DEF Frame, RegisterStep
  <2>2. Pc(t) \in {"outside", "run"}
    BY <1>1 DEF CallRegister, GoRuns, At, Pc
  <2>3. Push(t, f)
    BY <1>1 DEF CallRegister
  <2> HIDE DEF f
  <2>4. /\ stack' \in [Thread -> Seq(Frame)]
        /\ StackInv'
        /\ Pc(t)' = "lock"
        /\ OthersStay(t)
    BY <2>1, <2>2, <2>3, Pushing
  <2>5. LockInv'
    BY <1>1, <2>2, <2>4, WithoutLock DEF CallRegister, Writing, Reading
  <2>6. ToldInv'
    BY <1>1, <2>4, WithoutTelling DEF CallRegister, history
  <2> QED BY <1>1, <2>4, <2>5, <2>6 DEF TypeOK, CallRegister, history, lock
<1>2. CASE BeginLock(t)
  <2>1. stack[t] # << >> /\ Pc(t) = "lock" /\ GoTo(t, "drain")
    BY <1>2, PcIsAt DEF BeginLock, Step, RegisterStep
  <2>2. /\ stack' \in [Thread -> Seq(Frame)]
        /\ StackInv'
        /\ Pc(t)' = "drain"
        /\ This(t)' = This(t)
        /\ OthersStay(t)
    BY <2>1, Going DEF Step, RegisterStep
  <2>3. LockInv'
    BY <1>2, <2>1, <2>2, AnnouncedLock DEF BeginLock
  <2>4. ToldInv'
    BY <1>2, <2>2, WithoutTelling DEF BeginLock, history
  <2> QED BY <1>2, <2>2, <2>3, <2>4 DEF TypeOK, BeginLock, Announce, history
<1>3. CASE EndLock(t)
  <2>1. /\ stack[t] # << >> /\ Pc(t) = "drain" /\ GoTo(t, "store")
        /\ readers = {}
    BY <1>3, PcIsAt DEF EndLock, ReadersGone, Step, RegisterStep
  <2>2. /\ stack' \in [Thread -> Seq(Frame)]
        /\ StackInv'
        /\ Pc(t)' = "store"
        /\ This(t)' = This(t)
        /\ OthersStay(t)
    BY <2>1, Going DEF Step, RegisterStep
  <2>3. LockInv'
    BY <1>3, <2>1, <2>2, HoldingLock DEF EndLock, Writing
  <2>4. ToldInv'
    BY <1>3, <2>2, WithoutTelling DEF EndLock, history
  <2> QED BY <1>3, <2>2, <2>3, <2>4 DEF TypeOK, EndLock, history, lock
<1>4. CASE Store(t)
  <2>1. stack[t] # << >> /\ Pc(t) = "store" /\ GoTo(t, "unlock")
    BY <1>4, PcIsAt DEF Store, Step, RegisterStep
  <2>2. /\ stack' \in [Thread -> Seq(Frame)]
        /\ StackInv'
        /\ Pc(t)' = "unlock"
        /\ This(t)' = This(t)
        /\ Top(t)'.fn = Top(t).fn
        /\ OthersStay(t)
    BY <2>1, Going DEF Step, RegisterStep
  <2>3. readers = {}
    BY <2>1 DEF LockInv
  <2>4. LockInv'
    BY <1>4, <2>1, <2>2, <2>3, HoldingLock DEF Store, Writing, lock
  <2>5. fn' \in Callback \cup {NoFn}
    <3>1. Top(t) \in Frame
      BY <2>1, TopOfStack DEF TypeOK, Top
    <3> QED BY <1>4, <3>1 DEF Store, Frame
  <2>6. storer' \in Activation
    BY <1>4, <2>1, ThisIsActivation DEF Store
  <2>7. ToldInv'
    <3>1. /\ fn' = Top(t)'.fn
          /\ storer' = This(t)
          /\ ToldWhatIsStored'
      BY <1>4, <2>2 DEF Store, ToldWhatIsStored
    <3>2. \A s \in Thread \ {t} : This(s)' # storer'
      BY <2>2, <3>1, DistinctActivations DEF OthersStay
    <3> QED BY <3>1, <3>2 DEF ToldInv
  <2> QED BY <1>4, <2>2, <2>4, <2>5, <2>6, <2>7 DEF TypeOK, Store, lock
<1>5. CASE EndStore(t)
  <2>1. stack[t] # << >> /\ Pc(t) = "unlock" /\ GoTo(t, "call")
    BY <1>5, PcIsAt DEF EndStore, Step, RegisterStep
  <2>2. /\ stack' \in [Thread -> Seq(Frame)]
        /\ StackInv'
        /\ Pc(t)' = "call"
        /\ This(t)' = This(t)
        /\ Top(t)'.fn = Top(t).fn
        /\ OthersStay(t)
    BY <2>1, Going DEF Step, RegisterStep
  <2>3. LockInv'
    BY <1>5, <2>1, <2>2, ReleasedLock DEF EndStore
  <2>4. ToldInv'
    BY <1>5, <2>1, <2>2 DEF EndStore, ToldInv, ToldWhatIsStored, OthersStay, history
  <2> QED BY <1>5, <2>2, <2>3, <2>4 DEF TypeOK, EndStore, Unlock, history
<1>6. CASE CallBridge(t)
  <2>1. stack[t] # << >> /\ Pc(t) = "call" /\ GoTo(t, "native")
    BY <1>6, PcIsAt DEF CallBridge, Step, RegisterStep
  <2>2. /\ stack' \in [Thread -> Seq(Frame)]
        /\ StackInv'
        /\ Pc(t)' = "native"
        /\ OthersStay(t)
    BY <2>1, Going DEF Step, RegisterStep
  <2>3. LockInv'
    BY <1>6, <2>1, <2>2, WithoutLock DEF CallBridge, Writing, Reading
  <2>4. Top(t) \in Frame
    BY <2>1, TopOfStack DEF TypeOK, Top
  <2>5. slot' \in [Receiver -> BOOLEAN] /\ told' \in Receiver \cup {NoReceiver}
    BY <1>6, <2>4 DEF CallBridge, UseCb, Frame, TypeOK
  <2>6. ToldInv'
    <3>1. storer = This(t) => fn = Top(t).fn
      BY <2>1 DEF ToldInv
    <3>2. ToldWhatIsStored'
      BY <1>6, <2>4, <3>1 DEF CallBridge, ToldWhatIsStored, UseCb, Frame, TypeOK
    <3> QED BY <1>6, <2>2, <3>2 DEF CallBridge, ToldInv, OthersStay
  <2> QED BY <1>6, <2>2, <2>3, <2>5, <2>6 DEF TypeOK, CallBridge, lock
<1>7. CASE ReturnFromNative(t)
  <2>1. stack[t] # << >> /\ Pc(t) = "native"
    BY <1>7, PcIsAt DEF ReturnFromNative, Step, RegisterStep
  <2>2. /\ Len(stack[t]) - 1 \in 0 .. Len(stack[t]) - 1
        /\ Cut(t, Len(stack[t]) - 1)
    BY <1>7, <2>1, TopOfStack DEF TypeOK, ReturnFromNative, Pop
  <2>3. /\ stack' \in [Thread -> Seq(Frame)]
        /\ StackInv'
        /\ Pc(t)' \in {"outside", "run", "native"}
        /\ OthersStay(t)
    BY <2>2, Cutting
  <2>4. LockInv'
    BY <1>7, <2>1, <2>3, WithoutLock DEF ReturnFromNative, Writing, Reading
  <2>5. ToldInv'
    BY <1>7, <2>3, WithoutTelling DEF ReturnFromNative, history
  <2> QED BY <1>7, <2>3, <2>4, <2>5 DEF TypeOK, ReturnFromNative, history, lock
<1> QED BY <1>1, <1>2, <1>3, <1>4, <1>5, <1>6, <1>7

\* A firing, and the steps that end an activation.
LEMMA FiringKeepsInv ==
  ASSUME TypeOK, StackInv, LockInv, ToldInv, NEW t \in Thread,
         \/ \E r \in Receiver : Fire(t, r)
         \/ BeginRead(t) \/ WakeUp(t) \/ Read(t) \/ EndRead(t)
         \/ CallbackReturns(t)
         \/ \E depth \in 0 .. MaxDepth : Panic(t, depth)
  PROVE  TypeOK' /\ StackInv' /\ LockInv' /\ ToldInv'
<1>1. ASSUME NEW r \in Receiver, Fire(t, r)
      PROVE  TypeOK' /\ StackInv' /\ LockInv' /\ ToldInv'
  <2> DEFINE f == [at |-> "rlock", receiver |-> r, fn |-> NoFn]
  <2>1. f \in Frame /\ f.at = "rlock"
    BY DEF Frame, FireStep
  <2>2. Pc(t) \in {"outside", "native"}
    BY <1>1 DEF Fire, NativeRuns, At, Pc
  <2>3. Push(t, f)
    BY <1>1 DEF Fire
  <2> HIDE DEF f
  <2>4. /\ stack' \in [Thread -> Seq(Frame)]
        /\ StackInv'
        /\ Pc(t)' = "rlock"
        /\ OthersStay(t)
    BY <2>1, <2>2, <2>3, Pushing
  <2>5. LockInv'
    BY <1>1, <2>2, <2>4, WithoutLock DEF Fire, Writing, Reading
  <2>6. ToldInv'
    BY <1>1, <2>4, WithoutTelling DEF Fire, history
  <2> QED BY <1>1, <2>4, <2>5, <2>6 DEF TypeOK, Fire, history, lock
<1>2. CASE BeginRead(t)
  <2> DEFINE step == IF writer = NoThread THEN "read" ELSE "blocked"
  <2>1. stack[t] # << >> /\ Pc(t) = "rlock" /\ GoTo(t, step) /\ step \in Step
    BY <1>2, PcIsAt DEF BeginRead, Step, FireStep
  <2> HIDE DEF step
  <2>2. /\ stack' \in [Thread -> Seq(Frame)]
        /\ StackInv'
        /\ Pc(t)' = step
        /\ This(t)' = This(t)
        /\ OthersStay(t)
    BY <2>1, Going
  <2>3. LockInv'
    BY <1>2, <2>1, <2>2, TakenReadLock DEF BeginRead, step
  <2>4. This(t) \in Activation
    BY <2>1, ThisIsActivation
  <2>5. ToldInv'
    <3>1. step \notin {"unlock", "call"}
      BY DEF step
    <3> QED BY <1>2, <2>2, <3>1, WithoutTelling DEF BeginRead, history
  <2> QED BY <1>2, <2>2, <2>3, <2>4, <2>5 DEF TypeOK, BeginRead, RLock, history
<1>3. CASE WakeUp(t)
  <2>1. /\ stack[t] # << >> /\ Pc(t) = "blocked" /\ GoTo(t, "read")
        /\ This(t) \in readers
    BY <1>3, PcIsAt DEF WakeUp, Step, FireStep
  <2>2. /\ stack' \in [Thread -> Seq(Frame)]
        /\ StackInv'
        /\ Pc(t)' = "read"
        /\ This(t)' = This(t)
        /\ OthersStay(t)
    BY <2>1, Going DEF Step, FireStep
  <2>3. LockInv'
    BY <1>3, <2>1, <2>2, HoldingLock DEF WakeUp, Reading
  <2>4. ToldInv'
    BY <1>3, <2>2, WithoutTelling DEF WakeUp, history
  <2> QED BY <1>3, <2>2, <2>3, <2>4 DEF TypeOK, WakeUp, history, lock
<1>4. CASE Read(t)
  <2> DEFINE f == [Top(t) EXCEPT !.at = "runlock", !.fn = fn]
  <2>1. stack[t] # << >> /\ Pc(t) = "read"
    BY <1>4, PcIsAt DEF Read, Step, FireStep
  <2>2. Top(t) \in Frame
    BY <2>1, TopOfStack DEF TypeOK, Top
  <2>3. f \in Frame /\ f.at = "runlock"
    BY <2>2 DEF TypeOK, Frame, FireStep
  <2>4. stack' = [stack EXCEPT ![t] = [stack[t] EXCEPT ![Len(stack[t])] = f]]
    BY <1>4, <2>2 DEF Read, Top, TypeOK, Frame
  <2> HIDE DEF f
  <2>5. /\ stack' \in [Thread -> Seq(Frame)]
        /\ StackInv'
        /\ Pc(t)' = "runlock"
        /\ This(t)' = This(t)
        /\ OthersStay(t)
    BY <2>1, <2>3, <2>4, GoingOn
  <2>6. This(t) \in readers
    BY <2>1 DEF LockInv
  <2>7. LockInv'
    BY <1>4, <2>1, <2>5, <2>6, HoldingLock DEF Read, Reading
  <2>8. ToldInv'
    BY <1>4, <2>5, WithoutTelling DEF Read, history
  <2> QED BY <1>4, <2>5, <2>7, <2>8 DEF TypeOK, Read, history, lock
<1>5. CASE EndRead(t)
  <2>1. stack[t] # << >> /\ Pc(t) = "runlock"
    BY <1>5, PcIsAt DEF EndRead, Step, FireStep
  <2>2. /\ stack' \in [Thread -> Seq(Frame)]
        /\ StackInv'
        /\ Pc(t)' \in {"outside", "run", "native"}
        /\ OthersStay(t)
    <3>1. CASE Pop(t)
      <4>1. Len(stack[t]) - 1 \in 0 .. Len(stack[t]) - 1
        BY <2>1, TopOfStack DEF TypeOK
      <4> QED BY <3>1, <4>1, Cutting DEF Pop
    <3>2. CASE GoTo(t, "run")
      BY <2>1, <3>2, Going DEF Step, FireStep
    <3> QED BY <1>5, <3>1, <3>2 DEF EndRead, TestCopy
  <2>3. LockInv'
    BY <1>5, <2>1, <2>2, DroppedReadLock DEF EndRead
  <2>4. ToldInv'
    BY <1>5, <2>2, WithoutTelling DEF EndRead, history
  <2> QED BY <1>5, <2>2, <2>3, <2>4 DEF TypeOK, EndRead, RUnlock, history
<1>6. CASE CallbackReturns(t)
  <2>1. stack[t] # << >> /\ Pc(t) = "run"
    BY <1>6, PcIsAt DEF CallbackReturns, Step, FireStep
  <2>2. /\ Len(stack[t]) - 1 \in 0 .. Len(stack[t]) - 1
        /\ Cut(t, Len(stack[t]) - 1)
    BY <1>6, <2>1, TopOfStack DEF TypeOK, CallbackReturns, Pop
  <2>3. /\ stack' \in [Thread -> Seq(Frame)]
        /\ StackInv'
        /\ Pc(t)' \in {"outside", "run", "native"}
        /\ OthersStay(t)
    BY <2>2, Cutting
  <2>4. LockInv'
    BY <1>6, <2>1, <2>3, WithoutLock DEF CallbackReturns, Writing, Reading
  <2>5. ToldInv'
    BY <1>6, <2>3, WithoutTelling DEF CallbackReturns, history
  <2> QED BY <1>6, <2>3, <2>4, <2>5 DEF TypeOK, CallbackReturns, history, lock
<1>7. ASSUME NEW depth \in 0 .. MaxDepth, Panic(t, depth)
      PROVE  TypeOK' /\ StackInv' /\ LockInv' /\ ToldInv'
  <2>1. Pc(t) \in {"run", "call"}
    BY <1>7, PcIsAt DEF Panic, Step, RegisterStep, FireStep
  <2>2. depth \in 0 .. Len(stack[t]) - 1
    <3>1. Len(stack[t]) \in Nat /\ depth \in Nat
      BY LenProperties, CallbackAssumption DEF TypeOK
    <3> QED BY <1>7, <3>1 DEF Panic
  <2>3. /\ stack' \in [Thread -> Seq(Frame)]
        /\ StackInv'
        /\ Pc(t)' \in {"outside", "run", "native"}
        /\ OthersStay(t)
    BY <1>7, <2>2, Cutting DEF Panic
  <2>4. LockInv'
    BY <1>7, <2>1, <2>3, WithoutLock DEF Panic, Writing, Reading
  <2>5. ToldInv'
    BY <1>7, <2>3, WithoutTelling DEF Panic, history
  <2> QED BY <1>7, <2>3, <2>4, <2>5 DEF TypeOK, Panic, history, lock
<1> QED BY <1>1, <1>2, <1>3, <1>4, <1>5, <1>6, <1>7

\* In the initial state nobody is in the bridge and the lock is free.
LEMMA InitInv ==
  ASSUME Init
  PROVE  RegistryInv
<1>1. \A t \in Thread : stack[t] = << >> /\ Len(stack[t]) = 0
  BY EmptySeq DEF Init
<1>2. TypeOK
  BY EmptySeq DEF Init, TypeOK
<1>3. LockIsReleased
  BY <1>1, ThreadAssumption DEF Init, LockIsReleased, At
<1>4. \A t \in Thread : Len(stack[t]) <= MaxDepth
  BY <1>1, CallbackAssumption
<1>5. ToldWhatIsStored
  BY DEF Init, ToldWhatIsStored
<1> QED BY <1>1, <1>2, <1>3, <1>4, <1>5 DEF Init, RegistryInv, At

\* Every step keeps the invariant.
LEMMA NextInv ==
  ASSUME RegistryInv, [Next]_vars
  PROVE  RegistryInv'
<1>1. TypeOK /\ StackInv /\ LockInv /\ ToldInv
  BY InvInParts
<1>2. CASE UNCHANGED vars
  <2>1. TypeOK' /\ StackInv'
    BY <1>1, <1>2 DEF TypeOK, StackInv, vars
  <2>2. \A t \in Thread :
            Pc(t)' = Pc(t) /\ This(t)' = This(t) /\ Top(t)' = Top(t)
    BY <1>2 DEF Pc, Top, This, vars
  <2>3. LockInv'
    BY <1>1, <1>2, <2>2 DEF LockInv, vars
  <2>4. ToldInv'
    BY <1>1, <1>2, <2>2 DEF ToldInv, ToldWhatIsStored, vars
  <2> QED BY <2>1, <2>3, <2>4, PartsAreInv
<1>3. CASE Next
  <2>1. PICK t \in Thread :
          \/ \E r \in Receiver, cb \in Callback \cup {NoFn} : CallRegister(t, r, cb)
          \/ \E r \in Receiver : Fire(t, r)
          \/ Continue(t)
          \/ \E depth \in 0 .. MaxDepth : Panic(t, depth)
    BY <1>3 DEF Next
  <2>2. TypeOK' /\ StackInv' /\ LockInv' /\ ToldInv'
    BY <1>1, <2>1, RegistrationKeepsInv, FiringKeepsInv DEF Continue
  <2> QED BY <2>2, PartsAreInv
<1> QED BY <1>2, <1>3

-----------------------------------------------------------------------------
(* Theorems.                                                               *)

\* The lock of a callback registry is held by exactly the activations that
\* are between its acquisition and its release, on any number of threads:
\* nested registrations, nil callbacks and panics never leave it behind.
THEOREM Invariant == Spec => []RegistryInv
<1>1. Init => RegistryInv
  BY InitInv
<1>2. RegistryInv /\ [Next]_vars => RegistryInv'
  BY NextInv
<1> QED BY <1>1, <1>2, PTL DEF Spec

\* No thread stores a callback while another stores or copies one.
THEOREM NoRace == Spec => []RaceFree
<1>1. RegistryInv => RaceFree
  <2> SUFFICES ASSUME RegistryInv, NEW s \in Thread, NEW t \in Thread,
                      s # t, At(s, "store")
               PROVE  ~At(t, "store") /\ ~At(t, "read")
    BY DEF RaceFree
  <2>1. writer = s /\ readers = {}
    BY DEF RegistryInv, LockIsReleased
  <2> QED BY <2>1 DEF RegistryInv, LockIsReleased
<1> QED BY <1>1, Invariant, PTL

\* Registry and library agree about the last complete registration, whatever
\* other registrations, firings and panics come between its two steps.
THEOREM Agreement == Spec => []ToldWhatIsStored
<1>1. RegistryInv => ToldWhatIsStored
  BY DEF RegistryInv
<1> QED BY <1>1, Invariant, PTL

-----------------------------------------------------------------------------
(* The refinement of module CallbackSlot.                                  *)

\* A step of thread t changes the stack of t alone.
OnlyStackOf(t) ==
    /\ stack' \in [Thread -> Seq(Frame)]
    /\ \A s \in Thread \ {t} : stack'[s] = stack[s]

\* The activations of t whose frames run a callback, by their depth.
Depths(t) == {i \in 1 .. MaxDepth : i <= Len(stack[t]) /\ Runs(stack[t][i])}

-----------------------------------------------------------------------------
(* What a change of one stack means to the callbacks that run.             *)

\* If the same frames of t run the same callbacks, nothing happens.
LEMMA NothingRunsAnew ==
  ASSUME NEW t \in Thread, OnlyStackOf(t), Depths(t)' = Depths(t),
         \A i \in Depths(t) : stack'[t][i].fn = stack[t][i].fn
  PROVE  Running' = Running
<1>1. \A a \in Activation : a[1] \in Thread /\ a[2] \in 1 .. MaxDepth
  BY DEF Activation
<1>2. \A a \in Activation :
          a[1] = t => /\ a \in RunningActivations <=> a[2] \in Depths(t)
                      /\ a \in RunningActivations' <=> a[2] \in Depths(t)'
  BY <1>1 DEF RunningActivations, Depths
<1>3. \A a \in Activation : a[1] # t => (a \in RunningActivations' <=> a \in RunningActivations)
  BY <1>1 DEF OnlyStackOf, RunningActivations
<1>4. RunningActivations' = RunningActivations
  BY <1>2, <1>3 DEF RunningActivations
<1>5. \A a \in RunningActivations : stack'[a[1]][a[2]].fn = stack[a[1]][a[2]].fn
  <2> SUFFICES ASSUME NEW a \in RunningActivations
               PROVE  stack'[a[1]][a[2]].fn = stack[a[1]][a[2]].fn
    OBVIOUS
  <2>1. a \in Activation
    BY DEF RunningActivations
  <2>2. CASE a[1] = t
    BY <1>2, <2>1, <2>2
  <2>3. CASE a[1] # t
    BY <1>1, <2>1, <2>3 DEF OnlyStackOf
  <2> QED BY <2>2, <2>3
<1> QED BY <1>4, <1>5 DEF Running

\* If the top frame comes to run a callback, it is added.
LEMMA OneRunsAnew ==
  ASSUME NEW t \in Thread, OnlyStackOf(t), NEW d \in 1 .. MaxDepth,
         d \notin Depths(t), Depths(t)' = Depths(t) \cup {d},
         \A i \in Depths(t) : stack'[t][i].fn = stack[t][i].fn
  PROVE  /\ <<t, d>> \in Activation
         /\ <<t, d>> \notin DOMAIN Running
         /\ Running' = [b \in DOMAIN Running \cup {<<t, d>>} |->
                            IF b = <<t, d>> THEN stack'[t][d].fn ELSE Running[b]]
<1>1. \A a \in Activation :
          a[1] \in Thread /\ a[2] \in 1 .. MaxDepth /\ a = <<a[1], a[2]>>
  BY DEF Activation
<1>2. <<t, d>> \in Activation
  BY DEF Activation
<1>3. \A a \in Activation :
          a[1] = t => /\ a \in RunningActivations <=> a[2] \in Depths(t)
                      /\ a \in RunningActivations' <=> a[2] \in Depths(t)'
  BY <1>1 DEF RunningActivations, Depths
<1>4. \A a \in Activation : a[1] # t => (a \in RunningActivations' <=> a \in RunningActivations)
  BY <1>1 DEF OnlyStackOf, RunningActivations
<1>5. /\ <<t, d>> \notin RunningActivations
      /\ RunningActivations' = RunningActivations \cup {<<t, d>>}
  <2>1. <<t, d>> \notin RunningActivations
    BY <1>2, <1>3
  <2>2. \A a \in Activation :
            a \in RunningActivations' <=> a \in RunningActivations \/ a = <<t, d>>
    BY <1>1, <1>3, <1>4
  <2> QED BY <1>2, <2>1, <2>2 DEF RunningActivations
<1>6. \A a \in RunningActivations : stack'[a[1]][a[2]].fn = stack[a[1]][a[2]].fn
  <2> SUFFICES ASSUME NEW a \in RunningActivations
               PROVE  stack'[a[1]][a[2]].fn = stack[a[1]][a[2]].fn
    OBVIOUS
  <2>1. a \in Activation
    BY DEF RunningActivations
  <2>2. CASE a[1] = t
    BY <1>3, <2>1, <2>2
  <2>3. CASE a[1] # t
    BY <1>1, <2>1, <2>3 DEF OnlyStackOf
  <2> QED BY <2>2, <2>3
<1>7. DOMAIN Running = RunningActivations
  BY DEF Running
<1> QED BY <1>2, <1>5, <1>6, <1>7 DEF Running

\* If the frames above n are gone, what they ran is removed.
LEMMA SomeRunNoMore ==
  ASSUME NEW t \in Thread, OnlyStackOf(t), NEW n \in Nat,
         Depths(t)' = {i \in Depths(t) : i <= n},
         \A i \in Depths(t)' : stack'[t][i].fn = stack[t][i].fn
  PROVE  LET Ended == {a \in RunningActivations : a[1] = t /\ ~(a[2] <= n)}
         IN  Running' = [a \in DOMAIN Running \ Ended |-> Running[a]]
<1> DEFINE Ended == {a \in RunningActivations : a[1] = t /\ ~(a[2] <= n)}
<1>1. \A a \in Activation : a[1] \in Thread /\ a[2] \in 1 .. MaxDepth
  BY DEF Activation
<1>2. \A a \in Activation :
          a[1] = t => /\ a \in RunningActivations <=> a[2] \in Depths(t)
                      /\ a \in RunningActivations' <=> a[2] \in Depths(t)'
  BY <1>1 DEF RunningActivations, Depths
<1>3. \A a \in Activation : a[1] # t => (a \in RunningActivations' <=> a \in RunningActivations)
  BY <1>1 DEF OnlyStackOf, RunningActivations
<1>4. RunningActivations' = RunningActivations \ Ended
  BY <1>2, <1>3 DEF RunningActivations
<1>5. \A a \in RunningActivations' : stack'[a[1]][a[2]].fn = stack[a[1]][a[2]].fn
  <2> SUFFICES ASSUME NEW a, a \in RunningActivations'
               PROVE  stack'[a[1]][a[2]].fn = stack[a[1]][a[2]].fn
    OBVIOUS
  <2>1. a \in Activation
    BY DEF RunningActivations
  <2>2. CASE a[1] = t
    BY <1>2, <2>1, <2>2
  <2>3. CASE a[1] # t
    BY <1>1, <2>1, <2>3 DEF OnlyStackOf
  <2> QED BY <2>2, <2>3
<1>6. DOMAIN Running = RunningActivations
  BY DEF Running
<1> QED BY <1>4, <1>5, <1>6 DEF Running

-----------------------------------------------------------------------------
(* What the operations on a stack do to the callbacks that run.            *)

\* The top frame is exchanged for f: nothing happens if both run the same
\* callback or none; and if only f runs one, it is added.
LEMMA TopExchanged ==
  ASSUME TypeOK, StackInv, NEW t \in Thread, stack[t] # << >>, NEW f \in Frame,
         stack' = [stack EXCEPT ![t] = [stack[t] EXCEPT ![Len(stack[t])] = f]]
  PROVE  /\ (Runs(f) <=> Runs(Top(t))) /\ (Runs(f) => f.fn = Top(t).fn)
                => Running' = Running
         /\ Runs(f) /\ ~Runs(Top(t))
                => /\ This(t) \in Activation
                   /\ This(t) \notin DOMAIN Running
                   /\ Running' = [b \in DOMAIN Running \cup {This(t)} |->
                                      IF b = This(t) THEN f.fn ELSE Running[b]]
<1> DEFINE q == stack[t]
           d == Len(stack[t])
           r == [q EXCEPT ![Len(q)] = f]
<1>1. /\ q \in Seq(Frame) /\ stack' = [stack EXCEPT ![t] = r]
      /\ d \in 1 .. MaxDepth /\ d \in Nat
  BY TopOfStack, CallbackAssumption DEF TypeOK, StackInv
<1>2. /\ r \in Seq(Frame)
      /\ Len(r) = d
      /\ r[d] = f
      /\ \A i \in 1 .. d - 1 : r[i] = q[i]
  BY <1>1, SwappedStack
<1> HIDE DEF r
<1>3. OnlyStackOf(t) /\ stack'[t] = r
  BY <1>1, <1>2 DEF TypeOK, OnlyStackOf
<1>4. \A i \in 1 .. MaxDepth : i <= d /\ i # d => stack'[t][i] = stack[t][i]
  BY <1>1, <1>2, <1>3
<1>5. \A i \in 1 .. MaxDepth :
          i \in Depths(t)' <=> IF i = d THEN Runs(f) ELSE i \in Depths(t)
  BY <1>1, <1>2, <1>3, <1>4 DEF Depths
<1>6. d \in Depths(t) <=> Runs(Top(t))
  BY <1>1 DEF Depths, Top
<1>7. ASSUME Runs(f) <=> Runs(Top(t)), Runs(f) => f.fn = Top(t).fn
      PROVE  Running' = Running
  <2>1. Depths(t)' = Depths(t)
    BY <1>5, <1>6, <1>7 DEF Depths
  <2>2. \A i \in Depths(t) : stack'[t][i].fn = stack[t][i].fn
    BY <1>2, <1>3, <1>4, <1>6, <1>7 DEF Depths, Top
  <2> QED BY <1>3, <2>1, <2>2, NothingRunsAnew
<1>8. ASSUME Runs(f), ~Runs(Top(t))
      PROVE  /\ This(t) \in Activation
             /\ This(t) \notin DOMAIN Running
             /\ Running' = [b \in DOMAIN Running \cup {This(t)} |->
                                IF b = This(t) THEN f.fn ELSE Running[b]]
  <2>1. d \notin Depths(t) /\ Depths(t)' = Depths(t) \cup {d}
    BY <1>1, <1>5, <1>6, <1>8 DEF Depths
  <2>2. \A i \in Depths(t) : stack'[t][i].fn = stack[t][i].fn
    BY <1>4, <2>1 DEF Depths
  <2>3. This(t) = <<t, d>> /\ stack'[t][d].fn = f.fn
    BY <1>2, <1>3 DEF This
  <2>4. d \in 1 .. MaxDepth
    BY <1>1
  <2> HIDE DEF d
  <2>5. /\ <<t, d>> \in Activation
        /\ <<t, d>> \notin DOMAIN Running
        /\ Running' = [b \in DOMAIN Running \cup {<<t, d>>} |->
                           IF b = <<t, d>> THEN stack'[t][d].fn ELSE Running[b]]
    BY <1>3, <2>1, <2>2, <2>4, OneRunsAnew
  <2> QED BY <2>3, <2>5
<1> QED BY <1>7, <1>8

\* Going on to a step adds or removes no callback if both steps run the one
\* that is in the frame, or none.
LEMMA StepExchanged ==
  ASSUME TypeOK, StackInv, NEW t \in Thread, stack[t] # << >>, NEW step \in Step,
         GoTo(t, step),
         \/ Pc(t) \notin {"run", "runlock"} /\ step \notin {"run", "runlock"}
         \/ Pc(t) = "runlock" /\ step = "run" /\ Top(t).fn # NoFn
  PROVE  Running' = Running
<1> DEFINE f == [Top(t) EXCEPT !.at = step]
<1>1. Top(t) \in Frame
  BY TopOfStack DEF TypeOK, Top
<1>2. f \in Frame /\ f.at = step /\ f.fn = Top(t).fn
  BY <1>1 DEF Frame, Step
<1>3. stack' = [stack EXCEPT ![t] = [stack[t] EXCEPT ![Len(stack[t])] = f]]
  BY DEF GoTo, Top
<1>4. Runs(f) <=> Runs(Top(t))
  BY <1>2 DEF Runs, Pc
<1> HIDE DEF f
<1> QED BY <1>2, <1>3, <1>4, TopExchanged

\* A new activation runs nothing yet.
LEMMA PushRunsNothing ==
  ASSUME TypeOK, StackInv, NEW t \in Thread, NEW f \in Frame, Push(t, f), ~Runs(f)
  PROVE  Running' = Running
<1> DEFINE q == stack[t]
           r == Append(q, f)
<1>1. q \in Seq(Frame) /\ Len(q) \in Nat /\ stack' = [stack EXCEPT ![t] = r]
  BY LenProperties DEF TypeOK, Push
<1>2. /\ r \in Seq(Frame)
      /\ Len(r) = Len(q) + 1
      /\ r[Len(q) + 1] = f
      /\ \A i \in 1 .. Len(q) : r[i] = q[i]
  BY <1>1, PushedStack
<1> HIDE DEF r
<1>3. OnlyStackOf(t) /\ stack'[t] = r
  BY <1>1, <1>2 DEF TypeOK, OnlyStackOf
<1>4. \A i \in 1 .. MaxDepth :
          /\ i <= Len(q) => r[i] = q[i]
          /\ i <= Len(q) + 1 /\ ~(i <= Len(q)) => r[i] = f
  BY <1>1, <1>2
<1>5. \A i \in 1 .. MaxDepth : i <= Len(q) => i <= Len(q) + 1
  BY <1>1
<1>6. Depths(t)' = Depths(t)
  BY <1>2, <1>3, <1>4, <1>5 DEF Depths
<1>7. \A i \in Depths(t) : stack'[t][i].fn = stack[t][i].fn
  BY <1>3, <1>4 DEF Depths
<1> QED BY <1>3, <1>6, <1>7, NothingRunsAnew

\* A return or a panic ends callbacks, if the activations it ends ran any.
LEMMA CutFinishes ==
  ASSUME TypeOK, StackInv, NEW t \in Thread, NEW n \in 0 .. Len(stack[t]) - 1,
         Cut(t, n)
  PROVE  \E as \in SUBSET DOMAIN Running :
            /\ Running' = [a \in DOMAIN Running \ as |-> Running[a]]
            /\ \A a \in as : \E i \in 1 .. MaxDepth :
                   a = <<t, i>> /\ i <= Len(stack[t]) /\ ~(i <= n) /\ Runs(stack[t][i])
<1> DEFINE q == stack[t]
           r == SubSeq(q, 1, n)
<1>1. /\ q \in Seq(Frame) /\ Len(q) \in Nat /\ n \in 0 .. Len(q) /\ n \in Nat
      /\ stack' = [stack EXCEPT ![t] = r]
  BY LenProperties DEF TypeOK, Cut
<1>2. /\ r \in Seq(Frame)
      /\ Len(r) = n
      /\ \A i \in 1 .. n : r[i] = q[i]
  BY <1>1, CutStack
<1> HIDE DEF r
<1>3. OnlyStackOf(t) /\ stack'[t] = r
  BY <1>1, <1>2 DEF TypeOK, OnlyStackOf
<1>4. \A i \in 1 .. MaxDepth : i <= n => r[i] = q[i] /\ i <= Len(q)
  BY <1>1, <1>2
<1>5. Depths(t)' = {i \in Depths(t) : i <= n}
  BY <1>2, <1>3, <1>4 DEF Depths
<1>6. \A i \in Depths(t)' : stack'[t][i].fn = stack[t][i].fn
  BY <1>2, <1>3, <1>4 DEF Depths
<1> DEFINE Ended == {a \in RunningActivations : a[1] = t /\ ~(a[2] <= n)}
<1>7. Running' = [a \in DOMAIN Running \ Ended |-> Running[a]]
  BY <1>1, <1>3, <1>5, <1>6, SomeRunNoMore
<1>8. Ended \in SUBSET DOMAIN Running
  BY DEF Running
<1>9. \A a \in Ended : \E i \in 1 .. MaxDepth :
          a = <<t, i>> /\ i <= Len(stack[t]) /\ ~(i <= n) /\ Runs(stack[t][i])
  BY DEF RunningActivations, Activation
<1> QED BY <1>7, <1>8, <1>9

\* So it is a step of CallbackSlot, or none.
LEMMA CutIsFinish ==
  ASSUME TypeOK, StackInv, NEW t \in Thread, NEW n \in 0 .. Len(stack[t]) - 1,
         Cut(t, n), UNCHANGED fn
  PROVE  [Slot!Next]_(Slot!vars)
<1>1. PICK as \in SUBSET DOMAIN Running :
          Running' = [a \in DOMAIN Running \ as |-> Running[a]]
  BY CutFinishes
<1>2. CASE as = {}
  <2>1. Running' = Running
    BY <1>1, <1>2 DEF Running
  <2> QED BY <2>1 DEF Slot!vars
<1>3. CASE as # {}
  BY <1>1, <1>3 DEF Slot!Next, Slot!Finish
<1> QED BY <1>2, <1>3

\* A frame that runs nothing ends without a trace.
LEMMA IdleEnds ==
  ASSUME TypeOK, StackInv, NEW t \in Thread, stack[t] # << >>, ~Runs(Top(t)), Pop(t)
  PROVE  Running' = Running
<1>1. /\ Len(stack[t]) - 1 \in 0 .. Len(stack[t]) - 1
      /\ Len(stack[t]) \in Nat
      /\ Cut(t, Len(stack[t]) - 1)
  BY TopOfStack DEF TypeOK, Pop
<1>2. PICK as \in SUBSET DOMAIN Running :
          /\ Running' = [a \in DOMAIN Running \ as |-> Running[a]]
          /\ \A a \in as : \E i \in 1 .. MaxDepth :
                 /\ a = <<t, i>> /\ i <= Len(stack[t]) /\ ~(i <= Len(stack[t]) - 1)
                 /\ Runs(stack[t][i])
  BY <1>1, CutFinishes
<1>3. \A i \in 1 .. MaxDepth :
          i <= Len(stack[t]) /\ ~(i <= Len(stack[t]) - 1) => i = Len(stack[t])
  BY <1>1
<1>4. as = {}
  BY <1>2, <1>3 DEF Top
<1> QED BY <1>2, <1>4 DEF Running

-----------------------------------------------------------------------------
(* The refinement.                                                         *)

LEMMA InitImplements == Init => Slot!Init
<1> SUFFICES ASSUME Init PROVE Slot!Init
  OBVIOUS
<1>1. \A t \in Thread : Len(stack[t]) = 0
  BY EmptySeq DEF Init
<1>2. RunningActivations = {}
  <2>1. \A a \in Activation : a[1] \in Thread /\ a[2] \in 1 .. MaxDepth
    BY DEF Activation
  <2> QED BY <1>1, <2>1 DEF RunningActivations
<1> QED BY <1>2 DEF Init, Slot!Init, Running

\* Storing is registering.
LEMMA StoreIsRegister ==
  ASSUME TypeOK, StackInv, NEW t \in Thread, Store(t)
  PROVE  Slot!Next
<1>1. stack[t] # << >> /\ Pc(t) = "store" /\ GoTo(t, "unlock")
  BY PcIsAt DEF Store, Step, RegisterStep
<1>2. Running' = Running
  BY <1>1, StepExchanged DEF Step, RegisterStep
<1>3. Top(t).fn \in Callback \cup {NoFn}
  BY <1>1, TopOfStack DEF TypeOK, Top, Frame
<1>4. Slot!Register(Top(t).fn)
  BY <1>2 DEF Store, Slot!Register
<1> QED BY <1>3, <1>4 DEF Slot!Next

\* Copying a callback is running it, and copying none is nothing.
LEMMA ReadIsRun ==
  ASSUME TypeOK, StackInv, NEW t \in Thread, Read(t)
  PROVE  [Slot!Next]_(Slot!vars)
<1> DEFINE f == [Top(t) EXCEPT !.at = "runlock", !.fn = fn]
<1>1. stack[t] # << >> /\ Pc(t) = "read"
  BY PcIsAt DEF Read, Step, FireStep
<1>2. Top(t) \in Frame /\ ~Runs(Top(t))
  BY <1>1, TopOfStack DEF TypeOK, Top, Pc, Runs
<1>3. f \in Frame /\ f.at = "runlock" /\ f.fn = fn
  BY <1>2 DEF TypeOK, Frame, FireStep
<1>4. stack' = [stack EXCEPT ![t] = [stack[t] EXCEPT ![Len(stack[t])] = f]]
  BY <1>2 DEF Read, Top, TypeOK, Frame
<1> HIDE DEF f
<1>5. UNCHANGED fn
  BY DEF Read
<1>6. CASE fn = NoFn
  <2>1. ~Runs(f)
    BY <1>3, <1>6 DEF Runs
  <2>2. Running' = Running
    BY <1>1, <1>2, <1>3, <1>4, <2>1, TopExchanged
  <2> QED BY <1>5, <2>2 DEF Slot!vars
<1>7. CASE fn # NoFn
  <2>1. Runs(f)
    BY <1>3, <1>7 DEF Runs
  <2>2. /\ This(t) \in Activation
        /\ This(t) \notin DOMAIN Running
        /\ Running' = [b \in DOMAIN Running \cup {This(t)} |->
                           IF b = This(t) THEN fn ELSE Running[b]]
    BY <1>1, <1>2, <1>3, <1>4, <2>1, TopExchanged
  <2>3. Slot!Run(This(t))
    BY <1>5, <1>7, <2>2 DEF Slot!Run
  <2> QED BY <2>2, <2>3 DEF Slot!Next
<1> QED BY <1>6, <1>7

LEMMA StepImplements ==
  ASSUME RegistryInv, [Next]_vars
  PROVE  [Slot!Next]_(Slot!vars)
<1>1. TypeOK /\ StackInv
  BY InvInParts
<1>2. CASE UNCHANGED vars
  BY <1>2 DEF vars, Slot!vars, Running, RunningActivations
<1>3. ASSUME NEW t \in Thread,
             \/ \E r \in Receiver, cb \in Callback \cup {NoFn} : CallRegister(t, r, cb)
             \/ \E r \in Receiver : Fire(t, r)
      PROVE  [Slot!Next]_(Slot!vars)
  <2>1. PICK f \in Frame : Push(t, f) /\ ~Runs(f)
    <3>1. ASSUME NEW r \in Receiver, NEW cb \in Callback \cup {NoFn}, NEW step,
                 step \in {"lock", "rlock"}, Push(t, [at |-> step, receiver |-> r, fn |-> cb])
          PROVE  \E f \in Frame : Push(t, f) /\ ~Runs(f)
      <4> DEFINE f == [at |-> step, receiver |-> r, fn |-> cb]
      <4>1. f \in Frame /\ ~Runs(f)
        BY <3>1 DEF Frame, RegisterStep, FireStep, Runs
      <4> QED BY <3>1, <4>1
    <3> QED BY <1>3, <3>1 DEF CallRegister, Fire
  <2>2. Running' = Running /\ UNCHANGED fn
    BY <1>1, <1>3, <2>1, PushRunsNothing DEF CallRegister, Fire
  <2> QED BY <2>2 DEF Slot!vars
<1>4. ASSUME NEW t \in Thread,
             \/ BeginLock(t) \/ EndLock(t) \/ EndStore(t) \/ CallBridge(t)
             \/ BeginRead(t) \/ WakeUp(t)
      PROVE  [Slot!Next]_(Slot!vars)
  <2>1. PICK step \in Step \ {"run", "runlock"} : GoTo(t, step)
    BY <1>4 DEF BeginLock, EndLock, EndStore, CallBridge, BeginRead, WakeUp,
                Step, RegisterStep, FireStep
  <2>2. stack[t] # << >> /\ Pc(t) \notin {"run", "runlock"}
    BY <1>4 DEF BeginLock, EndLock, EndStore, CallBridge, BeginRead, WakeUp, At, Pc
  <2>3. Running' = Running /\ UNCHANGED fn
    BY <1>1, <1>4, <2>1, <2>2, StepExchanged
       DEF BeginLock, EndLock, EndStore, CallBridge, BeginRead, WakeUp
  <2> QED BY <2>3 DEF Slot!vars
<1>5. ASSUME NEW t \in Thread, EndRead(t)
      PROVE  [Slot!Next]_(Slot!vars)
  <2>1. stack[t] # << >> /\ Pc(t) = "runlock" /\ Top(t).at = "runlock"
    BY <1>5 DEF EndRead, At, Pc
  <2>2. CASE Top(t).fn = NoFn /\ Pop(t)
    BY <1>1, <1>5, <2>1, <2>2, IdleEnds DEF EndRead, Runs, Slot!vars
  <2>3. CASE Top(t).fn # NoFn /\ GoTo(t, "run")
    BY <1>1, <1>5, <2>1, <2>3, StepExchanged DEF EndRead, Step, FireStep, Slot!vars
  <2> QED BY <1>5, <2>2, <2>3 DEF EndRead, TestCopy
<1>6. ASSUME NEW t \in Thread, ReturnFromNative(t) \/ CallbackReturns(t)
      PROVE  [Slot!Next]_(Slot!vars)
  <2>1. stack[t] # << >>
    BY <1>6 DEF ReturnFromNative, CallbackReturns, At
  <2>2. Len(stack[t]) - 1 \in 0 .. Len(stack[t]) - 1
    BY <1>1, <2>1, TopOfStack DEF TypeOK
  <2> QED BY <1>1, <1>6, <2>2, CutIsFinish DEF ReturnFromNative, CallbackReturns, Pop
<1>7. ASSUME NEW t \in Thread, NEW depth \in 0 .. MaxDepth, Panic(t, depth)
      PROVE  [Slot!Next]_(Slot!vars)
  <2>1. Len(stack[t]) \in Nat /\ depth \in Nat /\ depth < Len(stack[t])
    BY <1>1, <1>7, LenProperties, CallbackAssumption DEF TypeOK, Panic
  <2>2. depth \in 0 .. Len(stack[t]) - 1
    BY <2>1
  <2> QED BY <1>1, <1>7, <2>2, CutIsFinish DEF Panic
<1> QED BY <1>1, <1>2, <1>3, <1>4, <1>5, <1>6, <1>7, StoreIsRegister, ReadIsRun
      DEF Next, Continue

\* The generated bridge is an atomic variable to those who register and fire:
\* a firing runs the callback that the registry holds at one instant of the
\* firing, and nothing if it holds none.
THEOREM Implements == Spec => ActsAsSlot
<1>1. Init => Slot!Init
  BY InitImplements
<1>2. RegistryInv /\ [Next]_vars => [Slot!Next]_(Slot!vars)
  BY StepImplements
<1> QED BY <1>1, <1>2, Invariant, PTL DEF Spec, ActsAsSlot, Slot!Spec
=============================================================================
