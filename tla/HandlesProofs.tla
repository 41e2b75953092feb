--------------------------- MODULE HandlesProofs ---------------------------
(***************************************************************************)
(* Proofs about the wrappers of module Handles, for any number of          *)
(* wrappers, objects and nested calls.                                     *)
(***************************************************************************)
EXTENDS HandlesOwnership, SequenceTheorems, TLAPS

-----------------------------------------------------------------------------
(* How the stack changes.                                                  *)

\* A frame pushed on the stack leaves the ones below where they are.
LEMMA PushedStack ==
  ASSUME stack \in Seq(Frame), NEW f \in Frame
  PROVE  /\ Append(stack, f) \in Seq(Frame)
         /\ Len(Append(stack, f)) = Len(stack) + 1
         /\ DOMAIN Append(stack, f) = 1 .. Len(stack) + 1
         /\ Append(stack, f)[Len(stack) + 1] = f
         /\ \A i \in 1 .. Len(stack) : Append(stack, f)[i] = stack[i]
BY AppendProperties, LenProperties

\* The stack a return or a panic leaves is a prefix of the one it found.
LEMMA CutStack ==
  ASSUME stack \in Seq(Frame), NEW n \in 0 .. Len(stack)
  PROVE  /\ SubSeq(stack, 1, n) \in Seq(Frame)
         /\ Len(SubSeq(stack, 1, n)) = n
         /\ DOMAIN SubSeq(stack, 1, n) = 1 .. n
         /\ \A i \in 1 .. n : SubSeq(stack, 1, n)[i] = stack[i]
<1>1. \A i \in 1 .. n : stack[i] \in Frame
  BY ElementOfSeq, LenProperties
<1>2. /\ SubSeq(stack, 1, n) \in Seq(Frame)
      /\ Len(SubSeq(stack, 1, n)) = IF 1 <= n THEN n - 1 + 1 ELSE 0
      /\ \A i \in 1 .. n - 1 + 1 : SubSeq(stack, 1, n)[i] = stack[1 + i - 1]
  BY <1>1, SubSeqProperties, LenProperties
<1>3. n - 1 + 1 = n /\ \A i \in 1 .. n : 1 + i - 1 = i
  BY LenProperties
<1>4. Len(SubSeq(stack, 1, n)) = n
  BY <1>2, LenProperties
<1> QED BY <1>2, <1>3, <1>4, LenProperties

\* The top of a stack that is not empty is a frame of it.
LEMMA TopFrame ==
  ASSUME stack \in Seq(Frame), stack # << >>
  PROVE  /\ Len(stack) \in Nat \ {0}
         /\ Len(stack) \in DOMAIN stack
         /\ Top \in Frame
BY EmptySeq, LenProperties, ElementOfSeq DEF Top

\* Returning drops exactly the top frame.
LEMMA PoppedStack ==
  ASSUME stack \in Seq(Frame), stack # << >>
  PROVE  /\ Popped \in Seq(Frame)
         /\ Len(Popped) = Len(stack) - 1
         /\ DOMAIN Popped = 1 .. Len(stack) - 1
         /\ \A i \in 1 .. Len(stack) - 1 : Popped[i] = stack[i]
<1>1. Len(stack) - 1 \in 0 .. Len(stack)
  BY TopFrame
<1> QED BY <1>1, CutStack DEF Popped

\* A callback that begins or ends only changes inGo of the top frame.
LEMMA SwitchedStack ==
  ASSUME stack \in Seq(Frame), stack # << >>, NEW b \in BOOLEAN,
         NEW t, t = [stack EXCEPT ![Len(stack)].inGo = b]
  PROVE  /\ t \in Seq(Frame)
         /\ Len(t) = Len(stack)
         /\ DOMAIN t = DOMAIN stack
         /\ \A i \in DOMAIN stack : /\ t[i].op = stack[i].op
                                    /\ t[i].self = stack[i].self
                                    /\ t[i].root = stack[i].root
                                    /\ t[i].used = stack[i].used
<1> DEFINE f == [Top EXCEPT !.inGo = b]
<1>1. Top \in Frame /\ Len(stack) \in 1 .. Len(stack)
  BY TopFrame
<1>2. f \in Frame /\ f.op = Top.op /\ f.self = Top.self /\ f.root = Top.root
                  /\ f.used = Top.used
  BY <1>1 DEF Frame, FrameFields
<1>3. t = [stack EXCEPT ![Len(stack)] = f]
  BY DEF Top
<1>4. /\ t \in Seq(Frame)
      /\ Len(t) = Len(stack)
      /\ \A j \in 1 .. Len(stack) : t[j] = IF j = Len(stack) THEN f ELSE stack[j]
  BY <1>1, <1>2, <1>3, ExceptSeq
<1>5. DOMAIN t = 1 .. Len(t) /\ DOMAIN stack = 1 .. Len(stack)
  BY <1>4, LenProperties
<1> HIDE DEF f
<1> QED BY <1>2, <1>4, <1>5 DEF Top

-----------------------------------------------------------------------------
(* Types.                                                                  *)

\* What a wrapper vouches for is a set of allocations.
LEMMA UsedAreAllocations ==
  ASSUME TypeOK, NEW args \in SUBSET Handle
  PROVE  UsedBy(args) \in SUBSET Allocation
BY WithinAssumption, SentinelAssumption DEF UsedBy, Vouched, TypeOK, Allocation

\* Entering native code keeps the stack a sequence of frames.
LEMMA EnterTypes ==
  ASSUME TypeOK, NEW args \in SUBSET Handle,
         NEW inherited \in Handle \cup {NoHandle, NilParam},
         Enter(args, inherited)
  PROVE  TypeOK'
<1> DEFINE f == [op |-> "call", self |-> NoHandle, root |-> inherited,
                 used |-> UsedBy(args), inGo |-> FALSE]
<1>1. f \in Frame
  BY UsedAreAllocations DEF Frame, FrameFields
<1>2. stack' = Append(stack, f)
  BY DEF Enter
<1> HIDE DEF f
<1>3. stack' \in Seq(Frame)
  BY <1>1, <1>2, PushedStack DEF TypeOK
<1> QED BY <1>3 DEF TypeOK, Enter, Frame, FrameFields, Allocation

\* Allocating a wrapper keeps the types of its fields.
LEMMA WrapperTypes ==
  ASSUME TypeOK, NEW h \in Handle, NEW o \in Object, NEW b \in BOOLEAN,
         NEW r \in Handle \cup {NoHandle}, NewWrapper(h, o, b, r)
  PROVE  /\ made' \in SUBSET Handle
         /\ ptr' \in [Handle -> Object \cup {NoObject}]
         /\ owned' \in [Handle -> BOOLEAN]
         /\ root' \in [Handle -> Handle \cup {NoHandle}]
BY DEF TypeOK, NewWrapper

\* A return keeps the stack a sequence of frames.
LEMMA LeaveTypes ==
  ASSUME TypeOK, stack # << >>, Leave
  PROVE  stack' \in Seq(Frame)
BY PoppedStack DEF TypeOK, Leave

\* Every step keeps every variable in its type.
LEMMA NextTypes ==
  ASSUME TypeOK, [Next]_vars
  PROVE  TypeOK'
<1>1. CASE UNCHANGED vars
  BY <1>1 DEF TypeOK, vars, Frame, FrameFields, Allocation
<1>2. ASSUME NEW h \in Handle, NEW args \in SUBSET Handle, CallMethod(h, args)
      PROVE  TypeOK'
  <2>1. args \cup {h} \in SUBSET Handle /\ root[h] \in Handle \cup {NoHandle, NilParam}
    BY DEF TypeOK
  <2>2. Enter(args \cup {h}, root[h])
    BY <1>2 DEF CallMethod
  <2> QED BY <2>1, <2>2, EnterTypes
<1>3. ASSUME NEW args \in SUBSET Handle, CallFree(args)
      PROVE  TypeOK'
  <2>1. CASE Enter(args, NoHandle) \/ Enter(args, NilParam)
    BY <2>1, EnterTypes
  <2>2. ASSUME NEW a \in args, Enter(args, root[a])
        PROVE  TypeOK'
    <3>1. root[a] \in Handle \cup {NoHandle, NilParam}
      BY DEF TypeOK
    <3> QED BY <2>2, <3>1, EnterTypes
  <2> QED BY <1>3, <2>1, <2>2 DEF CallFree
<1>4. ASSUME NEW h \in Handle, BeginClose(h)
      PROVE  TypeOK'
  <2> DEFINE f == [op |-> "close", self |-> h, root |-> NoHandle,
                   used |-> {}, inGo |-> FALSE]
  <2>1. f \in Frame
    BY DEF Frame, FrameFields
  <2>2. stack' = Append(stack, f)
    BY <1>4 DEF BeginClose
  <2> HIDE DEF f
  <2>3. stack' \in Seq(Frame)
    BY <2>1, <2>2, PushedStack DEF TypeOK
  <2> QED BY <1>4, <2>3 DEF TypeOK, BeginClose, CloseRoot, Frame, FrameFields, Allocation
<1>5. CASE ReturnNothing
  <2>1. stack' \in Seq(Frame)
    BY <1>5, LeaveTypes DEF ReturnNothing, NativeRuns
  <2> QED BY <1>5, <2>1 DEF TypeOK, ReturnNothing, Frame, FrameFields, Allocation
<1>6. ASSUME NEW h \in Handle, NEW o \in Object, ReturnBorrowed(h, o)
      PROVE  TypeOK'
  <2>1. stack' \in Seq(Frame) /\ Top \in Frame
    BY <1>6, LeaveTypes, TopFrame DEF ReturnBorrowed, NativeRuns, TypeOK
  <2>2. Top.root \in Handle \cup {NoHandle}
    BY <1>6, <2>1 DEF ReturnBorrowed, ResultHasRoot, Frame, FrameFields
  <2>3. NewWrapper(h, o, FALSE, Top.root)
    BY <1>6 DEF ReturnBorrowed
  <2>4. /\ made' \in SUBSET Handle
        /\ ptr' \in [Handle -> Object \cup {NoObject}]
        /\ owned' \in [Handle -> BOOLEAN]
        /\ root' \in [Handle -> Handle \cup {NoHandle}]
    BY <2>2, <2>3, WrapperTypes
  <2> QED BY <1>6, <2>1, <2>4 DEF TypeOK, ReturnBorrowed, Frame, FrameFields, Allocation
<1>7. ASSUME NEW h \in Handle, NEW o \in Object, ReturnUnrooted(h, o)
      PROVE  TypeOK'
  <2>1. stack' \in Seq(Frame)
    BY <1>7, LeaveTypes DEF ReturnUnrooted, NativeRuns
  <2>2. NewWrapper(h, o, FALSE, NoHandle)
    BY <1>7 DEF ReturnUnrooted
  <2>3. /\ made' \in SUBSET Handle
        /\ ptr' \in [Handle -> Object \cup {NoObject}]
        /\ owned' \in [Handle -> BOOLEAN]
        /\ root' \in [Handle -> Handle \cup {NoHandle}]
    BY <2>2, WrapperTypes
  <2> QED BY <1>7, <2>1, <2>3 DEF TypeOK, ReturnUnrooted, Frame, FrameFields, Allocation
<1>8. ASSUME NEW h \in Handle, NEW o \in Object, ReturnOwned(h, o)
      PROVE  TypeOK'
  <2>1. stack' \in Seq(Frame)
    BY <1>8, LeaveTypes DEF ReturnOwned, NativeRuns
  <2>2. NewWrapper(h, o, TRUE, h)
    BY <1>8 DEF ReturnOwned, OwnerRoot
  <2>3. /\ made' \in SUBSET Handle
        /\ ptr' \in [Handle -> Object \cup {NoObject}]
        /\ owned' \in [Handle -> BOOLEAN]
        /\ root' \in [Handle -> Handle \cup {NoHandle}]
    BY <2>2, WrapperTypes
  <2> QED BY <1>8, <2>1, <2>3 DEF TypeOK, ReturnOwned, Frame, FrameFields, Allocation
<1>9. CASE EndClose
  <2>1. stack' \in Seq(Frame)
    BY <1>9, LeaveTypes DEF EndClose, NativeRuns
  <2> QED BY <1>9, <2>1 DEF TypeOK, EndClose, ClearPtr, Frame, FrameFields, Allocation
<1>10. ASSUME NEW b \in BOOLEAN, stack # << >>, SetTopInGo(b)
       PROVE  TypeOK'
  <2>1. stack' \in Seq(Frame)
    BY <1>10, SwitchedStack DEF SetTopInGo, TypeOK
  <2> QED BY <1>10, <2>1 DEF TypeOK, SetTopInGo, Frame, FrameFields, Allocation
<1>11. ASSUME NEW depth \in 0 .. MaxDepth, Unwind(depth)
       PROVE  TypeOK'
  <2>1. depth \in 0 .. Len(stack)
    BY <1>11, TopFrame, ParameterAssumption DEF Unwind, TypeOK
  <2>2. stack' \in Seq(Frame)
    BY <1>11, <2>1, CutStack DEF Unwind, TypeOK
  <2>3. \A i \in DOMAIN stack : stack[i] \in Frame
    BY ElementOfSeq, LenProperties DEF TypeOK
  <2>4. abandoned' \in SUBSET Handle
    BY <1>11, <2>3, LenProperties DEF Unwind, TypeOK, Frame, FrameFields
  <2> QED BY <1>11, <2>2, <2>4 DEF TypeOK, Unwind, Frame, FrameFields, Allocation
<1> QED
  BY <1>1, <1>2, <1>3, <1>4, <1>5, <1>6, <1>7, <1>8, <1>9, <1>10, <1>11
  DEF Next, GoCalls, NativeSteps, CallbackBegins, CallbackReturns, NativeRuns

\* The variables of the wrappers keep their types.
THEOREM TypeCorrect == Spec => []TypeOK
<1>1. Init => TypeOK
  BY EmptySeq DEF Init, TypeOK
<1> QED BY <1>1, NextTypes, PTL DEF Spec

-----------------------------------------------------------------------------
(* The inductive invariant.                                                *)

\* A step that touches no wrapper keeps what is said of wrappers alone.
LEMMA SameWrappers ==
  ASSUME WrapperInv, UNCHANGED <<made, ptr, owned, root, closed, life, owns>>
  PROVE  WrapperShape' /\ SoleOwner' /\ RootTellsLife' /\ NilPtrIsClosed'
BY DEF WrapperInv, WrapperShape, SoleOwner, RootTellsLife, NilPtrIsClosed, RootClosed, Allocation

\* Entering a call keeps the invariant.
LEMMA EnterKeepsIInv ==
  ASSUME WrapperInv, TypeOK', NEW args \in SUBSET Handle,
         NEW inherited \in Handle \cup {NoHandle, NilParam},
         inherited \in Handle => inherited \in made /\ owned[inherited],
         Enter(args, inherited)
  PROVE  WrapperInv'
<1> DEFINE f == [op |-> "call", self |-> NoHandle, root |-> inherited,
                 used |-> UsedBy(args), inGo |-> FALSE]
<1>1. f \in Frame /\ f.op = "call" /\ f.root = inherited
  BY UsedAreAllocations DEF Frame, FrameFields, WrapperInv
<1>2. stack' = Append(stack, f)
  BY DEF Enter
<1> HIDE DEF f
<1>3. /\ DOMAIN stack' = 1 .. Len(stack) + 1
      /\ DOMAIN stack = 1 .. Len(stack)
      /\ stack'[Len(stack) + 1] = f
      /\ \A i \in 1 .. Len(stack) : stack'[i] = stack[i]
      /\ Len(stack) \in Nat
  BY <1>1, <1>2, PushedStack, LenProperties DEF WrapperInv, TypeOK
<1>4. FrameShape'
  BY <1>1, <1>3 DEF WrapperInv, FrameShape, Enter
<1>5. UnfinishedClose'
  BY <1>3 DEF WrapperInv, UnfinishedClose, Closing, Enter
<1>6. WrapperShape' /\ SoleOwner' /\ RootTellsLife' /\ NilPtrIsClosed'
  BY SameWrappers DEF Enter
<1> QED BY <1>4, <1>5, <1>6 DEF WrapperInv

\* The prefix of the stack that a return leaves.
LEMMA LeftStack ==
  ASSUME WrapperInv, stack # << >>, Leave
  PROVE  /\ Len(stack) \in Nat \ {0}
         /\ DOMAIN stack = 1 .. Len(stack)
         /\ DOMAIN stack' = 1 .. Len(stack) - 1
         /\ \A i \in 1 .. Len(stack) - 1 : stack'[i] = stack[i]
BY PoppedStack, TopFrame, LenProperties DEF WrapperInv, TypeOK, Leave

\* A call that returns is not a Close, so every Close is still on the stack.
LEMMA CallLeaves ==
  ASSUME WrapperInv, NativeRuns("call"), Leave, NEW h, Closing(h)
  PROVE  Closing(h)'
<1>1. PICK i \in DOMAIN stack : stack[i].op = "close" /\ stack[i].self = h
  BY DEF Closing
<1>2. i # Len(stack)
  BY <1>1 DEF NativeRuns, Top
<1> QED BY <1>1, <1>2, LeftStack DEF Closing, NativeRuns

\* A borrowed wrapper inherits the root of an owner, or none.
LEMMA BorrowKeepsIInv ==
  ASSUME WrapperInv, TypeOK', NativeRuns("call"), Leave,
         NEW h \in Handle, NEW o \in Object, NEW r \in made \cup {NoHandle},
         r # NoHandle => owned[r],
         NewWrapper(h, o, FALSE, r), UNCHANGED <<closed, life, owns, abandoned>>
  PROVE  WrapperInv'
<1>1. /\ made' = made \cup {h} /\ h \notin made
      /\ \A g \in made : /\ ptr'[g] = ptr[g]
                          /\ owned'[g] = owned[g]
                          /\ root'[g] = root[g]
      /\ ptr'[h] = o /\ owned'[h] = FALSE /\ root'[h] = r
      /\ made \subseteq Handle
  BY DEF NewWrapper, WrapperInv, TypeOK
<1>2. NoObject \notin Object /\ NoHandle \notin Handle
  BY SentinelAssumption
<1>3. WrapperShape'
  BY <1>1, <1>2 DEF WrapperInv, WrapperShape, Allocation
<1>4. SoleOwner'
  BY <1>1 DEF WrapperInv, SoleOwner
<1>5. RootTellsLife'
  BY <1>1 DEF WrapperInv, RootTellsLife, RootClosed
<1>6. NilPtrIsClosed'
  BY <1>1, <1>2 DEF WrapperInv, NilPtrIsClosed, RootClosed
<1>7. FrameShape'
  BY <1>1, LeftStack DEF WrapperInv, FrameShape, NativeRuns
<1>8. UnfinishedClose'
  BY <1>1, CallLeaves DEF WrapperInv, UnfinishedClose
<1> QED BY <1>3, <1>4, <1>5, <1>6, <1>7, <1>8 DEF WrapperInv

\* The object a new owner is given belongs to no other owner.
LEMMA OwnerKeepsIInv ==
  ASSUME WrapperInv, TypeOK', NEW h \in Handle, NEW o \in Object, ReturnOwned(h, o)
  PROVE  WrapperInv'
<1>1. /\ made' = made \cup {h} /\ h \notin made /\ made \subseteq Handle
      /\ \A g \in made : /\ ptr'[g] = ptr[g]
                          /\ owned'[g] = owned[g]
                          /\ root'[g] = root[g]
                          /\ closed'[g] = closed[g]
                          /\ owns'[g] = owns[g]
      /\ ptr'[h] = o /\ owned'[h] = TRUE /\ root'[h] = h
      /\ closed'[h] = FALSE /\ owns'[h] = o
  BY DEF ReturnOwned, NewWrapper, OwnerRoot, WrapperInv, TypeOK
<1>2. /\ o \in Allocation /\ life' = [life EXCEPT ![o] = "alive"]
      /\ life[o] \in {"absent", "alive"}
      /\ abandoned' = abandoned
      /\ NativeRuns("call") /\ Leave
      /\ NoObject \notin Object /\ NoHandle \notin Handle
  BY SentinelAssumption DEF ReturnOwned
<1>3. ASSUME NEW g \in made, owned[g]
      PROVE  owns[g] \in Allocation /\ owns[g] # o
  BY <1>3 DEF WrapperInv, WrapperShape, ReturnOwned
<1>4. /\ life'[o] = "alive"
      /\ \A a \in Allocation \ {o} : life'[a] = life[a]
  BY <1>2 DEF WrapperInv, TypeOK
<1>5. WrapperShape'
  BY <1>1, <1>2, <1>3, <1>4 DEF WrapperInv, WrapperShape, Allocation
<1>6. SoleOwner'
  BY <1>1, <1>3 DEF WrapperInv, SoleOwner
<1>7. \A g \in made : RootClosed(g)' = RootClosed(g)
  BY <1>1 DEF WrapperInv, WrapperShape, RootClosed
<1>8. RootTellsLife'
  <2>1. ASSUME NEW g \in made, owned[g]
        PROVE  (RootClosed(g) <=> life[owns[g]] # "alive")'
    BY <1>1, <1>3, <1>4, <1>7, <2>1 DEF WrapperInv, RootTellsLife
  <2>2. (RootClosed(h) <=> life[owns[h]] # "alive")'
    BY <1>1, <1>4 DEF RootClosed
  <2> QED BY <1>1, <2>1, <2>2 DEF RootTellsLife
<1>9. NilPtrIsClosed'
  BY <1>1, <1>2, <1>7 DEF WrapperInv, NilPtrIsClosed
<1>10. FrameShape'
  BY <1>1, <1>2, LeftStack DEF WrapperInv, FrameShape, NativeRuns
<1>11. UnfinishedClose'
  BY <1>1, <1>2, CallLeaves DEF WrapperInv, UnfinishedClose
<1> QED BY <1>5, <1>6, <1>8, <1>9, <1>10, <1>11 DEF WrapperInv

\* Close sets the root of its own object before the destructor runs.
LEMMA BeginCloseKeepsIInv ==
  ASSUME WrapperInv, TypeOK', NEW h \in Handle, BeginClose(h)
  PROVE  WrapperInv'
<1> DEFINE f == [op |-> "close", self |-> h, root |-> NoHandle,
                 used |-> {}, inGo |-> FALSE]
<1>1. f \in Frame /\ f.op = "close" /\ f.self = h /\ f.root = NoHandle
  BY DEF Frame, FrameFields
<1>2. stack' = Append(stack, f)
  BY DEF BeginClose
<1> HIDE DEF f
<1>3. /\ DOMAIN stack' = 1 .. Len(stack) + 1
      /\ DOMAIN stack = 1 .. Len(stack)
      /\ stack'[Len(stack) + 1] = f
      /\ \A i \in 1 .. Len(stack) : stack'[i] = stack[i]
      /\ Len(stack) \in Nat
  BY <1>1, <1>2, PushedStack, LenProperties DEF WrapperInv, TypeOK
<1>4. /\ h \in made /\ owned[h] /\ root[h] = h /\ ptr[h] = owns[h]
      /\ owns[h] \in Allocation /\ h # NoHandle
  BY SentinelAssumption DEF BeginClose, ClosePasses, WrapperInv, WrapperShape
<1>5. /\ closed'[h] = TRUE
      /\ \A g \in Handle \ {h} : closed'[g] = closed[g]
      /\ life'[owns[h]] = "dying"
      /\ \A a \in Allocation \ {owns[h]} : life'[a] = life[a]
      /\ UNCHANGED <<made, ptr, owned, root, owns, abandoned>>
      /\ made \subseteq Handle
  BY <1>4 DEF BeginClose, CloseRoot, WrapperInv, TypeOK
<1>6. \A g \in made : owned[g] => root[g] = g /\ owns[g] \in Allocation
  BY DEF WrapperInv, WrapperShape
<1>7. \A g \in made : owned[g] /\ g # h => owns[g] # owns[h]
  BY <1>4 DEF WrapperInv, SoleOwner
<1>8. WrapperShape'
  BY <1>4, <1>5, <1>6, <1>7 DEF WrapperInv, WrapperShape, Allocation
<1>9. SoleOwner'
  BY <1>5 DEF WrapperInv, SoleOwner
<1>10. RootTellsLife'
  <2>1. ASSUME NEW g \in made, owned[g], g # h
        PROVE  (RootClosed(g) <=> life[owns[g]] # "alive")'
    BY <1>5, <1>6, <1>7, <2>1 DEF WrapperInv, RootTellsLife, RootClosed
  <2>2. (RootClosed(h) <=> life[owns[h]] # "alive")'
    BY <1>4, <1>5 DEF RootClosed
  <2> QED BY <1>5, <2>1, <2>2 DEF RootTellsLife
<1>11. NilPtrIsClosed'
  BY <1>5, <1>6 DEF WrapperInv, NilPtrIsClosed, RootClosed
<1>12. FrameShape'
  <2>1. ASSUME NEW i \in 1 .. Len(stack), stack[i].op = "close"
        PROVE  stack[i].self \in made /\ owned[stack[i].self] /\ closed'[stack[i].self]
    BY <1>3, <1>5, <2>1 DEF WrapperInv, FrameShape
  <2> QED BY SentinelAssumption, <1>1, <1>3, <1>4, <1>5, <2>1 DEF WrapperInv, FrameShape
<1>13. UnfinishedClose'
  <2>1. Closing(h)'
    BY <1>1, <1>3 DEF Closing
  <2>2. \A g : Closing(g) => Closing(g)'
    BY <1>3 DEF Closing
  <2> QED BY <1>5, <2>1, <2>2 DEF WrapperInv, UnfinishedClose
<1> QED BY <1>8, <1>9, <1>10, <1>11, <1>12, <1>13 DEF WrapperInv

\* Close ends by clearing the pointer of a wrapper whose root is closed.
LEMMA EndCloseKeepsIInv ==
  ASSUME WrapperInv, TypeOK', EndClose
  PROVE  WrapperInv'
<1>0. PICK h \in Handle : h = Top.self
  BY TopFrame DEF EndClose, NativeRuns, WrapperInv, TypeOK, Frame, FrameFields
<1>1. /\ h \in made /\ owned[h] /\ closed[h] /\ root[h] = h
      /\ owns[h] \in Allocation /\ h # NoHandle
  BY <1>0, SentinelAssumption, TopFrame
  DEF EndClose, NativeRuns, WrapperInv, TypeOK, FrameShape, WrapperShape, Top
<1>2. /\ ptr'[h] = NoObject
      /\ \A g \in Handle \ {h} : ptr'[g] = ptr[g]
      /\ life'[owns[h]] = "dead"
      /\ \A a \in Allocation \ {owns[h]} : life'[a] = life[a]
      /\ UNCHANGED <<made, owned, root, closed, owns, abandoned>>
      /\ made \subseteq Handle /\ Leave /\ stack # << >>
  BY <1>0, <1>1 DEF EndClose, ClearPtr, NativeRuns, WrapperInv, TypeOK
<1>3. h = stack[Len(stack)].self
  BY <1>0 DEF Top
<1>4. \A g \in made : owned[g] /\ g # h => owns[g] # owns[h]
  BY <1>1 DEF WrapperInv, SoleOwner
<1>5. WrapperShape'
  BY <1>1, <1>2, <1>4 DEF WrapperInv, WrapperShape, Allocation
<1>6. SoleOwner'
  BY <1>2 DEF WrapperInv, SoleOwner
<1>7. RootTellsLife'
  <2>1. ASSUME NEW g \in made, owned[g], g # h
        PROVE  (RootClosed(g) <=> life[owns[g]] # "alive")'
    BY <1>2, <1>4, <2>1 DEF WrapperInv, RootTellsLife, RootClosed, WrapperShape
  <2>2. (RootClosed(h) <=> life[owns[h]] # "alive")'
    BY <1>1, <1>2 DEF RootClosed
  <2> QED BY <1>2, <2>1, <2>2 DEF RootTellsLife
<1>8. NilPtrIsClosed'
  BY <1>1, <1>2 DEF WrapperInv, NilPtrIsClosed, RootClosed
<1>9. FrameShape'
  BY <1>2, LeftStack DEF WrapperInv, FrameShape
<1>10. UnfinishedClose'
  <2>1. ASSUME NEW g \in made, g # h, Closing(g)
        PROVE  Closing(g)'
    <3>1. PICK i \in DOMAIN stack : stack[i].op = "close" /\ stack[i].self = g
      BY <2>1 DEF Closing
    <3>2. i # Len(stack)
      BY <1>3, <2>1, <3>1
    <3> QED BY <1>2, <3>1, <3>2, LeftStack DEF Closing
  <2> QED BY <1>2, <2>1 DEF WrapperInv, UnfinishedClose
<1> QED BY <1>5, <1>6, <1>7, <1>8, <1>9, <1>10 DEF WrapperInv

\* A callback that begins or ends changes none of the facts about frames.
LEMMA SwitchKeepsIInv ==
  ASSUME WrapperInv, TypeOK', stack # << >>, NEW b \in BOOLEAN, SetTopInGo(b)
  PROVE  WrapperInv'
<1>1. /\ DOMAIN stack' = DOMAIN stack
      /\ \A i \in DOMAIN stack : /\ stack'[i].op = stack[i].op
                                 /\ stack'[i].self = stack[i].self
                                 /\ stack'[i].root = stack[i].root
  BY SwitchedStack DEF SetTopInGo, WrapperInv, TypeOK
<1>2. FrameShape'
  BY <1>1 DEF WrapperInv, FrameShape, SetTopInGo
<1>3. UnfinishedClose'
  BY <1>1 DEF WrapperInv, UnfinishedClose, Closing, SetTopInGo
<1> QED BY <1>2, <1>3, SameWrappers DEF WrapperInv, SetTopInGo

\* A panic may abandon a Close half-way, and `abandoned` remembers it.
LEMMA UnwindKeepsIInv ==
  ASSUME WrapperInv, TypeOK', NEW depth \in 0 .. MaxDepth, Unwind(depth)
  PROVE  WrapperInv'
<1>1. depth \in 0 .. Len(stack) /\ DOMAIN stack = 1 .. Len(stack) /\ Len(stack) \in Nat
  BY TopFrame, LenProperties, ParameterAssumption DEF Unwind, WrapperInv, TypeOK
<1>2. /\ DOMAIN stack' = 1 .. depth
      /\ \A i \in 1 .. depth : stack'[i] = stack[i]
  BY <1>1, CutStack DEF Unwind, WrapperInv, TypeOK
<1>3. FrameShape'
  BY <1>1, <1>2 DEF WrapperInv, FrameShape, Unwind
<1>4. UnfinishedClose'
  <2>1. ASSUME NEW h \in made, Closing(h)
        PROVE  Closing(h)' \/ h \in abandoned'
    <3>1. PICK i \in DOMAIN stack : stack[i].op = "close" /\ stack[i].self = h
      BY <2>1 DEF Closing
    <3>2. CASE i \in 1 .. depth
      BY <1>2, <3>1, <3>2 DEF Closing
    <3>3. CASE i \in depth + 1 .. Len(stack)
      BY <3>1, <3>3 DEF Unwind
    <3> QED BY <1>1, <3>1, <3>2, <3>3
  <2> QED BY <2>1 DEF WrapperInv, UnfinishedClose, Unwind
<1> QED BY <1>3, <1>4, SameWrappers DEF WrapperInv, Unwind

\* Every step keeps the invariant, one action at a time.
LEMMA NextKeepsIInv ==
  ASSUME WrapperInv, [Next]_vars
  PROVE  WrapperInv'
<1>0. TypeOK /\ TypeOK'
  BY NextTypes DEF WrapperInv
<1>1. CASE UNCHANGED vars
  BY <1>0, <1>1, SameWrappers
  DEF WrapperInv, vars, FrameShape, UnfinishedClose, Closing
<1>2. \A h \in made : root[h] \in Handle => root[h] \in made /\ owned[root[h]]
  BY SentinelAssumption DEF WrapperInv, WrapperShape
<1>3. ASSUME NEW h \in Handle, NEW args \in SUBSET Handle, CallMethod(h, args)
      PROVE  WrapperInv'
  <2>1. h \in made /\ Enter(args \cup {h}, root[h])
    BY <1>3 DEF CallMethod, ReceiverPasses
  <2>2. root[h] \in Handle \cup {NoHandle, NilParam}
    BY <1>0 DEF TypeOK
  <2> QED BY <1>0, <1>2, <2>1, <2>2, EnterKeepsIInv
<1>4. ASSUME NEW args \in SUBSET Handle, CallFree(args)
      PROVE  WrapperInv'
  <2>1. CASE Enter(args, NoHandle) \/ Enter(args, NilParam)
    BY <1>0, <2>1, EnterKeepsIInv, SentinelAssumption
  <2>2. ASSUME NEW a \in args, Enter(args, root[a])
        PROVE  WrapperInv'
    <3>1. a \in made /\ root[a] \in Handle \cup {NoHandle, NilParam}
      BY <1>0, <1>4 DEF CallFree, ArgumentPasses, TypeOK
    <3> QED BY <1>0, <1>2, <2>2, <3>1, EnterKeepsIInv
  <2> QED BY <1>4, <2>1, <2>2 DEF CallFree
<1>5. ASSUME NEW h \in Handle, BeginClose(h)
      PROVE  WrapperInv'
  BY <1>0, <1>5, BeginCloseKeepsIInv
<1>6. CASE ReturnNothing
  <2>1. FrameShape'
    BY <1>6, LeftStack DEF WrapperInv, FrameShape, ReturnNothing, NativeRuns
  <2>2. UnfinishedClose'
    BY <1>6, CallLeaves DEF WrapperInv, UnfinishedClose, ReturnNothing
  <2> QED BY <1>0, <1>6, <2>1, <2>2, SameWrappers DEF WrapperInv, ReturnNothing
<1>7. ASSUME NEW h \in Handle, NEW o \in Object, ReturnBorrowed(h, o)
      PROVE  WrapperInv'
  <2>1. Top.root \in Handle \cup {NoHandle}
    BY <1>0, <1>7, TopFrame
    DEF ReturnBorrowed, NativeRuns, ResultHasRoot, TypeOK, Frame, FrameFields
  <2>2. Top.root \in Handle => Top.root \in made /\ owned[Top.root]
    BY <1>0, <1>7, TopFrame
    DEF ReturnBorrowed, NativeRuns, WrapperInv, FrameShape, TypeOK, Top
  <2> DEFINE r == Top.root
  <2>3. r \in made \cup {NoHandle} /\ (r # NoHandle => owned[r])
    BY <2>1, <2>2
  <2>4. /\ NativeRuns("call") /\ Leave /\ NewWrapper(h, o, FALSE, r)
        /\ UNCHANGED <<closed, life, owns, abandoned>>
    BY <1>7 DEF ReturnBorrowed
  <2> HIDE DEF r
  <2> QED BY <1>0, <2>3, <2>4, BorrowKeepsIInv
<1>8. ASSUME NEW h \in Handle, NEW o \in Object, ReturnUnrooted(h, o)
      PROVE  WrapperInv'
  BY <1>0, <1>8, BorrowKeepsIInv DEF ReturnUnrooted
<1>9. ASSUME NEW h \in Handle, NEW o \in Object, ReturnOwned(h, o)
       PROVE  WrapperInv'
  BY <1>0, <1>9, OwnerKeepsIInv
<1>10. CASE EndClose
  BY <1>0, <1>10, EndCloseKeepsIInv
<1>11. CASE CallbackBegins
  BY <1>0, <1>11, SwitchKeepsIInv DEF CallbackBegins, NativeRuns
<1>12. CASE CallbackReturns
  BY <1>0, <1>12, SwitchKeepsIInv DEF CallbackReturns
<1>13. ASSUME NEW depth \in 0 .. MaxDepth, Unwind(depth)
       PROVE  WrapperInv'
  BY <1>0, <1>13, UnwindKeepsIInv
<1> QED
  BY <1>1, <1>3, <1>4, <1>5, <1>6, <1>7, <1>8, <1>9, <1>10, <1>11, <1>12, <1>13
  DEF Next, GoCalls, NativeSteps

\* The inductive invariant holds of every reachable state.
THEOREM Invariant == Spec => []WrapperInv
<1>1. Init => WrapperInv
  <2>1. Init => TypeOK
    BY EmptySeq DEF Init, TypeOK
  <2>2. Init => DOMAIN stack = {}
    BY DEF Init
  <2> QED BY <2>1, <2>2 DEF Init, WrapperInv, WrapperShape, SoleOwner, FrameShape,
             RootTellsLife, NilPtrIsClosed, UnfinishedClose
<1> QED BY <1>1, NextKeepsIInv, PTL DEF Spec

-----------------------------------------------------------------------------
(* The properties.                                                         *)

\* The inductive invariant implies what the guards are there for.
LEMMA IInvProtects == WrapperInv => GuardProtects
<1> SUFFICES ASSUME WrapperInv, NEW h \in made, Vouched(h), ~RootClosed(h)
             PROVE  life[Within[ptr[h]]] = "alive"
  BY DEF GuardProtects
<1>1. root[h] \in made /\ owned[root[h]] /\ root[root[h]] = root[h]
  BY DEF WrapperInv, WrapperShape, Vouched
<1>2. ~RootClosed(root[h])
  BY <1>1 DEF RootClosed, Vouched
<1>3. life[owns[root[h]]] = "alive"
  BY <1>1, <1>2 DEF WrapperInv, RootTellsLife
<1> QED BY <1>3 DEF Vouched

\* No guard of a generated function lets a wrapper through whose object,
\* the one its root stands for, has been or is being destroyed.
THEOREM GuardsProtect == Spec => []GuardProtects
BY Invariant, IInvProtects, PTL

\* An open root means a usable object and a closed one that its owner's
\* Close has begun, for every owner at all times.
THEOREM RootsTellLife == Spec => []RootTellsLife
<1>1. WrapperInv => RootTellsLife
  BY DEF WrapperInv
<1> QED BY <1>1, Invariant, PTL

\* A wrapper with a nil ptr never passes an argument guard.
THEOREM NilPtrsAreClosed == Spec => []NilPtrIsClosed
<1>1. WrapperInv => NilPtrIsClosed
  BY DEF WrapperInv
<1> QED BY <1>1, Invariant, PTL

\* A step that puts a Close of h on top of a taller stack is BeginClose(h).
LEMMA OnlyBeginCloseCloses ==
  ASSUME WrapperInv, Next, NEW h \in made, ClosesNext(h)
  PROVE  BeginClose(h)
<1> USE DEF WrapperInv
<1>0. Len(stack) \in Nat /\ Len(stack') > Len(stack)
  BY LenProperties DEF TypeOK, ClosesNext
<1>1. ASSUME NEW args \in SUBSET Handle,
             NEW r \in Handle \cup {NoHandle, NilParam}, Enter(args, r)
      PROVE  FALSE
  <2> DEFINE f == [op |-> "call", self |-> NoHandle, root |-> r,
                   used |-> UsedBy(args), inGo |-> FALSE]
  <2>1. f \in Frame /\ f.op = "call"
    BY UsedAreAllocations DEF Frame, FrameFields
  <2>2. stack' = Append(stack, f)
    BY <1>1 DEF Enter
  <2> HIDE DEF f
  <2>3. Len(stack') = Len(stack) + 1 /\ stack'[Len(stack) + 1] = f
    BY <2>1, <2>2, PushedStack DEF TypeOK
  <2> QED BY <2>1, <2>3 DEF ClosesNext
<1>2. ASSUME NEW g \in Handle, BeginClose(g)
      PROVE  g = h
  <2> DEFINE f == [op |-> "close", self |-> g, root |-> NoHandle,
                   used |-> {}, inGo |-> FALSE]
  <2>1. f \in Frame /\ f.self = g
    BY DEF Frame, FrameFields
  <2>2. stack' = Append(stack, f)
    BY <1>2 DEF BeginClose
  <2> HIDE DEF f
  <2>3. Len(stack') = Len(stack) + 1 /\ stack'[Len(stack) + 1] = f
    BY <2>1, <2>2, PushedStack DEF TypeOK
  <2> QED BY <2>1, <2>3 DEF ClosesNext
<1>3. ~(stack # << >> /\ Leave)
  BY <1>0, PoppedStack, TopFrame DEF Leave, TypeOK
<1>4. \A b \in BOOLEAN : ~(stack # << >> /\ SetTopInGo(b))
  BY <1>0, SwitchedStack DEF SetTopInGo, TypeOK
<1>5. \A depth \in 0 .. MaxDepth : ~Unwind(depth)
  <2> SUFFICES ASSUME NEW depth \in 0 .. MaxDepth, Unwind(depth)
               PROVE  FALSE
    OBVIOUS
  <2>1. depth \in 0 .. Len(stack)
    BY TopFrame, ParameterAssumption DEF Unwind, TypeOK
  <2> QED BY <1>0, <2>1, CutStack DEF Unwind, TypeOK
<1>6. ASSUME NEW g \in Handle, NEW args \in SUBSET Handle, CallMethod(g, args)
      PROVE  FALSE
  <2>1. args \cup {g} \in SUBSET Handle /\ root[g] \in Handle \cup {NoHandle, NilParam}
    BY DEF TypeOK
  <2> QED BY <1>1, <1>6, <2>1 DEF CallMethod
<1>7. ASSUME NEW args \in SUBSET Handle, CallFree(args)
      PROVE  FALSE
  <2>1. \A a \in args : root[a] \in Handle \cup {NoHandle, NilParam}
    BY DEF TypeOK
  <2> QED BY <1>1, <1>7, <2>1 DEF CallFree
<1> QED
  BY <1>2, <1>3, <1>4, <1>5, <1>6, <1>7
  DEF Next, GoCalls, NativeSteps, ReturnNothing, ReturnBorrowed, ReturnUnrooted,
      ReturnOwned, EndClose, CallbackBegins, CallbackReturns, NativeRuns

\* Only a Close that was interrupted before `ptr = nil` can be followed by a
\* second destruction of the same object.
THEOREM RepeatsAreInterrupted == Spec => RepeatedCloseIsInterrupted
<1>1. ASSUME WrapperInv, [Next]_vars
      PROVE  [\A h \in made : ClosesNext(h) /\ life[owns[h]] # "alive" =>
                 Closing(h) \/ h \in abandoned]_vars
  <2> SUFFICES ASSUME Next, NEW h \in made, ClosesNext(h), life[owns[h]] # "alive"
               PROVE  Closing(h) \/ h \in abandoned
    BY <1>1
  <2>1. owned[h] /\ ptr[h] # NoObject
    BY <1>1, OnlyBeginCloseCloses DEF BeginClose, ClosePasses
  <2>2. closed[h]
    BY <1>1, <2>1 DEF WrapperInv, RootTellsLife, RootClosed, WrapperShape
  <2> QED BY <1>1, <2>1, <2>2 DEF WrapperInv, UnfinishedClose
<1> QED BY <1>1, Invariant, PTL DEF Spec, RepeatedCloseIsInterrupted
=============================================================================
