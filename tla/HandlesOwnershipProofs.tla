----------------------- MODULE HandlesOwnershipProofs -----------------------
(***************************************************************************)
(* The wrappers of module Handles implement module Ownership when native   *)
(* destructors do not call back into Go.                                   *)
(***************************************************************************)
EXTENDS HandlesProofs

-----------------------------------------------------------------------------
(* The mapped stack.                                                       *)

\* The mapped stack is a sequence of sets of allocations, one per frame.
LEMMA MappedCallsType ==
  ASSUME stack \in Seq(Frame)
  PROVE  /\ MappedCalls \in Seq(SUBSET Allocation)
         /\ Len(MappedCalls) = Len(stack)
         /\ \A i \in 1 .. Len(stack) : MappedCalls[i] = stack[i].used
<1>1. Len(stack) \in Nat /\ \A i \in 1 .. Len(stack) : stack[i].used \in SUBSET Allocation
  BY LenProperties, ElementOfSeq DEF Frame, FrameFields
<1>2. MappedCalls \in [1 .. Len(stack) -> SUBSET Allocation]
  BY <1>1 DEF MappedCalls
<1>3. MappedCalls \in Seq(SUBSET Allocation)
  BY <1>1, <1>2, SeqDef
<1> QED BY <1>1, <1>2, <1>3 DEF MappedCalls

\* Pushing a frame appends what it uses.
LEMMA MappedPush ==
  ASSUME stack \in Seq(Frame), NEW f \in Frame, stack' = Append(stack, f)
  PROVE  MappedCalls' = Append(MappedCalls, f.used)
<1>1. /\ stack' \in Seq(Frame) /\ Len(stack') = Len(stack) + 1 /\ Len(stack) \in Nat
      /\ stack'[Len(stack) + 1] = f
      /\ \A i \in 1 .. Len(stack) : stack'[i] = stack[i]
  BY PushedStack, LenProperties
<1>2. /\ MappedCalls' \in Seq(SUBSET Allocation)
      /\ Len(MappedCalls') = Len(stack')
      /\ \A i \in 1 .. Len(stack') : MappedCalls'[i] = stack'[i].used
  <2>1. /\ Len(stack') \in Nat
        /\ \A i \in 1 .. Len(stack') : stack'[i].used \in SUBSET Allocation
    BY <1>1, LenProperties, ElementOfSeq DEF Frame, FrameFields
  <2>2. MappedCalls' \in [1 .. Len(stack') -> SUBSET Allocation]
    BY <2>1 DEF MappedCalls, Allocation
  <2> QED BY <2>1, <2>2, SeqDef DEF MappedCalls
<1>3. f.used \in SUBSET Allocation
  BY DEF Frame, FrameFields
<1>4. /\ Append(MappedCalls, f.used) \in Seq(SUBSET Allocation)
      /\ Len(Append(MappedCalls, f.used)) = Len(stack) + 1
      /\ \A i \in 1 .. Len(stack) : Append(MappedCalls, f.used)[i] = stack[i].used
      /\ Append(MappedCalls, f.used)[Len(stack) + 1] = f.used
  BY <1>3, MappedCallsType, AppendProperties
<1>5. \A i \in 1 .. Len(stack') : MappedCalls'[i] = Append(MappedCalls, f.used)[i]
  BY <1>1, <1>2, <1>4
<1> QED BY <1>1, <1>2, <1>4, <1>5, SeqEqual

\* Cutting the stack cuts the mapped one.
LEMMA MappedCut ==
  ASSUME stack \in Seq(Frame), NEW n \in 0 .. Len(stack),
         stack' = SubSeq(stack, 1, n)
  PROVE  MappedCalls' = SubSeq(MappedCalls, 1, n)
<1>1. /\ stack' \in Seq(Frame) /\ Len(stack') = n /\ Len(stack) \in Nat
      /\ \A i \in 1 .. n : stack'[i] = stack[i]
  BY CutStack, LenProperties
<1>2. /\ MappedCalls' \in Seq(SUBSET Allocation)
      /\ Len(MappedCalls') = n
      /\ \A i \in 1 .. n : MappedCalls'[i] = stack[i].used
  <2>1. \A i \in 1 .. n : stack'[i].used \in SUBSET Allocation
    BY <1>1, LenProperties, ElementOfSeq DEF Frame, FrameFields
  <2>2. MappedCalls' \in [1 .. n -> SUBSET Allocation]
    BY <1>1, <2>1 DEF MappedCalls, Allocation
  <2> QED BY <1>1, <2>1, <2>2, SeqDef DEF MappedCalls
<1>3. \A i \in 1 .. n : MappedCalls[i] \in SUBSET Allocation
  BY <1>1, MappedCallsType, ElementOfSeq
<1>4. /\ SubSeq(MappedCalls, 1, n) \in Seq(SUBSET Allocation)
      /\ Len(SubSeq(MappedCalls, 1, n)) = IF 1 <= n THEN n - 1 + 1 ELSE 0
      /\ \A i \in 1 .. n - 1 + 1 : SubSeq(MappedCalls, 1, n)[i] = MappedCalls[1 + i - 1]
  BY <1>1, <1>3, SubSeqProperties
<1>5. /\ Len(SubSeq(MappedCalls, 1, n)) = n
      /\ \A i \in 1 .. n : SubSeq(MappedCalls, 1, n)[i] = stack[i].used
  BY <1>1, <1>4, MappedCallsType
<1> QED BY <1>2, <1>4, <1>5, SeqEqual

-----------------------------------------------------------------------------
(* A Close that runs no Go code is always on top and never unwound.        *)

ClosesUndisturbed ==
    /\ abandoned = {}
    /\ \A i \in DOMAIN stack :
          stack[i].op = "close" =>
             i = Len(stack) /\ ~stack[i].inGo /\ stack[i].root = NoHandle

\* If destructors stay out of Go, Go never runs while a Close is on the stack.
LEMMA GoRunsAboveNoClose ==
  ASSUME WrapperInv, ClosesUndisturbed, GoRuns
  PROVE  \A i \in DOMAIN stack : stack[i].op # "close"
<1>1. CASE stack = << >>
  BY <1>1
<1>2. CASE stack # << >>
  BY <1>2 DEF ClosesUndisturbed, GoRuns, Top
<1> QED BY <1>1, <1>2

\* A new frame goes on top of calls only, so a Close stays undisturbed.
LEMMA PushKeepsUndisturbed ==
  ASSUME WrapperInv, ClosesUndisturbed, GoRuns, NEW f \in Frame,
         f.root = NoHandle \/ f.op # "close", ~f.inGo,
         stack' = Append(stack, f), UNCHANGED abandoned
  PROVE  ClosesUndisturbed'
<1>1. /\ DOMAIN stack' = 1 .. Len(stack) + 1 /\ Len(stack') = Len(stack) + 1
      /\ stack'[Len(stack) + 1] = f /\ DOMAIN stack = 1 .. Len(stack)
      /\ \A i \in 1 .. Len(stack) : stack'[i] = stack[i]
      /\ Len(stack) \in Nat
  BY PushedStack, LenProperties DEF WrapperInv, TypeOK
<1> QED BY <1>1, GoRunsAboveNoClose DEF ClosesUndisturbed

\* A return drops the top frame and disturbs no Close below it.
LEMMA LeaveKeepsUndisturbed ==
  ASSUME WrapperInv, ClosesUndisturbed, stack # << >>, Leave, UNCHANGED abandoned
  PROVE  ClosesUndisturbed'
BY LeftStack DEF ClosesUndisturbed

\* No step lets Go run, or a frame be pushed, above a Close.
LEMMA NextKeepsUndisturbed ==
  ASSUME ~DestructorCallsGo, WrapperInv, ClosesUndisturbed, [Next]_vars
  PROVE  ClosesUndisturbed'
<1>1. CASE UNCHANGED vars
  BY <1>1 DEF vars, ClosesUndisturbed
<1>2. ASSUME NEW args \in SUBSET Handle, GoRuns,
             NEW r \in Handle \cup {NoHandle, NilParam}, Enter(args, r)
      PROVE  ClosesUndisturbed'
  <2> DEFINE f == [op |-> "call", self |-> NoHandle, root |-> r,
                   used |-> UsedBy(args), inGo |-> FALSE]
  <2>1. f \in Frame /\ f.op # "close" /\ ~f.inGo
    BY UsedAreAllocations DEF Frame, FrameFields, WrapperInv
  <2>2. stack' = Append(stack, f) /\ UNCHANGED abandoned
    BY <1>2 DEF Enter
  <2> HIDE DEF f
  <2> QED BY <1>2, <2>1, <2>2, PushKeepsUndisturbed
<1>3. ASSUME NEW h \in Handle, NEW args \in SUBSET Handle, CallMethod(h, args)
      PROVE  ClosesUndisturbed'
  <2>1. args \cup {h} \in SUBSET Handle /\ root[h] \in Handle \cup {NoHandle, NilParam}
    BY DEF WrapperInv, TypeOK
  <2> QED BY <1>2, <1>3, <2>1 DEF CallMethod
<1>4. ASSUME NEW args \in SUBSET Handle, CallFree(args)
      PROVE  ClosesUndisturbed'
  <2>1. \A a \in args : root[a] \in Handle \cup {NoHandle, NilParam}
    BY DEF WrapperInv, TypeOK
  <2> QED BY <1>2, <1>4, <2>1 DEF CallFree
<1>5. ASSUME NEW h \in Handle, BeginClose(h)
      PROVE  ClosesUndisturbed'
  <2> DEFINE f == [op |-> "close", self |-> h, root |-> NoHandle,
                   used |-> {}, inGo |-> FALSE]
  <2>1. f \in Frame /\ f.root = NoHandle /\ ~f.inGo
    BY DEF Frame, FrameFields
  <2>2. stack' = Append(stack, f) /\ UNCHANGED abandoned /\ GoRuns
    BY <1>5 DEF BeginClose
  <2> HIDE DEF f
  <2> QED BY <2>1, <2>2, PushKeepsUndisturbed
<1>6. CASE stack # << >> /\ Leave /\ UNCHANGED abandoned
  BY <1>6, LeaveKeepsUndisturbed
<1>7. ASSUME NEW b \in BOOLEAN, stack # << >>, SetTopInGo(b), Top.op = "call"
      PROVE  ClosesUndisturbed'
  <2>1. /\ DOMAIN stack' = DOMAIN stack /\ Len(stack') = Len(stack)
        /\ \A i \in DOMAIN stack : stack'[i].op = stack[i].op
    BY <1>7, SwitchedStack DEF SetTopInGo, WrapperInv, TypeOK
  <2>2. \A i \in DOMAIN stack : stack[i].op # "close"
    BY <1>7 DEF ClosesUndisturbed, Top
  <2> QED BY <1>7, <2>1, <2>2 DEF ClosesUndisturbed, SetTopInGo
<1>8. CASE CallbackBegins
  BY <1>7, <1>8 DEF CallbackBegins, NativeRuns
<1>9. CASE CallbackReturns
  <2>1. Top.op = "call"
    BY <1>9, TopFrame
    DEF CallbackReturns, ClosesUndisturbed, WrapperInv, TypeOK, Top, Frame, FrameFields
  <2> QED BY <1>7, <1>9, <2>1 DEF CallbackReturns
<1>10. ASSUME NEW depth \in 0 .. MaxDepth, Unwind(depth)
       PROVE  ClosesUndisturbed'
  <2>1. /\ depth \in 0 .. Len(stack) /\ DOMAIN stack = 1 .. Len(stack)
        /\ Len(stack) \in DOMAIN stack
    BY <1>10, TopFrame, LenProperties, ParameterAssumption DEF Unwind, WrapperInv, TypeOK
  <2>2. \A i \in DOMAIN stack : stack[i].op # "close"
    BY <1>10, <2>1, SentinelAssumption DEF Unwind, ClosesUndisturbed, Top
  <2>3. /\ DOMAIN stack' = 1 .. depth
        /\ \A i \in 1 .. depth : stack'[i] = stack[i]
    BY <1>10, <2>1, CutStack DEF Unwind, WrapperInv, TypeOK
  <2>4. abandoned' = {}
    BY <1>10, <2>1, <2>2 DEF Unwind, ClosesUndisturbed
  <2> QED BY <2>1, <2>2, <2>3, <2>4 DEF ClosesUndisturbed
<1> QED
  BY <1>1, <1>3, <1>4, <1>5, <1>6, <1>8, <1>9, <1>10
  DEF Next, GoCalls, NativeSteps, ReturnNothing, ReturnBorrowed, ReturnUnrooted,
      ReturnOwned, EndClose, NativeRuns

-----------------------------------------------------------------------------
(* Every step is a step of Ownership, or none.                             *)

\* What life in Handles means for life in Ownership.
LEMMA MappedLifeValues ==
  ASSUME TypeOK
  PROVE  /\ \A o \in Allocation : MappedLife[o] = "alive" <=> life[o] = "alive"
         /\ \A o \in Allocation : MappedLife[o] = "absent" <=> life[o] = "absent"
BY DEF TypeOK, MappedLife

\* What the guards let through is alive.
LEMMA UsedAreAlive ==
  ASSUME WrapperInv, NEW args \in SUBSET Handle, \A a \in args : ArgumentPasses(a)
  PROVE  UsedBy(args) \subseteq Promise!Alive
<1>1. GuardProtects
  BY IInvProtects
<1>2. ASSUME NEW a \in args, Vouched(a)
      PROVE  Within[ptr[a]] \in Allocation /\ life[Within[ptr[a]]] = "alive"
  <2>1. Within[ptr[a]] \in UsedBy(args)
    BY <1>2 DEF UsedBy
  <2>2. Within[ptr[a]] \in Allocation
    BY <2>1, UsedAreAllocations DEF WrapperInv
  <2> QED BY <1>1, <1>2, <2>2 DEF GuardProtects, ArgumentPasses
<1> QED BY <1>2, MappedLifeValues DEF UsedBy, Promise!Alive, WrapperInv

\* Entering native code is Enter of the promise.
LEMMA EnterImplements ==
  ASSUME WrapperInv, NEW args \in SUBSET Handle, \A a \in args : ArgumentPasses(a),
         NEW r \in Handle \cup {NoHandle, NilParam}, Enter(args, r)
  PROVE  Promise!Next
<1> DEFINE f == [op |-> "call", self |-> NoHandle, root |-> r,
                 used |-> UsedBy(args), inGo |-> FALSE]
<1>1. f \in Frame /\ f.used = UsedBy(args)
  BY UsedAreAllocations DEF Frame, FrameFields, WrapperInv
<1>2. stack' = Append(stack, f) /\ UNCHANGED life
  BY DEF Enter
<1> HIDE DEF f
<1>3. MappedCalls' = Append(MappedCalls, UsedBy(args))
  BY <1>1, <1>2, MappedPush DEF WrapperInv, TypeOK
<1>4. MappedLife' = MappedLife
  BY <1>2 DEF MappedLife, Allocation
<1>5. Promise!Enter(UsedBy(args))
  BY <1>3, <1>4, UsedAreAlive DEF Promise!Enter
<1>6. UsedBy(args) \in SUBSET Allocation
  BY UsedAreAllocations DEF WrapperInv
<1> QED BY <1>5, <1>6 DEF Promise!Next

\* Returning drops the top of the mapped stack.
LEMMA MappedLeave ==
  ASSUME WrapperInv, stack # << >>, Leave
  PROVE  /\ MappedCalls' = SubSeq(MappedCalls, 1, Len(MappedCalls) - 1)
         /\ Len(MappedCalls) \in Nat \ {0}
         /\ MappedCalls # << >>
<1>1. Len(stack) - 1 \in 0 .. Len(stack) /\ Len(stack) \in Nat \ {0}
  BY TopFrame DEF WrapperInv, TypeOK
<1>2. stack' = SubSeq(stack, 1, Len(stack) - 1)
  BY DEF Leave, Popped
<1>3. Len(MappedCalls) = Len(stack) /\ MappedCalls \in Seq(SUBSET Allocation)
  BY MappedCallsType DEF WrapperInv, TypeOK
<1>4. MappedCalls # << >>
  BY <1>1, <1>3, EmptySeq
<1> QED BY <1>1, <1>2, <1>3, <1>4, MappedCut DEF WrapperInv, TypeOK

\* A return that changes no life is Leave of the promise.
LEMMA LeaveImplements ==
  ASSUME WrapperInv, stack # << >>, Leave, MappedLife' = MappedLife
  PROVE  Promise!Next
<1>1. /\ Len(MappedCalls) - 1 \in 0 .. Len(MappedCalls)
      /\ Len(MappedCalls) - 1 < Len(MappedCalls)
  BY MappedLeave
<1>2. Promise!Leave(Len(MappedCalls) - 1)
  BY <1>1, MappedLeave DEF Promise!Leave
<1> QED BY <1>1, <1>2 DEF Promise!Next

\* Close up to the destructor is Destroy of the promise.
LEMMA CloseImplements ==
  ASSUME WrapperInv, ClosesUndisturbed, NEW h \in Handle, BeginClose(h)
  PROVE  Promise!Next
<1> DEFINE f == [op |-> "close", self |-> h, root |-> NoHandle,
                 used |-> {}, inGo |-> FALSE]
<1>1. f \in Frame /\ f.used = {}
  BY DEF Frame, FrameFields
<1>2. stack' = Append(stack, f)
  BY DEF BeginClose
<1> HIDE DEF f
<1>3. MappedCalls' = Append(MappedCalls, {})
  BY <1>1, <1>2, MappedPush DEF WrapperInv, TypeOK
<1>4. /\ h \in made /\ owned[h] /\ ptr[h] = owns[h] /\ ptr[h] # NoObject
      /\ root[h] = h /\ owns[h] \in Allocation
  BY DEF BeginClose, ClosePasses, WrapperInv, WrapperShape
<1>5. ~Closing(h) /\ h \notin abandoned
  BY GoRunsAboveNoClose DEF BeginClose, Closing, ClosesUndisturbed
<1>6. ~closed[h]
  BY <1>4, <1>5 DEF WrapperInv, UnfinishedClose
<1>7. life[owns[h]] = "alive"
  BY <1>4, <1>6 DEF WrapperInv, RootTellsLife, RootClosed
<1>8. life' = [life EXCEPT ![owns[h]] = "dying"]
  BY <1>4 DEF BeginClose
<1>9. MappedLife' = [MappedLife EXCEPT ![owns[h]] = "destroyed"]
  BY <1>4, <1>8 DEF MappedLife, WrapperInv, TypeOK, Allocation
<1>10. Promise!Destroy(owns[h])
  BY <1>3, <1>4, <1>7, <1>9, MappedLifeValues
  DEF Promise!Destroy, Promise!Alive, WrapperInv
<1> QED BY <1>4, <1>10 DEF Promise!Next

\* An owner that is handed out is LeaveWith for a new object, Leave for an old one.
LEMMA OwnerImplements ==
  ASSUME WrapperInv, NEW h \in Handle, NEW o \in Object, ReturnOwned(h, o)
  PROVE  Promise!Next
<1>1. /\ o \in Allocation /\ life' = [life EXCEPT ![o] = "alive"]
      /\ stack # << >> /\ Leave /\ life[o] \in {"absent", "alive"}
  BY DEF ReturnOwned, NativeRuns
<1>2. CASE life[o] = "alive"
  <2>1. MappedLife' = MappedLife
    BY <1>1, <1>2 DEF MappedLife, WrapperInv, TypeOK, Allocation
  <2> QED BY <1>1, <2>1, LeaveImplements
<1>3. CASE life[o] = "absent"
  <2>1. MappedLife' = [MappedLife EXCEPT ![o] = "alive"] /\ MappedLife[o] = "absent"
    BY <1>1, <1>3 DEF MappedLife, WrapperInv, TypeOK, Allocation
  <2>2. Promise!LeaveWith(o)
    BY <1>1, <2>1, MappedLeave DEF Promise!LeaveWith
  <2> QED BY <1>1, <2>2 DEF Promise!Next
<1> QED BY <1>1, <1>2, <1>3

\* The end of Close is Leave: dying and dead are both destroyed.
LEMMA EndCloseImplements ==
  ASSUME WrapperInv, EndClose
  PROVE  Promise!Next
<1>1. PICK h \in Handle : h = Top.self
  BY TopFrame DEF EndClose, NativeRuns, WrapperInv, TypeOK, Frame, FrameFields
<1>2. h \in made /\ owned[h] /\ closed[h] /\ root[h] = h
  BY <1>1, TopFrame
  DEF EndClose, NativeRuns, WrapperInv, TypeOK, FrameShape, WrapperShape, Top
<1>3. owns[h] \in Allocation /\ life[owns[h]] \in {"dying", "dead"}
  BY <1>2, SentinelAssumption
  DEF WrapperInv, TypeOK, WrapperShape, RootTellsLife, RootClosed
<1>4. life' = [life EXCEPT ![owns[h]] = "dead"] /\ stack # << >> /\ Leave
  BY <1>1 DEF EndClose, NativeRuns
<1>5. MappedLife' = MappedLife
  BY <1>3, <1>4 DEF MappedLife, WrapperInv, TypeOK, Allocation
<1> QED BY <1>4, <1>5, LeaveImplements

\* A panic is Leave to the depth that recovers it.
LEMMA UnwindImplements ==
  ASSUME WrapperInv, NEW depth \in 0 .. MaxDepth, Unwind(depth)
  PROVE  Promise!Next
<1>1. depth \in 0 .. Len(stack) /\ depth < Len(stack)
  BY TopFrame, ParameterAssumption DEF Unwind, WrapperInv, TypeOK
<1>2. stack' = SubSeq(stack, 1, depth) /\ UNCHANGED life
  BY DEF Unwind
<1>3. MappedCalls' = SubSeq(MappedCalls, 1, depth) /\ Len(MappedCalls) = Len(stack)
  BY <1>1, <1>2, MappedCut, MappedCallsType DEF WrapperInv, TypeOK
<1>4. MappedLife' = MappedLife
  BY <1>2 DEF MappedLife, Allocation
<1>5. Promise!Leave(depth)
  BY <1>1, <1>3, <1>4 DEF Promise!Leave
<1> QED BY <1>1, <1>3, <1>5 DEF Promise!Next

\* A callback that begins or ends changes nothing the promise sees.
LEMMA SwitchStutters ==
  ASSUME WrapperInv, stack # << >>, NEW b \in BOOLEAN, SetTopInGo(b)
  PROVE  UNCHANGED <<MappedLife, MappedCalls>>
<1>1. /\ stack' \in Seq(Frame) /\ Len(stack') = Len(stack) /\ DOMAIN stack = 1 .. Len(stack)
      /\ \A i \in DOMAIN stack : stack'[i].used = stack[i].used
  BY SwitchedStack, LenProperties DEF SetTopInGo, WrapperInv, TypeOK
<1>2. MappedCalls' = MappedCalls
  BY <1>1 DEF MappedCalls
<1>3. MappedLife' = MappedLife
  BY DEF SetTopInGo, MappedLife, Allocation
<1> QED BY <1>2, <1>3

\* Every step of the wrappers is a step of the promise, or a stutter.
LEMMA NextImplements ==
  ASSUME WrapperInv, ClosesUndisturbed, [Next]_vars
  PROVE  [Promise!Next]_(Promise!vars)
<1>1. CASE UNCHANGED vars
  BY <1>1 DEF vars, Promise!vars, MappedLife, MappedCalls, Allocation
<1>2. ASSUME NEW h \in Handle, NEW args \in SUBSET Handle, CallMethod(h, args)
      PROVE  Promise!Next
  <2>1. args \cup {h} \in SUBSET Handle /\ root[h] \in Handle \cup {NoHandle, NilParam}
    BY DEF WrapperInv, TypeOK
  <2>2. \A a \in args \cup {h} : ArgumentPasses(a)
    BY <1>2 DEF CallMethod, ReceiverPasses, ArgumentPasses
  <2> QED BY <1>2, <2>1, <2>2, EnterImplements DEF CallMethod
<1>3. ASSUME NEW args \in SUBSET Handle, CallFree(args)
      PROVE  Promise!Next
  <2>1. \A a \in args : root[a] \in Handle \cup {NoHandle, NilParam}
    BY DEF WrapperInv, TypeOK
  <2> QED BY <1>3, <2>1, EnterImplements DEF CallFree
<1>4. ASSUME NEW h \in Handle, BeginClose(h)
      PROVE  Promise!Next
  BY <1>4, CloseImplements
<1>5. CASE stack # << >> /\ Leave /\ UNCHANGED life
  <2>1. MappedLife' = MappedLife
    BY <1>5 DEF MappedLife, Allocation
  <2> QED BY <1>5, <2>1, LeaveImplements
<1>6. ASSUME NEW h \in Handle, NEW o \in Object, ReturnOwned(h, o)
      PROVE  Promise!Next
  BY <1>6, OwnerImplements
<1>7. CASE EndClose
  BY <1>7, EndCloseImplements
<1>8. CASE CallbackBegins \/ CallbackReturns
  BY <1>8, SwitchStutters DEF CallbackBegins, CallbackReturns, NativeRuns, Promise!vars
<1>9. ASSUME NEW depth \in 0 .. MaxDepth, Unwind(depth)
       PROVE  Promise!Next
  BY <1>9, UnwindImplements
<1> QED
  BY <1>1, <1>2, <1>3, <1>4, <1>5, <1>6, <1>7, <1>8, <1>9
  DEF Next, GoCalls, NativeSteps, ReturnNothing, ReturnBorrowed, ReturnUnrooted,
      NativeRuns

\* With destructors that stay out of Go, the wrappers keep the promise of
\* module Ownership: one destruction per object, and no call that enters the
\* library with an object that is gone.
THEOREM Implements == ~DestructorCallsGo /\ Spec => KeepsPromise
<1> SUFFICES ASSUME ~DestructorCallsGo
             PROVE  Spec => KeepsPromise
  OBVIOUS
<1>1. Init => ClosesUndisturbed
  BY DEF Init, ClosesUndisturbed
<1>2. Init => Promise!Init
  BY DEF Init, Promise!Init, MappedLife, MappedCalls
<1>3. Spec => []ClosesUndisturbed
  BY <1>1, NextKeepsUndisturbed, Invariant, PTL DEF Spec
<1> QED BY <1>2, <1>3, NextImplements, Invariant, PTL DEF Spec, KeepsPromise, Promise!Spec
=============================================================================
