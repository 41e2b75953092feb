------------------------ MODULE CallbackBridgeSlot ------------------------
(***************************************************************************)
(* The generated callback bridge keeps the promise of module CallbackSlot: *)
(* registrations take effect at the store, firings at the copy.            *)
(***************************************************************************)
EXTENDS CallbackBridge

Runs(frame) ==
    \/ frame.at = "run"
    \/ frame.at = "runlock" /\ frame.fn # NoFn

RunningActivations ==
    {a \in Activation : a[2] <= Len(stack[a[1]]) /\ Runs(stack[a[1]][a[2]])}

Running == [a \in RunningActivations |-> stack[a[1]][a[2]].fn]

Slot == INSTANCE CallbackSlot WITH target <- fn, running <- Running

\* A firing runs the callback the registry holds at one instant of the
\* firing, and nothing if it holds none.
ActsAsSlot == Slot!Spec
=============================================================================
