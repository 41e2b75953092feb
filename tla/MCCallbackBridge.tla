------------------------- MODULE MCCallbackBridge -------------------------
(* Model values for the callback bridge.                                    *)
EXTENDS CallbackBridgeSlot, TLC

Symmetry ==
    Permutations(Goroutine) \cup Permutations(NativeThread)
        \cup Permutations(Receiver) \cup Permutations(Callback)
=============================================================================
