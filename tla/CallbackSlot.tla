---------------------------- MODULE CallbackSlot ----------------------------
(***************************************************************************)
(* What the callback registry of one callback parameter promises: it is an *)
(* atomic variable.  A firing runs the callback the variable holds at one  *)
(* instant of the firing, and runs nothing if it holds none.               *)
(***************************************************************************)
CONSTANTS
    Activation,             \* names for the activations of callbacks
    Callback,               \* Go functions
    NoFn                    \* a nil function

VARIABLES
    target,                 \* the callback of the latest registration
    running                 \* the callback each current activation runs

vars == <<target, running>>

Init ==
    /\ target = NoFn
    /\ running = [a \in {} |-> NoFn]

Register(fn) ==
    /\ target' = fn
    /\ UNCHANGED running

Run(a) ==
    /\ target # NoFn
    /\ a \notin DOMAIN running
    /\ running' = [b \in DOMAIN running \cup {a} |->
                       IF b = a THEN target ELSE running[b]]
    /\ UNCHANGED target

\* Activations end, one by returning or several in a panic.
Finish(as) ==
    /\ as # {}
    /\ as \subseteq DOMAIN running
    /\ running' = [a \in DOMAIN running \ as |-> running[a]]
    /\ UNCHANGED target

Next ==
    \/ \E fn \in Callback \cup {NoFn} : Register(fn)
    \/ \E a \in Activation : Run(a)
    \/ \E as \in SUBSET DOMAIN running : Finish(as)

Spec == Init /\ [][Next]_vars
=============================================================================
