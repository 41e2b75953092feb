----------------------------- MODULE Ownership -----------------------------
(***************************************************************************)
(* What the handle layer of a generated Go package promises about native   *)
(* objects, with no wrappers, roots or guards in sight.  Go destroys an    *)
(* object at most once, and a call only ever enters the native library     *)
(* with objects that are alive at that moment.                             *)
(*                                                                         *)
(* The promise stops at the entry of a call: a callback that runs inside   *)
(* the call may destroy an object the call is still using.                 *)
(***************************************************************************)
EXTENDS Naturals, Sequences

CONSTANT Object             \* heap allocations of the native library

VARIABLES
    life,                   \* where each allocation is in its life
    calls                   \* the objects each native call on the stack uses

vars == <<life, calls>>

Alive == {o \in Object : life[o] = "alive"}

Init ==
    /\ life \in [Object -> {"absent", "alive"}]
    /\ calls = << >>

\* A call enters native code with live objects only.
Enter(used) ==
    /\ used \subseteq Alive
    /\ calls' = Append(calls, used)
    /\ UNCHANGED life

\* The destruction of an object: it was alive, and never will be again.
Destroy(o) ==
    /\ o \in Alive
    /\ life' = [life EXCEPT ![o] = "destroyed"]
    /\ calls' = Append(calls, {})

\* Calls end, the innermost by returning or several in one panic.
Leave(depth) ==
    /\ depth < Len(calls)
    /\ calls' = SubSeq(calls, 1, depth)
    /\ UNCHANGED life

\* The innermost call ends and hands out an object it has just created.
LeaveWith(o) ==
    /\ calls # << >>
    /\ life[o] = "absent"
    /\ life' = [life EXCEPT ![o] = "alive"]
    /\ calls' = SubSeq(calls, 1, Len(calls) - 1)

Next ==
    \/ \E used \in SUBSET Object : Enter(used)
    \/ \E o \in Object : Destroy(o) \/ LeaveWith(o)
    \/ \E depth \in 0 .. Len(calls) : Leave(depth)

Spec == Init /\ [][Next]_vars
=============================================================================
