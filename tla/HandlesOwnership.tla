-------------------------- MODULE HandlesOwnership --------------------------
(***************************************************************************)
(* The generated wrappers keep the promise of module Ownership, as long as *)
(* native destructors do not call back into Go.  Only the pointers a root  *)
(* vouches for are mapped: a wrapper without a root, or whose native       *)
(* object lives outside the object its root belongs to, is not covered.    *)
(***************************************************************************)
EXTENDS Handles

MappedLife == [o \in Allocation |->
    IF life[o] \in {"dying", "dead"} THEN "destroyed" ELSE life[o]]

MappedCalls == [i \in 1 .. Len(stack) |-> stack[i].used]

Promise == INSTANCE Ownership
    WITH Object <- Allocation, life <- MappedLife, calls <- MappedCalls

\* Every call enters the native library with live objects, and Close destroys
\* an object once.
KeepsPromise == Promise!Spec
=============================================================================
