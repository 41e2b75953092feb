----------------------------- MODULE MCHandles -----------------------------
(* Model values for the handle modules: an object with a field, and an      *)
(* object without.                                                          *)
EXTENDS HandlesOwnership, TLC

CONSTANTS parent, field, other

MCObject == {parent, field, other}

MCWithin == [o \in MCObject |-> IF o = field THEN parent ELSE o]

Symmetry == Permutations(Handle)
=============================================================================
