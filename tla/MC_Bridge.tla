----------------------------- MODULE MC_Bridge -----------------------------
(* Model-checking instance of Bridge: two heap addresses (a provider and a *)
(* key, and either may be freed and reallocated), two callers, one         *)
(* supported key, one known key with an unsupported algorithm and one      *)
(* unknown name.                                                           *)
EXTENDS Bridge

CONSTANTS a1, a2, c1, c2

MCAddrs == {a1, a2}
(* One caller for the sequential run; two for the runs about a call that   *)
(* overlaps SignHash's remote call.                                        *)
MCOneCaller == {c1}
MCCallers == {c1, c2}
MCKeyPropSize == [n \in {"kA"} |-> 2]

(* Addresses and callers are only compared for equality. *)
Symmetry == Permutations(MCAddrs) \cup Permutations(MCCallers)
AddrSymmetry == Permutations(MCAddrs)
=============================================================================
