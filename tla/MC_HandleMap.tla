---------------------------- MODULE MC_HandleMap ----------------------------
(* Model-checking instance of HandleMap: three handles, two threads and     *)
(* three objects, so that the map fills up, handles are removed and reused,  *)
(* and one thread holds an object while the other removes its handle.       *)
(* As many objects as handles: the map is never full when an Add starts,   *)
(* as it never is with 2^64 handles, but the last Add has one free handle  *)
(* to find among occupied ones.  No symmetry: the run checks liveness.     *)
EXTENDS HandleMap

CONSTANTS t1, t2, o1, o2, o3

MCHandles == {1, 2, 3}
MCThreads == {t1, t2}
MCObjects == {o1, o2, o3}
=============================================================================
