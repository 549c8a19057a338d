------------------------------ MODULE MC_Token ------------------------------
(* The key ring of MC_ObjectStore, with key names as numbers in name       *)
(* order (30, 10, 20, 40: listed out of order), six handles, two threads.  *)
EXTENDS Token

CONSTANTS h1, h2, h3, h4, h5, h6, t1, t2

Ver(enabled, algOk) == [enabled |-> enabled, algOk |-> algOk]

MCKmsKeys ==
  << [name |-> 30, hsm |-> TRUE, purpose |-> "ASYMMETRIC_SIGN",
      versions |-> << Ver(TRUE, TRUE), Ver(FALSE, TRUE) >>],
     [name |-> 10, hsm |-> FALSE, purpose |-> "ASYMMETRIC_SIGN",
      versions |-> << Ver(TRUE, TRUE) >>],
     [name |-> 20, hsm |-> TRUE, purpose |-> "ASYMMETRIC_DECRYPT",
      versions |-> << Ver(TRUE, FALSE), Ver(TRUE, TRUE) >>],
     [name |-> 40, hsm |-> TRUE, purpose |-> "ENCRYPT_DECRYPT",
      versions |-> << Ver(TRUE, TRUE) >>] >>

MCHandles == {h1, h2, h3, h4, h5, h6}
MCThreads == {t1, t2}

(* All objects; public keys and certificates.                     *)
MCClassQueries == {{1, 2, 3}, {1, 2}}

(* Handles and threads are only compared for equality (FindObjects sorts *)
(* by the objects, not by their handles).                                  *)
Symmetry == Permutations(MCHandles) \cup Permutations(MCThreads)
====
