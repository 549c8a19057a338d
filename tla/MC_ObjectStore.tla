--------------------------- MODULE MC_ObjectStore ---------------------------
(* A key ring of four keys, listed out of name order: an HSM signing key   *)
(* with an enabled and a disabled version, a software signing key, an HSM  *)
(* decryption key whose first version has an algorithm the library does   *)
(* not support, and an HSM symmetric key.  Two versions are eligible, so a *)
(* successful load with certificates allocates six handles; RandomHandle   *)
(* may return any of seven, so every draw can collide with an earlier one. *)
EXTENDS ObjectStore

Ver(enabled, algOk) == [enabled |-> enabled, algOk |-> algOk]

MCKmsKeys ==
  << [name |-> "k3", hsm |-> TRUE, purpose |-> "ASYMMETRIC_SIGN",
      versions |-> << Ver(TRUE, TRUE), Ver(FALSE, TRUE) >>],
     [name |-> "k1", hsm |-> FALSE, purpose |-> "ASYMMETRIC_SIGN",
      versions |-> << Ver(TRUE, TRUE) >>],
     [name |-> "k2", hsm |-> TRUE, purpose |-> "ASYMMETRIC_DECRYPT",
      versions |-> << Ver(TRUE, FALSE), Ver(TRUE, TRUE) >>],
     [name |-> "k4", hsm |-> TRUE, purpose |-> "ENCRYPT_DECRYPT",
      versions |-> << Ver(TRUE, TRUE) >>] >>

MCHandles == 1..7
====
