----------------------------- MODULE LoadedStore -----------------------------
(***************************************************************************)
(* The promise of Token::New about its object store, without the loops:    *)
(* construction either fails, or in one step yields a HandleMap that binds *)
(* one handle to each object of each eligible key version (a public key    *)
(* and a private key object and, with certificates, a certificate object), *)
(* no handle to two objects and no object to two handles; and it ends.    *)
(***************************************************************************)
EXTENDS Naturals, FiniteSets

CONSTANTS
  Versions,  \* identities of the key versions the store must expose
  Handles,
  None

VARIABLES
  status,  \* "loading", "ready" or "failed"
  store,   \* handle -> [ckv, class], once ready
  certs    \* whether certificates are generated

vars == <<status, store, certs>>

(* CK_OBJECT_CLASS values: certificate 1, public key 2, private key 3. *)
Classes(withCerts) == {2, 3} \cup (IF withCerts THEN {1} ELSE {})

Expected(withCerts) ==
  {[ckv |-> v, class |-> c] : v \in Versions, c \in Classes(withCerts)}

Init ==
  /\ status = "loading"
  /\ store = [h \in {} |-> None]
  /\ certs \in BOOLEAN

(* Ready: the store binds distinct handles to exactly the expected objects. *)
Finish ==
  /\ status = "loading" /\ status' = "ready"
  /\ DOMAIN store' \subseteq Handles
  /\ {store'[h] : h \in DOMAIN store'} = Expected(certs)
  /\ Cardinality(DOMAIN store') = Cardinality(Expected(certs))
  /\ UNCHANGED certs

Abort ==
  /\ status = "loading" /\ status' = "failed"
  /\ UNCHANGED <<store, certs>>

Next == Finish \/ Abort

(* Construction ends.  Stated as a temporal formula rather than as weak   *)
(* fairness of Next, whose enabledness would need every possible store.   *)
Terminates == <>(status \in {"ready", "failed"})

Spec == Init /\ [][Next]_vars /\ Terminates

====
