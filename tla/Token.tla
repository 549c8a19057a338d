-------------------------------- MODULE Token --------------------------------
(***************************************************************************)
(* kmsp11/token.cc, Token: Token::New builds the object store (module      *)
(* ObjectStore); once it has succeeded, threads of the application call   *)
(* Login and Logout, which take login_mutex_ as writers, and FindObjects,  *)
(* which reads the HandleMap under its reader lock.  The object store is   *)
(* never written after construction.                                        *)
(***************************************************************************)
EXTENDS ObjectStore

LOCAL INSTANCE HandleFind

CONSTANTS
  Threads,
  UserTypes,       \* CK_USER_TYPE arguments: CKU_SO, CKU_USER,
                   \* CKU_CONTEXT_SPECIFIC and one unknown value
  ClassQueries     \* FindObjects predicates: the object classes they match

VARIABLES
  loggedIn,  \* is_logged_in_
  rv,        \* rv[t]: the CK_RV of thread t's last Login or Logout
  found,     \* found[t]: the results its last FindObjects may have returned
  lock,      \* the thread holding login_mutex_ as writer, or None
  reading    \* reading[t]: the is_logged_in_ that t's Login read under the
             \* lock, None when t is not inside Login

tokenVars == <<loggedIn, rv, found, lock, reading>>
allVars == <<vars, tokenVars>>

RVs == {"CKR_OK", "CKR_PIN_LOCKED", "CKR_OPERATION_NOT_INITIALIZED",
        "CKR_USER_TYPE_INVALID", "CKR_USER_ALREADY_LOGGED_IN",
        "CKR_USER_NOT_LOGGED_IN", "none"}

TokenInit ==
  /\ Init
  /\ loggedIn = FALSE
  /\ rv = [t \in Threads |-> "none"]
  /\ found = [t \in Threads |-> {}]
  /\ lock = None
  /\ reading = [t \in Threads |-> None]

(* Token::New: the loader's steps; the token exists once it is done. *)
Construct == Next /\ UNCHANGED tokenVars

Ready == phase = "done"

(* A thread outside Login, free to make another call. *)
Idle(t) == Ready /\ reading[t] = None

(* The CK_RV Login returns before it takes the lock (lines 241-258). *)
LoginTypeRv(user) ==
  CASE user = "CKU_USER" -> "CKR_OK"
    [] user = "CKU_SO" -> "CKR_PIN_LOCKED"
    [] user = "CKU_CONTEXT_SPECIFIC" -> "CKR_OPERATION_NOT_INITIALIZED"
    [] OTHER -> "CKR_USER_TYPE_INVALID"

(* Variant of LoginBegin that reads is_logged_in_ without taking         *)
(* login_mutex_.                                                           *)
LoginBeginUnlocked(t, user) ==
  /\ Idle(t)
  /\ IF LoginTypeRv(user) # "CKR_OK"
       THEN rv' = [rv EXCEPT ![t] = LoginTypeRv(user)] /\ UNCHANGED reading
       ELSE reading' = [reading EXCEPT ![t] = loggedIn] /\ UNCHANGED rv
  /\ UNCHANGED <<vars, loggedIn, found, lock>>

(* Login (lines 240-267), first step: an unsupported user type returns     *)
(* before the lock; otherwise the thread takes login_mutex_ as writer and  *)
(* reads is_logged_in_ (lines 260-261).                                    *)
LoginBegin(t, user) ==
  /\ Idle(t)
  /\ IF LoginTypeRv(user) # "CKR_OK"
       THEN rv' = [rv EXCEPT ![t] = LoginTypeRv(user)] /\ UNCHANGED <<lock, reading>>
       ELSE /\ lock = None /\ lock' = t
            /\ reading' = [reading EXCEPT ![t] = loggedIn] /\ UNCHANGED rv
  /\ UNCHANGED <<vars, loggedIn, found>>

(* Login, second step (lines 261-266): already logged in is an error;     *)
(* otherwise set is_logged_in_.  The lock is released on return.          *)
LoginEnd(t) ==
  /\ reading[t] # None
  /\ IF reading[t]
       THEN rv' = [rv EXCEPT ![t] = "CKR_USER_ALREADY_LOGGED_IN"] /\ UNCHANGED loggedIn
       ELSE rv' = [rv EXCEPT ![t] = "CKR_OK"] /\ loggedIn' = TRUE
  /\ lock' = None
  /\ reading' = [reading EXCEPT ![t] = None]
  /\ UNCHANGED <<vars, found>>

(* Logout (lines 269-277): check and clear under login_mutex_, one step. *)
Logout(t) ==
  /\ Idle(t) /\ lock = None
  /\ IF loggedIn
       THEN rv' = [rv EXCEPT ![t] = "CKR_OK"] /\ loggedIn' = FALSE
       ELSE rv' = [rv EXCEPT ![t] = "CKR_USER_NOT_LOGGED_IN"] /\ UNCHANGED loggedIn
  /\ UNCHANGED <<vars, found, lock, reading>>

(* Version identities compare as their resource names do: by key name,     *)
(* then by version number (version numbers below 10 compare as strings    *)
(* do).  Key names are numbers here, standing for their order.            *)
KmsKeyNameLess(a, b) == a[1] < b[1] \/ (a[1] = b[1] /\ a[2] < b[2])

(* Variant of the FindObjects comparator that only compares key names. *)
ObjectLessByName(o1, o2) == KmsKeyNameLess(o1.ckv, o2.ckv)

(* The FindObjects comparator (lines 282-287): kms_key_name, then          *)
(* object_class.                                                            *)
ObjectLess(o1, o2) ==
  IF o1.ckv = o2.ckv THEN o1.class < o2.class ELSE KmsKeyNameLess(o1.ckv, o2.ckv)

(* FindObjects (lines 279-288) with a predicate matching the classes q. *)
FindObjects(t, q) ==
  /\ Idle(t)
  /\ LET stored == {objects[h] : h \in DOMAIN objects}
     IN found' = [found EXCEPT ![t] =
          FindResults(objects, {h \in DOMAIN objects : objects[h].class \in q},
                      {p \in stored \X stored : ObjectLess(p[1], p[2])})]
  /\ UNCHANGED <<vars, loggedIn, rv, lock, reading>>

TokenNext ==
  \/ Construct
  \/ \E t \in Threads :
       \/ \E user \in UserTypes : LoginBegin(t, user)
       \/ LoginEnd(t)
       \/ Logout(t)
       \/ \E q \in ClassQueries : FindObjects(t, q)

TokenSpec == TokenInit /\ [][TokenNext]_allVars

-----------------------------------------------------------------------------
(* FindObjects is deterministic and complete: whatever order the hash map *)
(* iterates in and however std::sort breaks ties, the result is the one    *)
(* sequence of all matching handles in (key name, class) order.  It holds  *)
(* only because the loader gives each (version, class) pair exactly one    *)
(* handle, so the comparator never sees two equal objects.                 *)
FindObjectsDeterministic ==
  \A t \in Threads : found[t] # {} =>
    \E s \in found[t] :
      /\ found[t] = {s}
      /\ \A i \in 1..Len(s) - 1 : ObjectLess(objects[s[i]], objects[s[i + 1]])

(* A Login that returns CKR_OK is the one that turned is_logged_in_ from  *)
(* false to true: two threads calling Login concurrently are never both   *)
(* told CKR_OK for one session.  It holds only because login_mutex_ is    *)
(* held from the read of is_logged_in_ (line 261) to its write (line 265). *)
LoginOpensSession ==
  [][\A t \in Threads :
       reading[t] # None /\ reading'[t] = None /\ rv'[t] = "CKR_OK" => ~loggedIn]_allVars

====
