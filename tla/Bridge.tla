------------------------------- MODULE Bridge -------------------------------
(***************************************************************************)
(* kmscng/main/bridge.cc: the NCrypt key storage provider entry points.    *)
(*                                                                         *)
(* An NCRYPT_PROV_HANDLE is the address of a heap Provider (new Provider() *)
(* at line 60) and an NCRYPT_KEY_HANDLE the address of a heap Object       *)
(* (Object::New at line 164); FreeProvider and FreeKey delete them.  The   *)
(* heap is a set of addresses: `new` returns any address not currently     *)
(* allocated, including one freed earlier.  A ghost allocation number      *)
(* (id) tells apart the objects that lived at one address.                 *)
(*                                                                         *)
(* Every entry point but SignHash runs without blocking and is one step.   *)
(* SignHash validates the key and then makes the remote signing call       *)
(* (SignDigest, line 266) with the Object* it validated: it is two steps,  *)
(* and other callers' steps can fall between them.                         *)
(*                                                                         *)
(* Provider, Object, ValidateProviderHandle, ValidateKeyHandle and the     *)
(* property tables are not in this repository's sources; they are modelled *)
(* from the specification (section 4.4): handles are resolved against the  *)
(* live objects and a key must name the provider it was opened under.      *)
(***************************************************************************)
EXTENDS Naturals, Sequences, FiniteSets, TLC

LOCAL SeqExt == INSTANCE SequencesExt

CONSTANTS
  Addrs,          \* heap addresses `new` can return (never Null)
  Null,           \* the zero handle / null pointer
  Callers,        \* threads calling the provider
  KeyNames,       \* key version names a caller may pass to OpenKey
  KnownKeys,      \* names that exist in Cloud KMS
  SupportedKeys,  \* known names whose algorithm and protection level pass
                  \* ValidateKeyPreconditions
  FixedProps,     \* provider properties that cannot be set
  MutableProps,   \* provider properties SetProviderProperty may change
  FixedSize,      \* byte length of a fixed provider property value
  ValueSizes,     \* byte lengths a mutable property value can have
  DefaultSize,    \* byte length of a mutable property before any set
  KeyPropSize,    \* KeyPropSize[n]: length of the key property of key n
  SigLen,         \* SignatureLength of every supported key
  MaxBuf,         \* largest caller buffer size tried
  MaxAllocs,      \* bound on `new` calls (providers plus keys)
  None

ASSUME /\ Null \notin Addrs
       /\ SupportedKeys \subseteq KnownKeys /\ KnownKeys \subseteq KeyNames
       /\ DefaultSize \in ValueSizes
       /\ KeyPropSize \in [SupportedKeys -> Nat]

(***************************************************************************)
(* Arguments.  Every entry point checks its pointer arguments (and the     *)
(* provider name, the legacy key spec and pPaddingInfo) right after the    *)
(* handle and before the flags, all with NTE_INVALID_PARAMETER; a call is  *)
(* therefore told apart only by whether one of them is bad (badArg).  The  *)
(* output buffer is NoBuf (pbOutput null: a size query) or its cbOutput.  *)
(***************************************************************************)
NoBuf == 0
ProvPropNames == FixedProps \cup MutableProps
KeyProp == "key_usage"
ProvPropArgs == ProvPropNames \cup {"unsupported"}
KeyPropArgs == {KeyProp, "unsupported"}

Status == {"OK", "PENDING", "NTE_INVALID_PARAMETER", "NTE_INVALID_HANDLE",
           "NTE_BAD_FLAGS", "NTE_NOT_SUPPORTED", "NTE_BAD_KEYSET",
           "NTE_BUFFER_TOO_SMALL", "REMOTE_ERROR"}

VARIABLES
  provs,    \* live Provider objects: address -> [id, props]
  keys,     \* live Object (key) objects: address -> [id, prov, provId, name]
  allocs,   \* number of `new` calls so far (the next ghost id)
  signing,  \* signing[c]: the key SignHash of c validated, while c is in
            \* the remote call; None otherwise
  query,    \* query[c]: what the last size query of c reported
  copying,  \* copying[c]: the property value a getter of c holds a
            \* string_view of, between its size check and its copy; None
            \* otherwise.  valid turns FALSE when the storage is destroyed.
  last      \* the call completed by the last step, with its arguments

vars == <<provs, keys, allocs, signing, query, copying, last>>

Allocated == DOMAIN provs \cup DOMAIN keys

(* ValidateFlags (lines 34-41): only 0 and NCRYPT_SILENT_FLAG. *)
ValidateFlags(fl) == fl \in {{}, {"silent"}}

(***************************************************************************)
(* The early returns of an entry point, in code order: a sequence of       *)
(* <<failed, status>> checks; the first failed check decides the result.   *)
(***************************************************************************)
Outcome(checks) ==
  LET i == SeqExt!SelectInSeq(checks, LAMBDA ch : ch[1])
  IN  IF i = 0 THEN "OK" ELSE checks[i][2]

(* ValidateProviderHandle (spec_modelled): null or not a live Provider. *)
ProviderHandleBad(p) == p \notin DOMAIN provs

(* ValidateKeyHandle (spec_modelled): a live provider, and a live key      *)
(* whose back-reference is this provider handle.                          *)
KeyHandleBad(p, k) ==
  ProviderHandleBad(p) \/ k \notin DOMAIN keys \/ keys[k].prov # p

(* Provider::GetProperty value length (spec_modelled); 0 where unknown. *)
ProvPropSize(p, name) ==
  CASE p \in DOMAIN provs /\ name \in MutableProps -> provs[p].props[name]
    [] name \in FixedProps -> FixedSize
    [] OTHER -> 0

(* Object::GetProperty value length (spec_modelled); 0 where unknown. *)
KeyPropLen(k, name) ==
  IF k \in DOMAIN keys /\ name = KeyProp THEN KeyPropSize[keys[k].name] ELSE 0

(* Variant of the buffer check that also refuses a buffer of exactly the  *)
(* value's size (cbOutput <= size instead of cbOutput < size).            *)
TooSmallOffByOne(buf, size) == buf # NoBuf /\ buf <= size

(* The buffer-size check shared by the property getters and SignHash:     *)
(* a non-null output buffer smaller than the value.                       *)
TooSmall(buf, size) == buf # NoBuf /\ buf < size

(* The call the last step completed, reduced to what the properties ask:  *)
(* its status; whether it was the second half of a size query of the same *)
(* caller on the same, unchanged object (fill); whether it accepted a key *)
(* handle whose key was opened under another Provider object than the one *)
(* now at its provider address (stale).                                   *)
KeyOps == {"FreeKey", "GetKeyProperty", "SignHash"}

IsFill(c, op, p, k, name, buf) ==
  LET q == query[c]
  IN  /\ q # None /\ ~q.dirty
      /\ q.op = op /\ q.p = p /\ q.k = k /\ q.name = name /\ buf = q.size
      /\ p \in DOMAIN provs /\ provs[p].id = q.pid
      /\ op # "GetProviderProperty" => k \in DOMAIN keys /\ keys[k].id = q.id

Call(c, op, p, k, name, buf, st) ==
  [status |-> st,
   fill |-> IsFill(c, op, p, k, name, buf),
   stale |-> /\ op \in KeyOps /\ st \in {"OK", "PENDING"}
             /\ keys[k].provId \notin {None, provs[p].id}]

Idle(c) == signing[c] = None /\ copying[c] = None

(* Setting a property value or deleting its object destroys the string a *)
(* getter's string_view points into: the views of (a, name) for names in *)
(* `names` are left dangling.                                            *)
Invalidate(a, names) ==
  copying' = [x \in Callers |->
                IF copying[x] # None /\ copying[x].a = a /\ copying[x].name \in names
                  THEN [copying[x] EXCEPT !.valid = FALSE] ELSE copying[x]]

TypeOK ==
  /\ DOMAIN provs \subseteq Addrs /\ DOMAIN keys \subseteq Addrs
  /\ DOMAIN provs \cap DOMAIN keys = {}
  /\ \A a \in DOMAIN provs :
       provs[a] \in [id : 1..MaxAllocs, props : [MutableProps -> ValueSizes]]
  /\ \A a \in DOMAIN keys :
       keys[a] \in [id : 1..MaxAllocs, prov : Addrs,
                    provId : 1..MaxAllocs \cup {None}, name : SupportedKeys]
  /\ allocs \in 0..MaxAllocs
  /\ signing \in [Callers -> [a : Addrs, id : 1..MaxAllocs] \cup {None}]
  /\ copying \in [Callers -> [a : Addrs, name : ProvPropArgs \cup KeyPropArgs,
                              valid : BOOLEAN] \cup {None}]
  /\ last \in [status : Status, fill : BOOLEAN, stale : BOOLEAN]

Init ==
  /\ provs = [a \in {} |-> None]
  /\ keys = [a \in {} |-> None]
  /\ allocs = 0
  /\ signing = [c \in Callers |-> None]
  /\ query = [c \in Callers |-> None]
  /\ copying = [c \in Callers |-> None]
  /\ last = [status |-> "OK", fill |-> FALSE, stale |-> FALSE]

(* A call that changes nothing but its result. *)
Reject(c, op, p, k, name, buf, st) ==
  /\ last' = Call(c, op, p, k, name, buf, st)
  /\ UNCHANGED <<provs, keys, allocs, signing, query, copying>>

(* A size query (output buffer null) that succeeded is remembered by the   *)
(* caller; the ghost flag dirty records a later set of the same value.     *)
Remember(c, op, p, k, name, id, size) ==
  query' = [query EXCEPT ![c] = [op |-> op, p |-> p, k |-> k, name |-> name,
                                 pid |-> provs[p].id, id |-> id, size |-> size,
                                 dirty |-> FALSE]]

(* What both getters do once the checks are decided (GetProviderProperty *)
(* lines 93-109, GetKeyProperty 200-217): a size query is remembered; past *)
(* the buffer check with an output buffer the getter holds a string_view   *)
(* of the value of object a until it copies it, so the call is pending.   *)
GetterResult(c, op, p, k, a, name, buf, st, id, size) ==
  LET view == st = "OK" /\ buf # NoBuf
  IN  /\ last' = Call(c, op, p, k, name, buf, IF view THEN "PENDING" ELSE st)
      /\ IF st = "OK" /\ buf = NoBuf THEN Remember(c, op, p, k, name, id, size)
                                     ELSE UNCHANGED query
      /\ copying' = IF view THEN [copying EXCEPT ![c] = [a |-> a, name |-> name,
                                                        valid |-> TRUE]]
                             ELSE copying
      /\ UNCHANGED <<provs, keys, allocs, signing>>

(* OpenProvider (lines 46-62); badArg: phProvider null or a name other    *)
(* than kProviderName.                                                    *)
OpenProvider(c, badArg, fl) ==
  LET st == Outcome(<< <<badArg, "NTE_INVALID_PARAMETER">>,
                       <<~ValidateFlags(fl), "NTE_BAD_FLAGS">> >>)
  IN  \/ /\ st # "OK"
         /\ Reject(c, "OpenProvider", Null, Null, None, NoBuf, st)
      \/ \E a \in Addrs \ Allocated :
           /\ st = "OK" /\ allocs < MaxAllocs
           /\ provs' = provs @@ (a :> [id |-> allocs + 1,
                                      props |-> [m \in MutableProps |-> DefaultSize]])
           /\ allocs' = allocs + 1
           /\ last' = Call(c, "OpenProvider", a, Null, None, NoBuf, "OK")
           /\ UNCHANGED <<keys, signing, query, copying>>

(* FreeProvider (lines 66-70): deletes the Provider and nothing else. *)
FreeProvider(c, p) ==
  \/ /\ ProviderHandleBad(p)
     /\ Reject(c, "FreeProvider", p, Null, None, NoBuf, "NTE_INVALID_HANDLE")
  \/ /\ ~ProviderHandleBad(p)
     /\ provs' = [a \in DOMAIN provs \ {p} |-> provs[a]]
     /\ Invalidate(p, ProvPropArgs)
     /\ last' = Call(c, "FreeProvider", p, Null, None, NoBuf, "OK")
     /\ UNCHANGED <<keys, allocs, signing, query>>

(* GetProviderProperty (lines 74-111); badArg: pszProperty or pcbResult   *)
(* null.  *pcbResult is written before the buffer checks.                 *)
GetProviderProperty(c, p, badArg, name, buf, fl) ==
  LET size == ProvPropSize(p, name)
      st == Outcome(<< <<ProviderHandleBad(p), "NTE_INVALID_HANDLE">>,
                       <<badArg, "NTE_INVALID_PARAMETER">>,
                       <<~ValidateFlags(fl), "NTE_BAD_FLAGS">>,
                       <<name \notin ProvPropNames, "NTE_NOT_SUPPORTED">>,
                       <<TooSmall(buf, size), "NTE_BUFFER_TOO_SMALL">> >>)
  IN  GetterResult(c, "GetProviderProperty", p, Null, p, name, buf, st,
                   provs[p].id, size)

(* SetProviderProperty (lines 115-132) with Provider::SetProperty:         *)
(* unknown names are not supported, fixed ones are invalid parameters.     *)
(* badArg: pszProperty or pbInput null.                                    *)
SetProviderProperty(c, p, badArg, name, size, fl) ==
  LET st == Outcome(<< <<ProviderHandleBad(p), "NTE_INVALID_HANDLE">>,
                       <<badArg, "NTE_INVALID_PARAMETER">>,
                       <<~ValidateFlags(fl), "NTE_BAD_FLAGS">>,
                       <<name \notin ProvPropNames, "NTE_NOT_SUPPORTED">>,
                       <<name \in FixedProps, "NTE_INVALID_PARAMETER">> >>)
  IN  \/ /\ st # "OK"
         /\ Reject(c, "SetProviderProperty", p, Null, name, size, st)
      \/ /\ st = "OK"
         /\ provs' = [provs EXCEPT ![p].props[name] = size]
         /\ query' = [x \in Callers |->
                        IF /\ query[x] # None /\ query[x].op = "GetProviderProperty"
                           /\ query[x].p = p /\ query[x].name = name
                           /\ query[x].id = provs[p].id
                        THEN [query[x] EXCEPT !.dirty = TRUE] ELSE query[x]]
         /\ Invalidate(p, {name})
         /\ last' = Call(c, "SetProviderProperty", p, Null, name, size, "OK")
         /\ UNCHANGED <<keys, allocs, signing>>

(***************************************************************************)
(* Object::New (spec_modelled): reads the endpoint properties of the       *)
(* Provider at p, fetches the key version from Cloud KMS (NTE_BAD_KEYSET   *)
(* if absent, a remote error if unavailable), checks the algorithm and     *)
(* protection level (NTE_NOT_SUPPORTED) and allocates the Object, which    *)
(* keeps p.  OpenKey only rejects p = 0, so p may be an address that holds *)
(* no Provider: reading it is undefined behaviour, modelled as either a    *)
(* failure or an Object bound to p.                                        *)
(***************************************************************************)
NewKey(c, p, name, provId, st) ==
  \E a \in Addrs \ Allocated :
    /\ allocs < MaxAllocs
    /\ keys' = keys @@ (a :> [id |-> allocs + 1, prov |-> p, provId |-> provId,
                              name |-> name])
    /\ allocs' = allocs + 1
    /\ last' = Call(c, "OpenKey", p, a, name, NoBuf, st)
    /\ UNCHANGED <<provs, signing, query, copying>>

(* Variant of Object::New without ValidateKeyPreconditions: a key with an  *)
(* unsupported algorithm or protection level is opened.                   *)
ObjectNewNoPrecheck(c, p, name) ==
  \/ /\ name \notin KnownKeys
     /\ Reject(c, "OpenKey", p, Null, name, NoBuf, "NTE_BAD_KEYSET")
  \/ /\ name \in KnownKeys /\ p \in DOMAIN provs
     /\ NewKey(c, p, name, provs[p].id, "OK")

ObjectNew(c, p, name) ==
  IF p \in DOMAIN provs
    THEN LET st == Outcome(<< <<name \notin KnownKeys, "NTE_BAD_KEYSET">>,
                              <<name \notin SupportedKeys, "NTE_NOT_SUPPORTED">> >>)
         IN  \/ /\ st # "OK"
                /\ Reject(c, "OpenKey", p, Null, name, NoBuf, st)
             \/ /\ st = "OK"
                /\ Reject(c, "OpenKey", p, Null, name, NoBuf, "REMOTE_ERROR")
             \/ /\ st = "OK"
                /\ NewKey(c, p, name, provs[p].id, "OK")
    ELSE \/ Reject(c, "OpenKey", p, Null, name, NoBuf, "REMOTE_ERROR")
         \/ /\ name \in SupportedKeys
            /\ NewKey(c, p, name, None, "OK")

(* The argument checks of OpenKey before its flag check; badArg: phKey or *)
(* pszKeyName null, or dwLegacyKeySpec neither AT_KEYEXCHANGE nor         *)
(* AT_SIGNATURE.                                                          *)
OpenKeyArgStatus(p, badArg) ==
  Outcome(<< <<p = Null, "NTE_INVALID_HANDLE">>,
             <<badArg, "NTE_INVALID_PARAMETER">> >>)

(* OpenKey masks NCRYPT_SILENT_FLAG and NCRYPT_MACHINE_KEY_FLAG off before *)
(* checking that no other flag is set.                                      *)
OpenKeyBadFlags(fl) == fl \ {"silent", "machine"} # {}

(* Variant of OpenKey that constructs the Object before the flag check:   *)
(* a bad flag is reported but the Object stays allocated.                  *)
OpenKeyAllocFirst(c, p, badArg, name, fl) ==
  LET st == OpenKeyArgStatus(p, badArg)
  IN  \/ /\ st # "OK"
         /\ Reject(c, "OpenKey", p, Null, name, NoBuf, st)
      \/ /\ st = "OK" /\ ~OpenKeyBadFlags(fl)
         /\ ObjectNew(c, p, name)
      \/ /\ st = "OK" /\ OpenKeyBadFlags(fl)
         /\ \/ Reject(c, "OpenKey", p, Null, name, NoBuf, "NTE_BAD_FLAGS")
            \/ /\ p \in DOMAIN provs /\ name \in SupportedKeys
               /\ NewKey(c, p, name, provs[p].id, "NTE_BAD_FLAGS")

(* OpenKey (lines 135-168). *)
OpenKey(c, p, badArg, name, fl) ==
  LET st == Outcome(<< <<OpenKeyArgStatus(p, badArg) # "OK",
                         OpenKeyArgStatus(p, badArg)>>,
                       <<OpenKeyBadFlags(fl), "NTE_BAD_FLAGS">> >>)
  IN  \/ /\ st # "OK"
         /\ Reject(c, "OpenKey", p, Null, name, NoBuf, st)
      \/ /\ st = "OK"
         /\ ObjectNew(c, p, name)

(* FreeKey (lines 172-177). *)
FreeKey(c, p, k) ==
  LET st == Outcome(<< <<KeyHandleBad(p, k), "NTE_INVALID_HANDLE">> >>)
  IN  \/ /\ st # "OK"
         /\ Reject(c, "FreeKey", p, k, None, NoBuf, st)
      \/ /\ st = "OK"
         /\ keys' = [a \in DOMAIN keys \ {k} |-> keys[a]]
         /\ Invalidate(k, KeyPropArgs)
         /\ last' = Call(c, "FreeKey", p, k, None, NoBuf, "OK")
         /\ UNCHANGED <<provs, allocs, signing, query>>

(* GetKeyProperty (lines 181-219); badArg: pszProperty or pcbResult null. *)
GetKeyProperty(c, p, k, badArg, name, buf, fl) ==
  LET size == KeyPropLen(k, name)
      st == Outcome(<< <<KeyHandleBad(p, k), "NTE_INVALID_HANDLE">>,
                       <<badArg, "NTE_INVALID_PARAMETER">>,
                       <<~ValidateFlags(fl), "NTE_BAD_FLAGS">>,
                       <<name # KeyProp, "NTE_NOT_SUPPORTED">>,
                       <<TooSmall(buf, size), "NTE_BUFFER_TOO_SMALL">> >>)
  IN  GetterResult(c, "GetKeyProperty", p, k, k, name, buf, st, keys[k].id, size)

(***************************************************************************)
(* SignHash (lines 221-269), first step: everything up to the remote call. *)
(* badArg: pPaddingInfo non-null, pbHashValue or pcbResult null.           *)
(* ValidateKeyPreconditions re-checks the key's algorithm and protection   *)
(* level; SignatureLength is SigLen.  With an output buffer large enough   *)
(* the caller enters the remote call holding the validated Object*.       *)
(***************************************************************************)
SignHashBegin(c, p, k, badArg, buf, fl) ==
  LET st == Outcome(<< <<KeyHandleBad(p, k), "NTE_INVALID_HANDLE">>,
                       <<badArg, "NTE_INVALID_PARAMETER">>,
                       <<~ValidateFlags(fl), "NTE_BAD_FLAGS">>,
                       <<k \in DOMAIN keys /\ keys[k].name \notin SupportedKeys,
                         "NTE_NOT_SUPPORTED">>,
                       <<TooSmall(buf, SigLen), "NTE_BUFFER_TOO_SMALL">> >>)
  IN  \/ /\ st = "OK" /\ buf # NoBuf
         /\ signing' = [signing EXCEPT ![c] = [a |-> k, id |-> keys[k].id]]
         /\ last' = Call(c, "SignHash", p, k, None, buf, "PENDING")
         /\ UNCHANGED <<provs, keys, allocs, query, copying>>
      \/ /\ st = "OK" /\ buf = NoBuf
         /\ Remember(c, "SignHash", p, k, None, keys[k].id, SigLen)
         /\ last' = Call(c, "SignHash", p, k, None, buf, "OK")
         /\ UNCHANGED <<provs, keys, allocs, signing, copying>>
      \/ /\ st # "OK"
         /\ Reject(c, "SignHash", p, k, None, buf, st)

(* SignHash, second step: SignDigest on the remembered Object* (line 266), *)
(* a blocking call to Cloud KMS that may fail.                             *)
SignHashEnd(c) ==
  /\ signing[c] # None
  /\ \E st \in {"OK", "REMOTE_ERROR"} :
       last' = Call(c, "SignHashEnd", Null, signing[c].a, None, SigLen, st)
  /\ signing' = [signing EXCEPT ![c] = None]
  /\ UNCHANGED <<provs, keys, allocs, query, copying>>

(* A getter's second step: property_value.copy into pbOutput (lines 109   *)
(* and 217) from the view it took, then OK.                               *)
CopyPropertyValue(c) ==
  /\ copying[c] # None
  /\ copying' = [copying EXCEPT ![c] = None]
  /\ last' = [status |-> "OK", fill |-> FALSE, stale |-> FALSE]
  /\ UNCHANGED <<provs, keys, allocs, signing, query>>

Handle == Addrs \cup {Null}
Bufs == 0..MaxBuf
(* ValidateFlags accepts NCRYPT_SILENT_FLAG as it accepts 0 and rejects    *)
(* every other bit alike, so 0 and one unsupported bit stand for all flag *)
(* words; OpenKey also masks NCRYPT_MACHINE_KEY_FLAG.                     *)
ValidatedFlagArgs == {{}, {"persist_only"}}
OpenKeyFlagArgs == {{}, {"silent", "machine"}, {"persist_only"}}

Next ==
  \E c \in Callers :
    \/ SignHashEnd(c)
    \/ CopyPropertyValue(c)
    \/ /\ Idle(c)
       /\ \/ \E badArg \in BOOLEAN, fl \in ValidatedFlagArgs :
                OpenProvider(c, badArg, fl)
          \/ \E p \in Handle : FreeProvider(c, p)
          \/ \E p \in Handle, badArg \in BOOLEAN, name \in ProvPropArgs,
                buf \in Bufs, fl \in ValidatedFlagArgs :
                GetProviderProperty(c, p, badArg, name, buf, fl)
          \/ \E p \in Handle, badArg \in BOOLEAN, name \in ProvPropArgs,
                size \in ValueSizes, fl \in ValidatedFlagArgs :
                SetProviderProperty(c, p, badArg, name, size, fl)
          \/ \E p \in Handle, badArg \in BOOLEAN, name \in KeyNames, fl \in OpenKeyFlagArgs :
                OpenKey(c, p, badArg, name, fl)
          \/ \E p, k \in Handle : FreeKey(c, p, k)
          \/ \E p, k \in Handle, badArg \in BOOLEAN, name \in KeyPropArgs,
                buf \in Bufs, fl \in ValidatedFlagArgs :
                GetKeyProperty(c, p, k, badArg, name, buf, fl)
          \/ \E p, k \in Handle, badArg \in BOOLEAN, buf \in Bufs,
                fl \in ValidatedFlagArgs :
                SignHashBegin(c, p, k, badArg, buf, fl)

Spec == Init /\ [][Next]_vars

-----------------------------------------------------------------------------
(***************************************************************************)
(* Properties.                                                             *)
(***************************************************************************)

(* The two-call buffer convention: a caller that asked for the size of a   *)
(* provider property, a key property or a signature (null output buffer)   *)
(* and then calls again on the same object with a buffer of exactly that   *)
(* size is not refused for the handle, the name or the buffer size, as     *)
(* long as no one has set that property since and the object at the       *)
(* handle is the one it asked (a freed and reallocated address is not).    *)
SizeQueryThenFill ==
  last.fill => last.status \notin {"NTE_INVALID_HANDLE", "NTE_NOT_SUPPORTED",
                                   "NTE_BUFFER_TOO_SMALL"}

(* A call that reports an error has no effect: it allocates, frees and     *)
(* changes no Provider or key object (OpenKey validates all its arguments  *)
(* before Object::New allocates).                                          *)
NoEffectOnError ==
  [][ last'.status \notin {"OK", "PENDING"} => UNCHANGED <<provs, keys, allocs>> ]_vars

OpenKeyUnderLiveProvider == \A a \in DOMAIN keys : keys[a].provId # None

(* A key object stays allocated while a SignHash that validated it is in   *)
(* the remote call that uses it (spec section 5: concurrent calls on the   *)
(* same handles, no use-after-free).                                       *)
SignNoUseAfterFree ==
  \A c \in Callers :
    signing[c] # None =>
      signing[c].a \in DOMAIN keys /\ keys[signing[c].a].id = signing[c].id


(* A property getter copies from the value it measured: between the       *)
(* GetProperty that returned the string_view and the copy into the        *)
(* caller's buffer, no other call sets that property or deletes the       *)
(* Provider or key object that holds it (spec section 5: concurrent calls *)
(* on the same handles).                                                  *)
PropertyViewLive ==
  \A c \in Callers : copying[c] # None => copying[c].valid

=============================================================================
