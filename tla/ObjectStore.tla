----------------------------- MODULE ObjectStore -----------------------------
(***************************************************************************)
(* kmsp11/token.cc: how Token::New builds the token's object store.        *)
(* LoadState enumerates the key ring (ListCryptoKeys, then for each        *)
(* eligible key ListCryptoKeyVersions and GetPublicKey), and                *)
(* ObjectStoreBuilder assigns each eligible version a private, a public    *)
(* and (with generate_certs) a certificate handle.  LoadObjects then        *)
(* registers the Objects of that snapshot in a HandleMap at exactly those  *)
(* handles with AddDirect.  The constructor runs on one thread; each step  *)
(* below is one iteration of one of its loops.  Every remote call and     *)
(* every parse can fail, and any failure aborts Token::New.                *)
(***************************************************************************)
EXTENDS Naturals, Sequences, FiniteSets, TLC

LOCAL SeqExt == INSTANCE SequencesExt

CONSTANTS
  KmsKeys,  \* what ListCryptoKeys returns, in order: a sequence of
            \* [name, hsm, purpose, versions], versions a sequence of
            \* [enabled, algOk] as ListCryptoKeyVersions returns them
  Handles,  \* the values RandomHandle() may return; never 0, which is
            \* CK_INVALID_HANDLE
  None

(* Object classes, with their CK_OBJECT_CLASS values. *)
CKO_CERTIFICATE == 1
CKO_PUBLIC_KEY == 2
CKO_PRIVATE_KEY == 3

(* Key purposes LoadState loads (line 171-172). *)
LoadedPurposes == {"ASYMMETRIC_SIGN", "ASYMMETRIC_DECRYPT"}

Phases == {"info", "start", "keys", "versions", "objects", "done", "failed"}

VARIABLES
  genCerts,   \* the generate_certs argument of Token::New
  phase,      \* where the constructor is
  ca,         \* cert_authority_ is set
  ki,         \* the CryptoKeysRange iterator (index into KmsKeys)
  vi,         \* the CryptoKeyVersionsRange iterator of key ki
  allocated,  \* ObjectStoreBuilder::allocated_handles_
  entries,    \* state_.asymmetric_keys(): [ckv, priv, pub, cert]
  oi,         \* LoadObjects' iterator over entries
  objects     \* the HandleMap LoadObjects fills: handle -> [ckv, class]

vars == <<genCerts, phase, ca, ki, vi, allocated, entries, oi, objects>>

(* A key version is identified by its key's name and its position. *)
Ckv(k, v) == <<KmsKeys[k].name, v>>

TypeOK ==
  /\ genCerts \in BOOLEAN /\ ca \in BOOLEAN
  /\ phase \in Phases
  /\ ki \in 1..Len(KmsKeys) + 1
  /\ allocated \subseteq Handles
  /\ \A j \in 1..Len(entries) :
       /\ entries[j].priv \in Handles /\ entries[j].pub \in Handles
       /\ entries[j].cert \in Handles \cup {None}
  /\ oi \in 1..Len(entries) + 1
  /\ DOMAIN objects \subseteq Handles

Init ==
  /\ genCerts \in BOOLEAN
  /\ phase = "info"
  /\ ca = FALSE
  /\ ki = 1 /\ vi = 1 /\ oi = 1
  /\ allocated = {}
  /\ entries = <<>>
  /\ objects = [h \in {} |-> None]

Fail ==
  /\ phase' = "failed"
  /\ UNCHANGED <<genCerts, ca, ki, vi, allocated, entries, oi, objects>>

(* Token::New first builds the slot and token info (lines 19-63, 220-222): *)
(* fixed strings that fit their fields, and the configured token label,   *)
(* which CryptokiStrCopy refuses when it does not fit the label field;    *)
(* that error aborts Token::New before any call to Cloud KMS.             *)
NewInfo ==
  /\ phase = "info"
  /\ \/ Fail
     \/ /\ phase' = "start"
        /\ UNCHANGED <<genCerts, ca, ki, vi, allocated, entries, oi, objects>>

(* ObjectStoreBuilder::New (lines 67-73), called first by LoadState        *)
(* (lines 152-157): CertAuthority::New may fail.                           *)
BuilderNew ==
  /\ phase = "start"
  /\ \/ /\ genCerts
        /\ \/ Fail
           \/ /\ ca' = TRUE
              /\ phase' = "keys"
              /\ UNCHANGED <<genCerts, ki, vi, allocated, entries, oi, objects>>
     \/ /\ ~genCerts
        /\ phase' = "keys"
        /\ UNCHANGED <<genCerts, ca, ki, vi, allocated, entries, oi, objects>>

(* Variant of the key filter without the protection-level check.         *)
KeyLoadedAnyProtection(k) == k.purpose \in LoadedPurposes

(* The key filter of LoadState (lines 162-179): HSM protection and an     *)
(* asymmetric sign or decrypt purpose.                                      *)
KeyLoaded(k) == k.hsm /\ k.purpose \in LoadedPurposes

(* Variant of the version filter without the state check: a disabled or  *)
(* destroyed version is loaded too.                                        *)
VersionLoadedAnyState(v) == v.algOk

(* The version filter of LoadVersions (lines 126-135): ENABLED, and an     *)
(* algorithm GetDetails knows.                                              *)
VersionLoaded(v) == v.enabled /\ v.algOk

(* One iteration of LoadState's loop over the keys (lines 159-181).  At    *)
(* the end builder.state() is returned and Token::New calls LoadObjects.  *)
LoadState ==
  /\ phase = "keys"
  /\ IF ki > Len(KmsKeys)
       THEN /\ phase' = "objects"
            /\ UNCHANGED <<genCerts, ca, ki, vi, allocated, entries, oi, objects>>
       ELSE \/ Fail    \* the page iterator returns an error (line 160)
            \/ /\ ~KeyLoaded(KmsKeys[ki])
               /\ ki' = ki + 1
               /\ UNCHANGED <<genCerts, phase, ca, vi, allocated, entries, oi, objects>>
            \/ /\ KeyLoaded(KmsKeys[ki])
               /\ phase' = "versions" /\ vi' = 1
               /\ UNCHANGED <<genCerts, ca, ki, allocated, entries, oi, objects>>

(***************************************************************************)
(* NewHandle (lines 102-109), called n times in a row: draw RandomHandle() *)
(* until it is not in allocated_handles_, and insert it.  The possible     *)
(* results of n calls: n distinct handles none of which was allocated.     *)
(***************************************************************************)
(* Variant without the allocated_handles_ check: whatever RandomHandle()   *)
(* returns is used.                                                        *)
NewHandlesUnchecked(n) == [1..n -> Handles]

(* Variant whose RandomHandle() may return 0, CK_INVALID_HANDLE. *)
NewHandlesWithZero(n) ==
  {hs \in [1..n -> (Handles \cup {0}) \ allocated] :
     \A i, j \in 1..n : i # j => hs[i] # hs[j]}

NewHandles(n) ==
  {hs \in [1..n -> Handles \ allocated] :
     \A i, j \in 1..n : i # j => hs[i] # hs[j]}

(***************************************************************************)
(* One iteration of LoadVersions (lines 118-145) over the versions of key  *)
(* ki, including AddAsymmetricKey (lines 77-99): ParseX509PublicKeyPem,    *)
(* NewHandle for the private then the public key and, with a cert          *)
(* authority, GenerateCert and a third NewHandle.  GetPublicKey, the PEM   *)
(* parse and GenerateCert can fail; so can the version page iterator.      *)
(***************************************************************************)
LoadVersions ==
  /\ phase = "versions"
  /\ LET vs == KmsKeys[ki].versions
     IN  IF vi > Len(vs)
           THEN /\ phase' = "keys" /\ ki' = ki + 1
                /\ UNCHANGED <<genCerts, ca, vi, allocated, entries, oi, objects>>
           ELSE \/ Fail    \* iterator (125), GetPublicKey (140), parse (80),
                           \* GenerateCert (91)
                \/ /\ ~VersionLoaded(vs[vi])
                   /\ vi' = vi + 1
                   /\ UNCHANGED <<genCerts, phase, ca, ki, allocated, entries, oi, objects>>
                \/ /\ VersionLoaded(vs[vi])
                   /\ \E hs \in NewHandles(IF ca THEN 3 ELSE 2) :
                        /\ allocated' = allocated \cup {hs[i] : i \in DOMAIN hs}
                        /\ entries' = Append(entries,
                              [ckv |-> Ckv(ki, vi), priv |-> hs[1], pub |-> hs[2],
                               cert |-> IF ca THEN hs[3] ELSE None])
                   /\ vi' = vi + 1
                   /\ UNCHANGED <<genCerts, phase, ca, ki, oi, objects>>

(* Variant that registers the public key object at the entry's private    *)
(* key handle and the private key object at its public key handle.        *)
EntryObjectsSwapped(e) ==
  << <<e.priv, [ckv |-> e.ckv, class |-> CKO_PUBLIC_KEY]>>,
     <<e.pub, [ckv |-> e.ckv, class |-> CKO_PRIVATE_KEY]>> >>
  \o (IF e.cert = None THEN <<>>
      ELSE << <<e.cert, [ckv |-> e.ckv, class |-> CKO_CERTIFICATE]>> >>)

(* The objects LoadObjects registers for one snapshot entry, in order:     *)
(* public key, private key and, if the entry has one, the certificate.     *)
EntryObjects(e) ==
  << <<e.pub, [ckv |-> e.ckv, class |-> CKO_PUBLIC_KEY]>>,
     <<e.priv, [ckv |-> e.ckv, class |-> CKO_PRIVATE_KEY]>> >>
  \o (IF e.cert = None THEN <<>>
      ELSE << <<e.cert, [ckv |-> e.ckv, class |-> CKO_CERTIFICATE]>> >>)

(***************************************************************************)
(* One iteration of LoadObjects (lines 184-212): AddDirect (HandleMap,     *)
(* lines 47-57) of each object of the entry at its stored handle.  An      *)
(* AddDirect at a handle already in use returns InternalError, which       *)
(* aborts Token::New.  The DER parses cannot fail on what the builder      *)
(* marshalled.                                                             *)
(***************************************************************************)
LoadObjects ==
  /\ phase = "objects"
  /\ IF oi > Len(entries)
       THEN /\ phase' = "done"
            /\ UNCHANGED <<genCerts, ca, ki, vi, allocated, entries, oi, objects>>
       ELSE LET os == EntryObjects(entries[oi])
                hs == {os[n][1] : n \in DOMAIN os}
            IN  /\ IF hs \cap DOMAIN objects = {} /\ Cardinality(hs) = Len(os)
                     THEN /\ objects' = objects @@ [h \in hs |->
                                 os[CHOOSE n \in DOMAIN os : os[n][1] = h][2]]
                          /\ oi' = oi + 1
                          /\ UNCHANGED phase
                     ELSE /\ phase' = "failed"
                          /\ UNCHANGED <<oi, objects>>
                /\ UNCHANGED <<genCerts, ca, ki, vi, allocated, entries>>

Next == NewInfo \/ BuilderNew \/ LoadState \/ LoadVersions \/ LoadObjects

(* Token::New runs on the calling thread to completion; every remote call  *)
(* returns (with a result or an error), so each enabled step is taken.     *)
Spec == Init /\ [][Next]_vars /\ WF_vars(Next)

-----------------------------------------------------------------------------
(***************************************************************************)
(* Properties.                                                             *)
(***************************************************************************)

(* The versions the key ring holds that the token is meant to expose      *)
(* (spec section 4.2): enabled versions of a supported algorithm, of keys  *)
(* with HSM protection and an asymmetric sign or decrypt purpose, in the   *)
(* order ListCryptoKeys and ListCryptoKeyVersions return them.             *)
EligibleVersions ==
  LET all == SeqExt!FlattenSeq(
               [k \in 1..Len(KmsKeys) |->
                  [v \in 1..Len(KmsKeys[k].versions) |-> <<k, v>>]])
      ok(kv) == LET key == KmsKeys[kv[1]] ver == key.versions[kv[2]]
                IN  /\ key.hsm /\ key.purpose \in {"ASYMMETRIC_SIGN", "ASYMMETRIC_DECRYPT"}
                    /\ ver.enabled /\ ver.algOk
  IN  [j \in 1..Len(SelectSeq(all, ok)) |->
         Ckv(SelectSeq(all, ok)[j][1], SelectSeq(all, ok)[j][2])]

(* The handles of one snapshot entry. *)
EntryHandles(e) == <<e.priv, e.pub>> \o (IF e.cert = None THEN <<>> ELSE <<e.cert>>)

(* Handles within one snapshot are pairwise distinct (spec section 3),     *)
(* across the two or three NewHandle calls of one AddAsymmetricKey and     *)
(* across all the versions of all the keys.                                 *)
SnapshotHandlesDistinct ==
  SeqExt!IsInjective(SeqExt!FlattenSeq(
    [j \in 1..Len(entries) |-> EntryHandles(entries[j])]))

(* When LoadState returns, the snapshot holds exactly the eligible versions, *)
(* each once, in the order the key ring lists them: the two nested loops   *)
(* with their skips visit every version of every key and nothing else.     *)
SnapshotMatchesKeyRing ==
  phase \in {"objects", "done"} =>
    [j \in 1..Len(entries) |-> entries[j].ckv] = EligibleVersions

(* After LoadObjects, every handle of the snapshot resolves to the object  *)
(* of its role: the public key handle of an entry to that version's public *)
(* key object, its private key handle to the private key object, its       *)
(* certificate handle to the certificate (spec section 3: materializing a  *)
(* snapshot reproduces its handle-to-identity bindings).                    *)
SnapshotBindingsKept ==
  phase = "done" =>
    \A j \in 1..Len(entries) :
      LET e == entries[j] IN
      /\ objects[e.pub] = [ckv |-> e.ckv, class |-> CKO_PUBLIC_KEY]
      /\ objects[e.priv] = [ckv |-> e.ckv, class |-> CKO_PRIVATE_KEY]
      /\ e.cert # None => objects[e.cert] = [ckv |-> e.ckv, class |-> CKO_CERTIFICATE]

(* The loader implements the abstract promise of Token::New: it either     *)
(* fails, or ends with a store that binds one distinct handle to each      *)
(* public key, private key and (with generate_certs) certificate object of *)
(* each eligible version, and it does end.                                 *)
loadStatus == CASE phase = "done" -> "ready"
                [] phase = "failed" -> "failed"
                [] OTHER -> "loading"

loadedStore == IF phase = "done" THEN objects ELSE [h \in {} |-> None]

Abstract == INSTANCE LoadedStore WITH
  status <- loadStatus, store <- loadedStore, certs <- genCerts,
  Versions <- {EligibleVersions[j] : j \in 1..Len(EligibleVersions)}

LoadedStoreSpec == Abstract!Spec

====
