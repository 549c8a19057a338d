------------------------------ MODULE HandleMap ------------------------------
(***************************************************************************)
(* kmsp11/util/handle_map.h: HandleMap<T>, the registry that maps CK_ULONG *)
(* handles to shared_ptr<T>.  Every public method takes absl::Mutex        *)
(* mutex_ for its whole body (writer lock in Add, AddDirect and Remove,    *)
(* reader lock in Get and Find), so each call is one atomic step; calls of *)
(* different threads interleave freely.  Add is the exception: it draws   *)
(* handles in a loop while it holds the writer lock, so its draws are      *)
(* steps of their own during which every other call waits.                 *)
(*                                                                         *)
(* The shared_ptr reference counts are part of the state: the map owns one *)
(* reference per entry and a caller of Get owns one until it drops it.  An *)
(* object is destroyed when its count reaches zero.                        *)
(***************************************************************************)
EXTENDS Naturals, FiniteSets, Sequences, TLC

LOCAL INSTANCE HandleFind

CONSTANTS
  Handles,     \* the values RandomHandle() may return (CK_ULONG, abstracted)
  Threads,     \* threads calling into one map
  Objects,     \* the T instances callers construct with make_shared
  NotFoundRv,  \* the CK_RV given to the constructor, reported by Get/Remove
  None         \* "no value"

ASSUME None \notin Objects \cup Handles

VARIABLES
  items,    \* items_: handle -> object
  held,     \* held[t]: object whose shared_ptr thread t holds after Get
  refs,     \* refs[o]: use_count of o's control block
  created,  \* objects constructed so far
  freed,    \* objects whose use_count dropped to zero (destructor ran)
  issued,   \* ghost: <<handle, object>> pairs handed out by Add/AddDirect
            \* and not yet removed
  ret,      \* ret[t]: result of the last call of thread t
  adding    \* adding[t]: [o, h] while t is in Add's loop holding the writer
            \* lock, with its new object o and the handle h it drew last

vars == <<items, held, refs, created, freed, issued, ret, adding>>

Results == [op : {"none", "Add", "AddDirect", "Get", "Remove", "Find"},
            rv : {"ok", "internal", NotFoundRv}]

NoResult == [op |-> "none", rv |-> "ok"]

TypeOK ==
  /\ DOMAIN items \subseteq Handles
  /\ \A h \in DOMAIN items : items[h] \in Objects
  /\ held \in [Threads -> Objects \cup {None}]
  /\ refs \in [Objects -> Nat]
  /\ created \subseteq Objects /\ freed \subseteq created
  /\ issued \subseteq Handles \X Objects
  /\ ret \in [Threads -> Results]
  /\ adding \in [Threads -> [o : Objects, h : Handles] \cup {None}]

Init ==
  /\ items = [h \in {} |-> None]
  /\ held = [t \in Threads |-> None]
  /\ refs = [o \in Objects |-> 0]
  /\ created = {}
  /\ freed = {}
  /\ issued = {}
  /\ ret = [t \in Threads |-> NoResult]
  /\ adding = [t \in Threads |-> None]

(* mutex_ is not held by an Add in its loop; every locked call waits for it. *)
Unlocked == \A t \in Threads : adding[t] = None

(* Dropping one shared_ptr to o: the count falls and o is destroyed at 0. *)
DropRef(o) ==
  /\ refs' = [refs EXCEPT ![o] = @ - 1]
  /\ freed' = IF refs[o] = 1 THEN freed \cup {o} ELSE freed

(***************************************************************************)
(* Add (lines 23-42): make_shared a new object, take the writer lock and   *)
(* draw RandomHandle() until it is not in items_, then try_emplace.  The   *)
(* loop only ends once a free handle is drawn; meanwhile the lock is held. *)
(***************************************************************************)
AddBegin(t) ==
  /\ Unlocked
  /\ \E o \in Objects \ created, h \in Handles :
       /\ adding' = [adding EXCEPT ![t] = [o |-> o, h |-> h]]
       /\ refs' = [refs EXCEPT ![o] = 1]
       /\ created' = created \cup {o}
  /\ UNCHANGED <<items, held, freed, issued, ret>>

(* Variant of the draw that keeps the handle it drew before (the draw      *)
(* hoisted out of the do-while loop).                                     *)
AddDrawSame(t, h) ==
  /\ adding[t] # None /\ adding[t].h \in DOMAIN items
  /\ UNCHANGED vars

(* The drawn handle is in use (line 31): draw again. *)
AddDraw(t, h) ==
  /\ adding[t] # None /\ adding[t].h \in DOMAIN items
  /\ adding' = [adding EXCEPT ![t].h = h]
  /\ UNCHANGED <<items, held, refs, created, freed, issued, ret>>

(* Variant of the insertion without the collision loop: try_emplace on an  *)
(* occupied handle inserts nothing, the new object is dropped, and the     *)
(* handle is still returned.                                              *)
AddInsertNoRetry(t) ==
  /\ adding[t] # None
  /\ LET o == adding[t].o
         h == adding[t].h
     IN  /\ items' = IF h \in DOMAIN items THEN items ELSE items @@ (h :> o)
         /\ refs' = [refs EXCEPT ![o] = IF h \in DOMAIN items THEN 0 ELSE 1]
         /\ freed' = IF h \in DOMAIN items THEN freed \cup {o} ELSE freed
         /\ issued' = issued \cup {<<h, o>>}
  /\ ret' = [ret EXCEPT ![t] = [op |-> "Add", rv |-> "ok"]]
  /\ adding' = [adding EXCEPT ![t] = None]
  /\ UNCHANGED <<held, created>>

(* A free handle was drawn: try_emplace (line 33), return it and unlock. *)
AddInsert(t) ==
  /\ adding[t] # None /\ adding[t].h \notin DOMAIN items
  /\ items' = items @@ (adding[t].h :> adding[t].o)
  /\ issued' = issued \cup {<<adding[t].h, adding[t].o>>}
  /\ ret' = [ret EXCEPT ![t] = [op |-> "Add", rv |-> "ok"]]
  /\ adding' = [adding EXCEPT ![t] = None]
  /\ UNCHANGED <<held, refs, created, freed>>

(* AddDirect (lines 47-57): insert at a caller-chosen handle, InternalError *)
(* if it is in use.                                                         *)
AddDirect(t, h) ==
  /\ Unlocked
  /\ \/ /\ h \in DOMAIN items
        /\ ret' = [ret EXCEPT ![t] = [op |-> "AddDirect", rv |-> "internal"]]
        /\ UNCHANGED <<items, refs, created, freed, issued>>
     \/ \E o \in Objects \ created :
          /\ h \notin DOMAIN items
          /\ items' = items @@ (h :> o)
          /\ refs' = [refs EXCEPT ![o] = 1]
          /\ created' = created \cup {o}
          /\ issued' = issued \cup {<<h, o>>}
          /\ ret' = [ret EXCEPT ![t] = [op |-> "AddDirect", rv |-> "ok"]]
          /\ UNCHANGED freed
  /\ UNCHANGED <<held, adding>>

(* Variant of Get that hands out the object without copying the shared_ptr *)
(* (a reference or raw pointer that outlives the reader lock).             *)
GetBorrowed(t, h) ==
  /\ Unlocked /\ held[t] = None
  /\ IF h \in DOMAIN items
       THEN /\ held' = [held EXCEPT ![t] = items[h]]
            /\ ret' = [ret EXCEPT ![t] = [op |-> "Get", rv |-> "ok"]]
       ELSE /\ ret' = [ret EXCEPT ![t] = [op |-> "Get", rv |-> NotFoundRv]]
            /\ UNCHANGED held
  /\ UNCHANGED <<items, refs, created, freed, issued, adding>>

(* Get (lines 88-97): copy the shared_ptr under the reader lock, or       *)
(* HandleNotFoundError with not_found_rv_.  A thread holds one at a time. *)
Get(t, h) ==
  /\ Unlocked /\ held[t] = None
  /\ IF h \in DOMAIN items
       THEN /\ held' = [held EXCEPT ![t] = items[h]]
            /\ refs' = [refs EXCEPT ![items[h]] = @ + 1]
            /\ ret' = [ret EXCEPT ![t] = [op |-> "Get", rv |-> "ok"]]
       ELSE /\ ret' = [ret EXCEPT ![t] = [op |-> "Get", rv |-> NotFoundRv]]
            /\ UNCHANGED <<held, refs>>
  /\ UNCHANGED <<items, created, freed, issued, adding>>

(* Variant of Release that drops the reference but keeps the pointer (a   *)
(* manual unref on a raw pointer that is used and unref'd again).          *)
ReleaseKeepHeld(t) ==
  /\ adding[t] = None /\ held[t] # None
  /\ DropRef(held[t])
  /\ UNCHANGED <<held, items, created, issued, ret, adding>>

(* The caller's shared_ptr from Get goes out of scope (no lock taken). *)
Release(t) ==
  /\ adding[t] = None /\ held[t] # None
  /\ DropRef(held[t])
  /\ held' = [held EXCEPT ![t] = None]
  /\ UNCHANGED <<items, created, issued, ret, adding>>

(* Remove (lines 101-111): erase the entry, dropping the map's reference. *)
Remove(t, h) ==
  /\ Unlocked
  /\ \/ /\ h \notin DOMAIN items
        /\ ret' = [ret EXCEPT ![t] = [op |-> "Remove", rv |-> NotFoundRv]]
        /\ UNCHANGED <<items, refs, freed, issued>>
     \/ /\ h \in DOMAIN items
        /\ DropRef(items[h])
        /\ items' = [x \in DOMAIN items \ {h} |-> items[x]]
        /\ issued' = {p \in issued : p[1] # h}
        /\ ret' = [ret EXCEPT ![t] = [op |-> "Remove", rv |-> "ok"]]
  /\ UNCHANGED <<held, created, adding>>

(* Find (lines 62-84), as HandleFind defines it; callers of this map pass *)
(* no comparator and the reader lock leaves the map unchanged.             *)
Find(t) ==
  /\ Unlocked
  /\ FindUnsorted(DOMAIN items) # {}
  /\ ret' = [ret EXCEPT ![t] = [op |-> "Find", rv |-> "ok"]]
  /\ UNCHANGED <<items, held, refs, created, freed, issued, adding>>

Next ==
  \E t \in Threads :
    \/ AddBegin(t)
    \/ AddInsert(t)
    \/ \E h \in Handles : AddDraw(t, h) \/ AddDirect(t, h) \/ Get(t, h) \/ Remove(t, h)
    \/ Release(t)
    \/ Find(t)

Spec == Init /\ [][Next]_vars

(* RandomHandle() draws every handle with positive probability, so a loop  *)
(* that keeps drawing eventually draws each free handle: weak fairness of  *)
(* each draw outcome (a free handle stays drawable while the lock is held) *)
(* and of the insertion, which the running thread performs.               *)
FairSpec ==
  /\ Spec
  /\ \A t \in Threads :
       /\ WF_vars(AddInsert(t))
       /\ \A h \in Handles : WF_vars(AddDraw(t, h))

-----------------------------------------------------------------------------
(***************************************************************************)
(* Properties.                                                             *)
(***************************************************************************)

(* A handle that Add or AddDirect returned to a caller resolves, for as    *)
(* long as nobody has removed it, to exactly the object that caller put    *)
(* in: no later Add or AddDirect of another thread can take it over.       *)
(* Covers the collision loop of Add and the in-use check of AddDirect.     *)
HandleBinding ==
  \A p \in issued : p[1] \in DOMAIN items /\ items[p[1]] = p[2]

(* A thread that obtained an object with Get can keep using it after      *)
(* another thread Removes its handle: an object is destroyed only when     *)
(* neither the map nor any caller still refers to it.                      *)
NoUseAfterFree ==
  /\ \A t \in Threads : held[t] # None => held[t] \notin freed
  /\ \A h \in DOMAIN items : items[h] \notin freed

(* Add returns: a thread in Add's draw loop, which holds the writer lock   *)
(* and so keeps every other caller out, eventually draws a free handle and *)
(* inserts, as long as the map has fewer items than there are handles.    *)
AddTerminates == \A t \in Threads : adding[t] # None ~> adding[t] = None

=============================================================================
