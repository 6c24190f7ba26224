--------------------------- MODULE SnapshotStore ---------------------------
(***************************************************************************)
(* How GeofenceMap publishes its snapshots: the RCU pointer of             *)
(* geofence/utils/rcu.hpp, the snapshot pool and updateSnapshot.           *)
(*                                                                         *)
(* The pointer ptr_ designates a wrapper, the wrapper owns one reference   *)
(* to a snapshot object.  A reader copies that reference inside an RCU     *)
(* read-side critical section; a writer, under a mutex, clones the current *)
(* snapshot into an object of its own, modifies it, builds its trees and   *)
(* only then stores it.  The wrapper it replaces is deleted by call_rcu    *)
(* after a grace period.                                                   *)
(*                                                                         *)
(* The data of a snapshot is abstracted to its version (the number of      *)
(* updates it contains), whether its trees are built, and which contours   *)
(* object it shares; module GeofenceMap models the data.                   *)
(***************************************************************************)
EXTENDS Naturals, FiniteSets

CONSTANTS
  Readers,      \* threads that query the map (lidar_segments is reentrant)
  Writers,      \* threads that update it
  PoolSize,     \* snapshots of SnapshotMemoryPool
  MaxUpdates,   \* bound: updates started
  Nobody        \* the owner of a free mutex

ASSUME StoreAssumption ==
  /\ PoolSize \in Nat \ {0}
  /\ MaxUpdates \in Nat
  /\ Nobody \notin Writers
  /\ IsFiniteSet(Readers) /\ IsFiniteSet(Writers)

(* Wrappers are numbered in the order of the stores.  The objects of the   *)
(* pool come first, the others are allocated on the heap, one for the      *)
(* constructor and at most one for each update.                            *)
Wrappers == 0..MaxUpdates
Objects  == 1..(PoolSize + MaxUpdates + 1)
Payloads == [version : 0..MaxUpdates, built : BOOLEAN, contours : 0..MaxUpdates]

VARIABLES
  ptr,        \* ptr_
  snapOf,     \* wrappers not deleted yet, each with its snapshot object
  object,     \* the snapshot objects
  pending,    \* call_rcu: retired wrappers and the readers they wait for
  mutex,      \* static_mutex_
  wpc,        \* where each writer is
  wold,       \* its old_snap
  wnew,       \* its new_snap
  slot,       \* next_slot_ of the pool, modulo PoolSize
  heapAllocs, \* allocations_from_heap_
  started,    \* updates started
  rpc,        \* where each reader is
  rwrap,      \* the wrapper it dereferenced
  rsnap,      \* the snapshot it holds a reference to
  raw,        \* the contours pointer getMapContours returned to it
  seen        \* history: what the wrapper it dereferenced held at that time

readerVars == <<rpc, rwrap, rsnap, raw, seen>>
writerVars == <<wpc, wold, wnew>>
poolVars   == <<slot, heapAllocs>>
vars == <<ptr, snapOf, object, pending, mutex, started, readerVars, writerVars, poolVars>>

NoWrapper == MaxUpdates + 1
NoObject  == 0

(* Threads between rcu_read_lock and rcu_read_unlock.                      *)
InCriticalSection == {r \in Readers : rpc[r] \in {"locked", "dereferenced", "copied"}}

(* shared_ptr references to an object, the pool's own not counted.         *)
References(o) ==
  Cardinality({x \in DOMAIN snapOf : snapOf[x] = o})
    + Cardinality({r \in Readers : rsnap[r] = o})
    + Cardinality({w \in Writers : wold[w] = o}) + Cardinality({w \in Writers : wnew[w] = o})

Referenced(o) ==
  \/ \E x \in DOMAIN snapOf : snapOf[x] = o
  \/ \E r \in Readers : rsnap[r] = o
  \/ \E w \in Writers : wold[w] = o \/ wnew[w] = o

Allocated(o) == o <= PoolSize \/ Referenced(o)

(* acquire: the pool's slots are tried in turn; a slot is free when nobody *)
(* but the pool refers to it.  The local copy of the slot's shared_ptr,    *)
(* whose use_count is tested, is itself a reference beside the pool's.     *)
UseCount(o) == 2 + References(o)
Slot(k) == 1 + ((slot + k) % PoolSize)
Reusable == {k \in 0..(PoolSize - 1) : UseCount(Slot(k)) = 1}
FirstReusable == CHOOSE k \in Reusable : \A j \in Reusable : k <= j
Acquirable ==
  IF Reusable = {} THEN {o \in Objects : ~Allocated(o)} ELSE {Slot(FirstReusable)}

Init ==
  /\ ptr = 0
  /\ snapOf = [w \in {0} |-> PoolSize + 1]
  /\ object = [o \in Objects |-> [version |-> 0, built |-> TRUE, contours |-> 0]]
  /\ pending = {}
  /\ mutex = Nobody
  /\ wpc = [w \in Writers |-> "idle"]
  /\ wold = [w \in Writers |-> NoObject]
  /\ wnew = [w \in Writers |-> NoObject]
  /\ slot = 0
  /\ heapAllocs = 1
  /\ started = 0
  /\ rpc = [r \in Readers |-> "idle"]
  /\ rwrap = [r \in Readers |-> NoWrapper]
  /\ rsnap = [r \in Readers |-> NoObject]
  /\ raw = [r \in Readers |-> 0]
  /\ seen = [r \in Readers |-> [version |-> 0, built |-> TRUE, contours |-> 0]]

-----------------------------------------------------------------------------
(* Writers: updateSnapshot.                                                *)

(* Faulty variant: updateSnapshot without the lock_guard.                  *)
LockNoMutex(w) ==
  /\ wpc[w] = "idle"
  /\ started < MaxUpdates
  /\ started' = started + 1
  /\ mutex' = Nobody
  /\ wold' = [wold EXCEPT ![w] = snapOf[ptr]]
  /\ wpc' = [wpc EXCEPT ![w] = "acquire"]
  /\ UNCHANGED <<ptr, snapOf, object, pending, wnew, poolVars, readerVars>>

(* lock_guard on static_mutex_, then load: the pointer cannot change.      *)
Lock(w) ==
  /\ wpc[w] = "idle"
  /\ mutex = Nobody
  /\ started < MaxUpdates
  /\ started' = started + 1
  /\ mutex' = w
  /\ wold' = [wold EXCEPT ![w] = snapOf[ptr]]
  /\ wpc' = [wpc EXCEPT ![w] = "acquire"]
  /\ UNCHANGED <<ptr, snapOf, object, pending, wnew, poolVars, readerVars>>

(* The old trees are cloned, a snapshot is acquired and takes the clones   *)
(* and copies of the other fields; a clone has to be rebuilt.              *)
Acquire(w) ==
  /\ wpc[w] = "acquire"
  /\ \E o \in Acquirable :
       /\ wnew' = [wnew EXCEPT ![w] = o]
       /\ object' = [object EXCEPT ![o] = [object[wold[w]] EXCEPT !.built = FALSE]]
       /\ slot' = IF Reusable = {} THEN slot ELSE o % PoolSize
  /\ heapAllocs' = IF Reusable = {} THEN heapAllocs + 1 ELSE heapAllocs
  /\ wpc' = [wpc EXCEPT ![w] = "modify"]
  /\ UNCHANGED <<ptr, snapOf, pending, mutex, wold, started, readerVars>>

(* The modifier; setMapContours makes a new contours object, the other     *)
(* operations share the old one.                                           *)
Modify(w) ==
  /\ wpc[w] = "modify"
  /\ \E set \in BOOLEAN :
       LET v == object[wnew[w]].version + 1 IN
       object' = [object EXCEPT ![wnew[w]] =
                    [version |-> v, built |-> FALSE,
                     contours |-> IF set THEN v ELSE object[wnew[w]].contours]]
  /\ wpc' = [wpc EXCEPT ![w] = "build"]
  /\ UNCHANGED <<ptr, snapOf, pending, mutex, wold, wnew, started, poolVars, readerVars>>

(* Faulty variant: the trees are not built, and queries find nothing.      *)
EnsureBuiltSkipped(w) ==
  /\ wpc[w] = "build"
  /\ wpc' = [wpc EXCEPT ![w] = "store"]
  /\ UNCHANGED <<ptr, snapOf, object, pending, mutex, wold, wnew, started, poolVars, readerVars>>

(* ensureBuilt on both trees, before the snapshot is published.  A query   *)
(* builds nothing: on a tree that is not there it finds nothing.           *)
EnsureBuilt(w) ==
  /\ wpc[w] = "build"
  /\ object' = [object EXCEPT ![wnew[w]].built = TRUE]
  /\ wpc' = [wpc EXCEPT ![w] = "store"]
  /\ UNCHANGED <<ptr, snapOf, pending, mutex, wold, wnew, started, poolVars, readerVars>>

(* Faulty variant: the old wrapper is deleted at once.                     *)
StoreDeletesNow(w) ==
  /\ wpc[w] = "store"
  /\ ptr' = ptr + 1
  /\ snapOf' = [x \in {ptr + 1} \cup (DOMAIN snapOf \ {ptr}) |->
                  IF x = ptr + 1 THEN wnew[w] ELSE snapOf[x]]
  /\ wpc' = [wpc EXCEPT ![w] = "unlock"]
  /\ UNCHANGED <<object, pending, mutex, wold, wnew, started, poolVars, readerVars>>

(* Faulty variant: the old wrapper is forgotten.                           *)
StoreLeaks(w) ==
  /\ wpc[w] = "store"
  /\ ptr' = ptr + 1
  /\ snapOf' = [x \in {ptr + 1} \cup DOMAIN snapOf |->
                  IF x = ptr + 1 THEN wnew[w] ELSE snapOf[x]]
  /\ wpc' = [wpc EXCEPT ![w] = "unlock"]
  /\ UNCHANGED <<object, pending, mutex, wold, wnew, started, poolVars, readerVars>>

(* store: a new wrapper, the pointer assignment and call_rcu for the old.  *)
Store(w) ==
  /\ wpc[w] = "store"
  /\ ptr' = ptr + 1
  /\ snapOf' = [x \in {ptr + 1} \cup DOMAIN snapOf |->
                  IF x = ptr + 1 THEN wnew[w] ELSE snapOf[x]]
  /\ pending' = pending \cup {[wrapper |-> ptr, waits |-> InCriticalSection]}
  /\ wpc' = [wpc EXCEPT ![w] = "unlock"]
  /\ UNCHANGED <<object, mutex, wold, wnew, started, poolVars, readerVars>>

(* End of scope: the local references and the mutex are released.          *)
Unlock(w) ==
  /\ wpc[w] = "unlock"
  /\ wold' = [wold EXCEPT ![w] = NoObject]
  /\ wnew' = [wnew EXCEPT ![w] = NoObject]
  /\ mutex' = Nobody
  /\ wpc' = [wpc EXCEPT ![w] = "idle"]
  /\ UNCHANGED <<ptr, snapOf, object, pending, started, poolVars, readerVars>>

(* liburcu: the grace period of a retired wrapper is over.                 *)
Reclaim(p) ==
  /\ p \in pending
  /\ p.waits = {}
  /\ pending' = pending \ {p}
  /\ snapOf' = [x \in DOMAIN snapOf \ {p.wrapper} |-> snapOf[x]]
  /\ UNCHANGED <<ptr, object, mutex, started, readerVars, writerVars, poolVars>>

-----------------------------------------------------------------------------
(* Readers: AtomicSharedPtr::load, then the use of what it returned.       *)

ReadLock(r) ==
  /\ rpc[r] = "idle"
  /\ rpc' = [rpc EXCEPT ![r] = "locked"]
  /\ UNCHANGED <<ptr, snapOf, object, pending, mutex, started, rwrap, rsnap, raw, seen,
                 writerVars, poolVars>>

Dereference(r) ==
  /\ rpc[r] = "locked"
  /\ rwrap' = [rwrap EXCEPT ![r] = ptr]
  /\ seen' = [seen EXCEPT ![r] = object[snapOf[ptr]]]
  /\ rpc' = [rpc EXCEPT ![r] = "dereferenced"]
  /\ UNCHANGED <<ptr, snapOf, object, pending, mutex, started, rsnap, raw, writerVars, poolVars>>

(* w->snap is read through the wrapper; a deleted wrapper holds nothing.   *)
CopySnapshot(r) ==
  /\ rpc[r] = "dereferenced"
  /\ rsnap' = [rsnap EXCEPT ![r] = IF rwrap[r] \in DOMAIN snapOf THEN snapOf[rwrap[r]] ELSE NoObject]
  /\ rpc' = [rpc EXCEPT ![r] = "copied"]
  /\ UNCHANGED <<ptr, snapOf, object, pending, mutex, started, rwrap, raw, seen, writerVars, poolVars>>

ReadUnlock(r) ==
  /\ rpc[r] = "copied"
  /\ rwrap' = [rwrap EXCEPT ![r] = NoWrapper]
  /\ pending' = {[p EXCEPT !.waits = @ \ {r}] : p \in pending}
  /\ rpc' = [rpc EXCEPT ![r] = "held"]
  /\ UNCHANGED <<ptr, snapOf, object, mutex, started, rsnap, raw, seen, writerVars, poolVars>>

(* A query is over, or getMapContours returns contours.get() and drops its *)
(* reference to the snapshot.                                              *)
Release(r) ==
  /\ rpc[r] = "held"
  /\ rsnap' = [rsnap EXCEPT ![r] = NoObject]
  /\ \/ /\ rpc' = [rpc EXCEPT ![r] = "idle"]
        /\ UNCHANGED raw
     \/ /\ object[rsnap[r]].contours # 0
        /\ raw' = [raw EXCEPT ![r] = object[rsnap[r]].contours]
        /\ rpc' = [rpc EXCEPT ![r] = "raw"]
  /\ UNCHANGED <<ptr, snapOf, object, pending, mutex, started, rwrap, seen, writerVars, poolVars>>

(* The caller of getMapContours is done with the pointer.                  *)
DropRaw(r) ==
  /\ rpc[r] = "raw"
  /\ raw' = [raw EXCEPT ![r] = 0]
  /\ rpc' = [rpc EXCEPT ![r] = "idle"]
  /\ UNCHANGED <<ptr, snapOf, object, pending, mutex, started, rwrap, rsnap, seen, writerVars,
                 poolVars>>

WriterStep(w) == Acquire(w) \/ Modify(w) \/ EnsureBuilt(w) \/ Store(w) \/ Unlock(w)

LoadStep(r) == Dereference(r) \/ CopySnapshot(r) \/ ReadUnlock(r)

Next ==
  \/ \E w \in Writers : Lock(w) \/ WriterStep(w)
  \/ \E p \in pending : Reclaim(p)
  \/ \E r \in Readers : ReadLock(r) \/ LoadStep(r) \/ Release(r) \/ DropRaw(r)

Spec == Init /\ [][Next]_vars

(* A thread inside updateSnapshot or load keeps running, and liburcu's     *)
(* call_rcu thread runs callbacks whose grace period is over.  How long a  *)
(* reader uses a snapshot is not bounded.                                  *)
FairSpec ==
  /\ Spec
  /\ \A w \in Writers : WF_vars(WriterStep(w))
  /\ \A r \in Readers : WF_vars(LoadStep(r))
  /\ WF_vars(\E p \in pending : Reclaim(p))

-----------------------------------------------------------------------------
(* Properties.                                                             *)

(* Every variable keeps its type; the pointer designates a live wrapper.   *)
TypeOK ==
  /\ ptr \in Wrappers
  /\ DOMAIN snapOf \subseteq Wrappers
  /\ ptr \in DOMAIN snapOf
  /\ \A x \in DOMAIN snapOf : snapOf[x] \in Objects
  /\ object \in [Objects -> Payloads]
  /\ pending \subseteq [wrapper : Wrappers, waits : SUBSET Readers]
  /\ mutex \in Writers \cup {Nobody}
  /\ wpc \in [Writers -> {"idle", "acquire", "modify", "build", "store", "unlock"}]
  /\ wold \in [Writers -> Objects \cup {NoObject}]
  /\ wnew \in [Writers -> Objects \cup {NoObject}]
  /\ slot \in 0..(PoolSize - 1)
  /\ heapAllocs \in Nat
  /\ started \in 0..MaxUpdates
  /\ rpc \in [Readers -> {"idle", "locked", "dereferenced", "copied", "held", "raw"}]
  /\ rwrap \in [Readers -> Wrappers \cup {NoWrapper}]
  /\ rsnap \in [Readers -> Objects \cup {NoObject}]
  /\ raw \in [Readers -> 0..MaxUpdates]
  /\ seen \in [Readers -> Payloads]

(* load never reads a wrapper that call_rcu has already deleted, however   *)
(* many stores overtake the reader between its two steps.                  *)
NoUseAfterFree ==
  \A r \in Readers : rpc[r] = "dereferenced" => rwrap[r] \in DOMAIN snapOf

(* What a reader holds is what was published when it dereferenced the      *)
(* pointer, with its trees built, and no writer touches it afterwards: the *)
(* unsynchronised reads of the queries race with nothing.                  *)
HeldSnapshotStable ==
  \A r \in Readers : rpc[r] \in {"copied", "held"} =>
    /\ rsnap[r] \in Objects
    /\ object[rsnap[r]] = seen[r]
    /\ seen[r].built

(* The published snapshot contains every update ever stored: concurrent    *)
(* updateSnapshot calls never lose one another's modification.             *)
NoLostUpdate == object[snapOf[ptr]].version = ptr

(* The store implements a value that is replaced and loaded atomically;    *)
(* the update of every updateSnapshot counts.                              *)
Abstract == INSTANCE AtomicSnapshot WITH
  value   <- object[snapOf[ptr]].version,
  updates <- ptr,
  result  <- [r \in Readers |-> seen[r].version]
ImplementsAtomicSnapshot == Abstract!Spec

(* Every wrapper that was replaced is deleted, although readers come and   *)
(* go all the time: memory does not grow with the number of updates.       *)
RetiredWrappersDeleted ==
  \A n \in Wrappers : n < ptr /\ n \in DOMAIN snapOf ~> n \notin DOMAIN snapOf

-----------------------------------------------------------------------------
(* What the comments say and the code does not do: TLC refutes it.         *)

(* getMapContours: "Thread-safe via immutable snapshot reads": the object  *)
(* it returned a pointer to exists while the caller uses it.               *)
ContoursPointerValid ==
  \A r \in Readers : rpc[r] = "raw" =>
    \E o \in Objects : Allocated(o) /\ object[o].contours = raw[r]
=============================================================================
