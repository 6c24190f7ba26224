------------------------ MODULE SnapshotStoreProofs ------------------------
(***************************************************************************)
(* Proofs about SnapshotStore, for any number of readers, writers, pool    *)
(* slots and updates: loads never touch a deleted wrapper, what they       *)
(* return is stable, no update is lost, and the store implements           *)
(* AtomicSnapshot.                                                         *)
(***************************************************************************)
EXTENDS SnapshotStore, FiniteSetTheorems, TLAPS

(* The steps of updateSnapshot before the store, and those in which the    *)
(* writer owns an object nobody else can reach.                            *)
BeforeStore == {"acquire", "modify", "build", "store"}
Filling     == {"modify", "build", "store"}

(* The mutex covers updateSnapshot from its first to its last line.        *)
MutexInv ==
  \A w \in Writers : wpc[w] # "idle" <=> mutex = w

(* Stores are counted: ptr is the number of them.                          *)
CountInv ==
  /\ ptr <= started
  /\ \A w \in Writers : wpc[w] \in BeforeStore => ptr < started

(* Wrapper n holds the n-th version, with its trees built; none is newer   *)
(* than the pointer.                                                       *)
PublishedInv ==
  \A x \in DOMAIN snapOf :
    x <= ptr /\ object[snapOf[x]].version = x /\ object[snapOf[x]].built

(* A retired wrapper is older than the pointer, and waits for every reader *)
(* that may still dereference it.                                          *)
GraceInv ==
  /\ \A p \in pending : p.wrapper < ptr
  /\ \A r \in Readers : rpc[r] = "dereferenced" =>
       /\ rwrap[r] \in DOMAIN snapOf
       /\ seen[r] = object[snapOf[rwrap[r]]]
       /\ \A p \in pending : p.wrapper = rwrap[r] => r \in p.waits

(* The object a writer fills is reachable by nobody else.                  *)
PrivateInv ==
  \A w \in Writers :
    /\ wpc[w] \in BeforeStore => wold[w] = snapOf[ptr]
    /\ wpc[w] \in Filling =>
         /\ wnew[w] \in Objects
         /\ \A x \in DOMAIN snapOf : snapOf[x] # wnew[w]
         /\ \A r \in Readers : rsnap[r] # wnew[w]
         /\ object[wnew[w]].version = IF wpc[w] = "modify" THEN ptr ELSE ptr + 1
         /\ wpc[w] = "store" => object[wnew[w]].built

IInv ==
  /\ TypeOK
  /\ MutexInv
  /\ CountInv
  /\ PublishedInv
  /\ GraceInv
  /\ PrivateInv
  /\ HeldSnapshotStable

-----------------------------------------------------------------------------
(* use_count is never 1 in acquire, so the pool is never reused and the    *)
(* writer's object is one nobody refers to.                                *)
LEMMA AcquirableFresh ==
  ASSUME TypeOK, NEW o \in Acquirable
  PROVE  o \in Objects /\ ~Referenced(o) /\ Reusable = {}
<1>1. IsFiniteSet(DOMAIN snapOf)
  <2>1. IsFiniteSet(Wrappers) /\ DOMAIN snapOf \subseteq Wrappers
    BY FS_Interval, StoreAssumption DEF TypeOK, Wrappers
  <2> QED BY <2>1, FS_Subset
<1>2. \A q : References(q) \in Nat
  <2> SUFFICES ASSUME NEW q PROVE References(q) \in Nat
    OBVIOUS
  <2> DEFINE A == {x \in DOMAIN snapOf : snapOf[x] = q}
             B == {r \in Readers : rsnap[r] = q}
             C == {w \in Writers : wold[w] = q}
             D == {w \in Writers : wnew[w] = q}
  <2>1. IsFiniteSet(A) /\ IsFiniteSet(B) /\ IsFiniteSet(C) /\ IsFiniteSet(D)
    <3>1. A \subseteq DOMAIN snapOf /\ B \subseteq Readers /\ C \subseteq Writers /\ D \subseteq Writers
      OBVIOUS
    <3> HIDE DEF A, B, C, D
    <3> QED BY <1>1, <3>1, FS_Subset, StoreAssumption
  <2>2. Cardinality(A) \in Nat /\ Cardinality(B) \in Nat
          /\ Cardinality(C) \in Nat /\ Cardinality(D) \in Nat
    <3> HIDE DEF A, B, C, D
    <3> QED BY <2>1, FS_CardinalityType
  <2>3. References(q) = Cardinality(A) + Cardinality(B) + Cardinality(C) + Cardinality(D)
    BY DEF References
  <2> HIDE DEF A, B, C, D
  <2> QED BY <2>2, <2>3
<1>3. \A q : UseCount(q) # 1
  BY <1>2 DEF UseCount
<1>4. Reusable = {}
  BY <1>3 DEF Reusable
<1>5. o \in Objects /\ ~Allocated(o)
  BY <1>4 DEF Acquirable
<1> QED BY <1>4, <1>5 DEF Allocated

(* The constructor establishes the invariant.                              *)
LEMMA InitInv == Init => IInv
<1> SUFFICES ASSUME Init PROVE IInv
  OBVIOUS
<1>1. 0 \in Wrappers /\ PoolSize + 1 \in Objects /\ 0 \in 0..MaxUpdates /\ 0 \in 0..(PoolSize - 1)
  BY StoreAssumption DEF Wrappers, Objects
<1>2. [version |-> 0, built |-> TRUE, contours |-> 0] \in Payloads
  BY <1>1 DEF Payloads
<1>3. TypeOK
  BY <1>1, <1>2 DEF TypeOK, Init, NoWrapper
<1>4. MutexInv /\ CountInv /\ PublishedInv
  BY <1>1, StoreAssumption DEF Init, MutexInv, CountInv, PublishedInv, BeforeStore
<1>5. GraceInv /\ PrivateInv /\ HeldSnapshotStable
  BY DEF Init, GraceInv, PrivateInv, HeldSnapshotStable, BeforeStore, Filling
<1> QED BY <1>3, <1>4, <1>5 DEF IInv

-----------------------------------------------------------------------------
(* One lemma for each action.                                              *)

(* updateSnapshot's lock and load keep the invariant.                      *)
LEMMA LockInv ==
  ASSUME IInv, NEW w \in Writers, Lock(w)
  PROVE  IInv'
<1> USE StoreAssumption DEF IInv
<1>1. TypeOK'
  <2> USE DEF Lock, Wrappers, Objects, Payloads, readerVars, writerVars, poolVars
  <2>1. /\ ptr' \in Wrappers /\ ptr' \in DOMAIN snapOf'
        /\ DOMAIN snapOf' \subseteq Wrappers
        /\ \A x \in DOMAIN snapOf' : snapOf'[x] \in Objects
    BY DEF TypeOK, GraceInv
  <2>2. object' \in [Objects -> Payloads]
    BY DEF TypeOK
  <2>3. pending' \subseteq [wrapper : Wrappers, waits : SUBSET Readers]
    BY DEF TypeOK
  <2>4. /\ mutex' \in Writers \cup {Nobody}
        /\ wpc' \in [Writers -> {"idle", "acquire", "modify", "build", "store", "unlock"}]
        /\ wold' \in [Writers -> Objects \cup {NoObject}]
        /\ wnew' \in [Writers -> Objects \cup {NoObject}]
    BY DEF TypeOK
  <2>5. slot' \in 0..(PoolSize - 1) /\ heapAllocs' \in Nat /\ started' \in 0..MaxUpdates
    BY DEF TypeOK
  <2>6. /\ rpc' \in [Readers -> {"idle", "locked", "dereferenced", "copied", "held", "raw"}]
        /\ rwrap' \in [Readers -> Wrappers \cup {NoWrapper}]
        /\ rsnap' \in [Readers -> Objects \cup {NoObject}]
        /\ raw' \in [Readers -> 0..MaxUpdates]
        /\ seen' \in [Readers -> Payloads]
    BY DEF TypeOK, HeldSnapshotStable
  <2> QED BY <2>1, <2>2, <2>3, <2>4, <2>5, <2>6 DEF TypeOK
<1>2. MutexInv'
  BY DEF TypeOK, MutexInv, Lock, readerVars, writerVars, poolVars
<1>3. CountInv'
  BY DEF TypeOK, CountInv, MutexInv, Lock, readerVars, writerVars, poolVars, BeforeStore, Wrappers
<1>4. PublishedInv'
  BY DEF TypeOK, PublishedInv, PrivateInv, Lock, readerVars, writerVars, poolVars, Filling
<1>5. GraceInv'
  BY DEF TypeOK, GraceInv, PrivateInv, Lock, readerVars, writerVars, poolVars, Filling
<1>6. PrivateInv'
  BY DEF TypeOK, PrivateInv, MutexInv, PublishedInv, Lock, readerVars, writerVars, poolVars, BeforeStore, Filling
<1>7. HeldSnapshotStable'
  BY DEF TypeOK, HeldSnapshotStable, PrivateInv, Lock, readerVars, writerVars, poolVars, Filling
<1> QED BY <1>1, <1>2, <1>3, <1>4, <1>5, <1>6, <1>7

(* A writer that clones the current snapshot gets an object nobody else    *)
(* uses.                                                                   *)
LEMMA AcquireInv ==
  ASSUME IInv, NEW w \in Writers, Acquire(w)
  PROVE  IInv'
<1> USE StoreAssumption DEF IInv
<1> PICK o \in Acquirable :
      /\ wnew' = [wnew EXCEPT ![w] = o]
      /\ object' = [object EXCEPT ![o] = [object[wold[w]] EXCEPT !.built = FALSE]]
      /\ slot' = IF Reusable = {} THEN slot ELSE o % PoolSize
  BY DEF Acquire
<1>o. /\ o \in Objects
      /\ Reusable = {}
      /\ \A x \in DOMAIN snapOf : snapOf[x] # o
      /\ \A r \in Readers : rsnap[r] # o
  BY AcquirableFresh DEF Referenced
<1>p. /\ wold[w] = snapOf[ptr] /\ wold[w] \in Objects
      /\ [object[wold[w]] EXCEPT !.built = FALSE] \in Payloads
      /\ [object[wold[w]] EXCEPT !.built = FALSE].version = ptr
  <2>1. wold[w] = snapOf[ptr] /\ ptr \in DOMAIN snapOf /\ wold[w] \in Objects
    BY DEF TypeOK, PrivateInv, Acquire, BeforeStore
  <2>2. object[wold[w]] \in Payloads /\ object[wold[w]].version = ptr
    BY <2>1 DEF TypeOK, PublishedInv
  <2> QED BY <2>1, <2>2 DEF Payloads
<1>1. TypeOK'
  <2> USE DEF Acquire, Wrappers, Objects, Payloads, readerVars, writerVars, poolVars
  <2>1. /\ ptr' \in Wrappers /\ ptr' \in DOMAIN snapOf'
        /\ DOMAIN snapOf' \subseteq Wrappers
        /\ \A x \in DOMAIN snapOf' : snapOf'[x] \in Objects
    BY DEF TypeOK, GraceInv
  <2>2. object' \in [Objects -> Payloads]
    BY <1>o, <1>p DEF TypeOK
  <2>3. pending' \subseteq [wrapper : Wrappers, waits : SUBSET Readers]
    BY DEF TypeOK
  <2>4. /\ mutex' \in Writers \cup {Nobody}
        /\ wpc' \in [Writers -> {"idle", "acquire", "modify", "build", "store", "unlock"}]
        /\ wold' \in [Writers -> Objects \cup {NoObject}]
        /\ wnew' \in [Writers -> Objects \cup {NoObject}]
    BY <1>o DEF TypeOK
  <2>5. slot' \in 0..(PoolSize - 1) /\ heapAllocs' \in Nat /\ started' \in 0..MaxUpdates
    BY <1>o DEF TypeOK
  <2>6. /\ rpc' \in [Readers -> {"idle", "locked", "dereferenced", "copied", "held", "raw"}]
        /\ rwrap' \in [Readers -> Wrappers \cup {NoWrapper}]
        /\ rsnap' \in [Readers -> Objects \cup {NoObject}]
        /\ raw' \in [Readers -> 0..MaxUpdates]
        /\ seen' \in [Readers -> Payloads]
    BY DEF TypeOK, HeldSnapshotStable
  <2> QED BY <2>1, <2>2, <2>3, <2>4, <2>5, <2>6 DEF TypeOK
<1>2. MutexInv'
  BY <1>o, <1>p DEF TypeOK, MutexInv, Acquire, readerVars, writerVars, poolVars
<1>3. CountInv'
  BY <1>o, <1>p DEF TypeOK, CountInv, MutexInv, Acquire, readerVars, writerVars, poolVars, BeforeStore, Wrappers
<1>4. PublishedInv'
  BY <1>o, <1>p DEF TypeOK, PublishedInv, PrivateInv, Acquire, readerVars, writerVars, poolVars, Filling
<1>5. GraceInv'
  BY <1>o, <1>p DEF TypeOK, GraceInv, PrivateInv, Acquire, readerVars, writerVars, poolVars, Filling
<1>6. PrivateInv'
  BY <1>o, <1>p DEF TypeOK, PrivateInv, MutexInv, PublishedInv, Acquire, readerVars, writerVars, poolVars, BeforeStore, Filling
<1>7. HeldSnapshotStable'
  BY <1>o, <1>p DEF TypeOK, HeldSnapshotStable, PrivateInv, Acquire, readerVars, writerVars, poolVars, Filling
<1> QED BY <1>1, <1>2, <1>3, <1>4, <1>5, <1>6, <1>7

(* The modifier touches the writer's own object only.                      *)
LEMMA ModifyInv ==
  ASSUME IInv, NEW w \in Writers, Modify(w)
  PROVE  IInv'
<1> USE StoreAssumption DEF IInv
<1> PICK P \in Payloads :
      P.version = ptr + 1 /\ object' = [object EXCEPT ![wnew[w]] = P]
  <2>1. object[wnew[w]].version = ptr /\ object[wnew[w]] \in Payloads
    BY DEF TypeOK, PrivateInv, Modify, Filling
  <2>2. ptr + 1 \in 0..MaxUpdates
    BY DEF TypeOK, CountInv, Modify, BeforeStore, Wrappers
  <2>3. PICK set \in BOOLEAN :
          object' = [object EXCEPT ![wnew[w]] =
                       [version |-> ptr + 1, built |-> FALSE,
                        contours |-> IF set THEN ptr + 1 ELSE object[wnew[w]].contours]]
    BY <2>1 DEF Modify
  <2>4. [version |-> ptr + 1, built |-> FALSE,
         contours |-> IF set THEN ptr + 1 ELSE object[wnew[w]].contours] \in Payloads
    BY <2>1, <2>2 DEF Payloads
  <2> QED BY <2>3, <2>4
<1>1. TypeOK'
  <2> USE DEF Modify, Wrappers, Objects, Payloads, readerVars, writerVars, poolVars
  <2>1. /\ ptr' \in Wrappers /\ ptr' \in DOMAIN snapOf'
        /\ DOMAIN snapOf' \subseteq Wrappers
        /\ \A x \in DOMAIN snapOf' : snapOf'[x] \in Objects
    BY DEF TypeOK, GraceInv
  <2>2. object' \in [Objects -> Payloads]
    BY DEF TypeOK
  <2>3. pending' \subseteq [wrapper : Wrappers, waits : SUBSET Readers]
    BY DEF TypeOK
  <2>4. /\ mutex' \in Writers \cup {Nobody}
        /\ wpc' \in [Writers -> {"idle", "acquire", "modify", "build", "store", "unlock"}]
        /\ wold' \in [Writers -> Objects \cup {NoObject}]
        /\ wnew' \in [Writers -> Objects \cup {NoObject}]
    BY DEF TypeOK
  <2>5. slot' \in 0..(PoolSize - 1) /\ heapAllocs' \in Nat /\ started' \in 0..MaxUpdates
    BY DEF TypeOK
  <2>6. /\ rpc' \in [Readers -> {"idle", "locked", "dereferenced", "copied", "held", "raw"}]
        /\ rwrap' \in [Readers -> Wrappers \cup {NoWrapper}]
        /\ rsnap' \in [Readers -> Objects \cup {NoObject}]
        /\ raw' \in [Readers -> 0..MaxUpdates]
        /\ seen' \in [Readers -> Payloads]
    BY DEF TypeOK, HeldSnapshotStable
  <2> QED BY <2>1, <2>2, <2>3, <2>4, <2>5, <2>6 DEF TypeOK
<1>2. MutexInv'
  BY DEF TypeOK, MutexInv, Modify, readerVars, writerVars, poolVars
<1>3. CountInv'
  BY DEF TypeOK, CountInv, MutexInv, Modify, readerVars, writerVars, poolVars, BeforeStore, Wrappers
<1>4. PublishedInv'
  BY DEF TypeOK, PublishedInv, PrivateInv, Modify, readerVars, writerVars, poolVars, Filling
<1>5. GraceInv'
  BY DEF TypeOK, GraceInv, PrivateInv, Modify, readerVars, writerVars, poolVars, Filling
<1>6. PrivateInv'
  BY DEF TypeOK, PrivateInv, MutexInv, PublishedInv, Modify, readerVars, writerVars, poolVars, BeforeStore, Filling
<1>7. HeldSnapshotStable'
  BY DEF TypeOK, HeldSnapshotStable, PrivateInv, Modify, readerVars, writerVars, poolVars, Filling
<1> QED BY <1>1, <1>2, <1>3, <1>4, <1>5, <1>6, <1>7

(* Building the trees touches the writer's own object only.                *)
LEMMA EnsureBuiltInv ==
  ASSUME IInv, NEW w \in Writers, EnsureBuilt(w)
  PROVE  IInv'
<1> USE StoreAssumption DEF IInv
<1>1. TypeOK'
  <2> USE DEF EnsureBuilt, Wrappers, Objects, Payloads, readerVars, writerVars, poolVars
  <2>1. /\ ptr' \in Wrappers /\ ptr' \in DOMAIN snapOf'
        /\ DOMAIN snapOf' \subseteq Wrappers
        /\ \A x \in DOMAIN snapOf' : snapOf'[x] \in Objects
    BY DEF TypeOK, GraceInv
  <2>2. object' \in [Objects -> Payloads]
    <3>1. object' = [object EXCEPT ![wnew[w]].built = TRUE] /\ object \in [Objects -> Payloads]
      BY DEF TypeOK
    <3>2. \A o \in Payloads : [o EXCEPT !.built = TRUE] \in Payloads
      OBVIOUS
    <3> HIDE DEF IInv, EnsureBuilt, Objects, Payloads
    <3> QED BY <3>1, <3>2
  <2>3. pending' \subseteq [wrapper : Wrappers, waits : SUBSET Readers]
    BY DEF TypeOK
  <2>4. /\ mutex' \in Writers \cup {Nobody}
        /\ wpc' \in [Writers -> {"idle", "acquire", "modify", "build", "store", "unlock"}]
        /\ wold' \in [Writers -> Objects \cup {NoObject}]
        /\ wnew' \in [Writers -> Objects \cup {NoObject}]
    BY DEF TypeOK
  <2>5. slot' \in 0..(PoolSize - 1) /\ heapAllocs' \in Nat /\ started' \in 0..MaxUpdates
    BY DEF TypeOK
  <2>6. /\ rpc' \in [Readers -> {"idle", "locked", "dereferenced", "copied", "held", "raw"}]
        /\ rwrap' \in [Readers -> Wrappers \cup {NoWrapper}]
        /\ rsnap' \in [Readers -> Objects \cup {NoObject}]
        /\ raw' \in [Readers -> 0..MaxUpdates]
        /\ seen' \in [Readers -> Payloads]
    BY DEF TypeOK, HeldSnapshotStable
  <2> QED BY <2>1, <2>2, <2>3, <2>4, <2>5, <2>6 DEF TypeOK
<1>2. MutexInv'
  BY DEF TypeOK, MutexInv, EnsureBuilt, readerVars, writerVars, poolVars
<1>3. CountInv'
  BY DEF TypeOK, CountInv, MutexInv, EnsureBuilt, readerVars, writerVars, poolVars, BeforeStore, Wrappers
<1>4. PublishedInv'
  BY DEF TypeOK, PublishedInv, PrivateInv, EnsureBuilt, readerVars, writerVars, poolVars, Filling
<1>5. GraceInv'
  BY DEF TypeOK, GraceInv, PrivateInv, EnsureBuilt, readerVars, writerVars, poolVars, Filling
<1>6. PrivateInv'
  BY DEF TypeOK, PrivateInv, MutexInv, PublishedInv, EnsureBuilt, readerVars, writerVars, poolVars, BeforeStore, Filling
<1>7. HeldSnapshotStable'
  BY DEF TypeOK, HeldSnapshotStable, PrivateInv, EnsureBuilt, readerVars, writerVars, poolVars, Filling
<1> QED BY <1>1, <1>2, <1>3, <1>4, <1>5, <1>6, <1>7

(* The store retires the old wrapper for all readers that may have seen    *)
(* it.                                                                     *)
LEMMA StoreInv ==
  ASSUME IInv, NEW w \in Writers, Store(w)
  PROVE  IInv'
<1> USE StoreAssumption DEF IInv
<1>a. \A u \in Writers : u # w => wpc[u] = "idle"
  BY DEF MutexInv, Store
<1>b. /\ ptr + 1 \in Wrappers /\ ptr < started /\ ptr + 1 \notin DOMAIN snapOf
      /\ wnew[w] \in Objects /\ object[wnew[w]].version = ptr + 1 /\ object[wnew[w]].built
  <2>1. ptr < started /\ ptr \in Wrappers /\ started \in 0..MaxUpdates
    BY DEF TypeOK, CountInv, Store, BeforeStore
  <2>2. \A x \in DOMAIN snapOf : x \in Wrappers /\ x <= ptr
    BY DEF TypeOK, PublishedInv
  <2>3. wnew[w] \in Objects /\ object[wnew[w]].version = ptr + 1 /\ object[wnew[w]].built
    BY DEF PrivateInv, Store, Filling
  <2> QED BY <2>1, <2>2, <2>3 DEF Wrappers
<1>1. TypeOK'
  <2> USE DEF Store, Wrappers, Objects, Payloads, readerVars, writerVars, poolVars
  <2>1. /\ ptr' \in Wrappers /\ ptr' \in DOMAIN snapOf'
        /\ DOMAIN snapOf' \subseteq Wrappers
        /\ \A x \in DOMAIN snapOf' : snapOf'[x] \in Objects
    BY <1>b DEF TypeOK, GraceInv
  <2>2. object' \in [Objects -> Payloads]
    BY DEF TypeOK
  <2>3. pending' \subseteq [wrapper : Wrappers, waits : SUBSET Readers]
    BY <1>b DEF TypeOK, InCriticalSection
  <2>4. /\ mutex' \in Writers \cup {Nobody}
        /\ wpc' \in [Writers -> {"idle", "acquire", "modify", "build", "store", "unlock"}]
        /\ wold' \in [Writers -> Objects \cup {NoObject}]
        /\ wnew' \in [Writers -> Objects \cup {NoObject}]
    BY DEF TypeOK
  <2>5. slot' \in 0..(PoolSize - 1) /\ heapAllocs' \in Nat /\ started' \in 0..MaxUpdates
    BY DEF TypeOK
  <2>6. /\ rpc' \in [Readers -> {"idle", "locked", "dereferenced", "copied", "held", "raw"}]
        /\ rwrap' \in [Readers -> Wrappers \cup {NoWrapper}]
        /\ rsnap' \in [Readers -> Objects \cup {NoObject}]
        /\ raw' \in [Readers -> 0..MaxUpdates]
        /\ seen' \in [Readers -> Payloads]
    BY DEF TypeOK, HeldSnapshotStable
  <2> QED BY <2>1, <2>2, <2>3, <2>4, <2>5, <2>6 DEF TypeOK
<1>2. MutexInv'
  BY <1>a, <1>b DEF TypeOK, MutexInv, Store, readerVars, writerVars, poolVars
<1>3. CountInv'
  BY <1>a, <1>b DEF TypeOK, CountInv, MutexInv, Store, readerVars, writerVars, poolVars, BeforeStore, Wrappers
<1>4. PublishedInv'
  BY <1>a, <1>b DEF TypeOK, PublishedInv, PrivateInv, Store, readerVars, writerVars, poolVars, Filling, Wrappers
<1>5. GraceInv'
  BY <1>a, <1>b DEF TypeOK, GraceInv, PrivateInv, Store, readerVars, writerVars, poolVars, Filling, Wrappers, InCriticalSection
<1>6. PrivateInv'
  BY <1>a, <1>b DEF TypeOK, PrivateInv, MutexInv, PublishedInv, Store, readerVars, writerVars, poolVars, BeforeStore, Filling
<1>7. HeldSnapshotStable'
  BY <1>a, <1>b DEF TypeOK, HeldSnapshotStable, PrivateInv, Store, readerVars, writerVars, poolVars, Filling
<1> QED BY <1>1, <1>2, <1>3, <1>4, <1>5, <1>6, <1>7

(* The end of updateSnapshot releases references that are needed no        *)
(* longer.                                                                 *)
LEMMA UnlockInv ==
  ASSUME IInv, NEW w \in Writers, Unlock(w)
  PROVE  IInv'
<1> USE StoreAssumption DEF IInv
<1>1. TypeOK'
  <2> USE DEF Unlock, Wrappers, Objects, Payloads, readerVars, writerVars, poolVars
  <2>1. /\ ptr' \in Wrappers /\ ptr' \in DOMAIN snapOf'
        /\ DOMAIN snapOf' \subseteq Wrappers
        /\ \A x \in DOMAIN snapOf' : snapOf'[x] \in Objects
    BY DEF TypeOK, GraceInv
  <2>2. object' \in [Objects -> Payloads]
    BY DEF TypeOK
  <2>3. pending' \subseteq [wrapper : Wrappers, waits : SUBSET Readers]
    BY DEF TypeOK
  <2>4. /\ mutex' \in Writers \cup {Nobody}
        /\ wpc' \in [Writers -> {"idle", "acquire", "modify", "build", "store", "unlock"}]
        /\ wold' \in [Writers -> Objects \cup {NoObject}]
        /\ wnew' \in [Writers -> Objects \cup {NoObject}]
    BY DEF TypeOK
  <2>5. slot' \in 0..(PoolSize - 1) /\ heapAllocs' \in Nat /\ started' \in 0..MaxUpdates
    BY DEF TypeOK
  <2>6. /\ rpc' \in [Readers -> {"idle", "locked", "dereferenced", "copied", "held", "raw"}]
        /\ rwrap' \in [Readers -> Wrappers \cup {NoWrapper}]
        /\ rsnap' \in [Readers -> Objects \cup {NoObject}]
        /\ raw' \in [Readers -> 0..MaxUpdates]
        /\ seen' \in [Readers -> Payloads]
    BY DEF TypeOK, HeldSnapshotStable
  <2> QED BY <2>1, <2>2, <2>3, <2>4, <2>5, <2>6 DEF TypeOK
<1>2. MutexInv'
  BY DEF TypeOK, MutexInv, Unlock, readerVars, writerVars, poolVars
<1>3. CountInv'
  BY DEF TypeOK, CountInv, MutexInv, Unlock, readerVars, writerVars, poolVars, BeforeStore, Wrappers
<1>4. PublishedInv'
  BY DEF TypeOK, PublishedInv, PrivateInv, Unlock, readerVars, writerVars, poolVars, Filling
<1>5. GraceInv'
  BY DEF TypeOK, GraceInv, PrivateInv, Unlock, readerVars, writerVars, poolVars, Filling
<1>6. PrivateInv'
  BY DEF TypeOK, PrivateInv, MutexInv, PublishedInv, Unlock, readerVars, writerVars, poolVars, BeforeStore, Filling
<1>7. HeldSnapshotStable'
  BY DEF TypeOK, HeldSnapshotStable, PrivateInv, Unlock, readerVars, writerVars, poolVars, Filling
<1> QED BY <1>1, <1>2, <1>3, <1>4, <1>5, <1>6, <1>7

(* call_rcu deletes a wrapper no reader can still dereference.             *)
LEMMA ReclaimInv ==
  ASSUME IInv, NEW p \in pending, Reclaim(p)
  PROVE  IInv'
<1> USE StoreAssumption DEF IInv
<1>1. TypeOK'
  <2> USE DEF Reclaim, Wrappers, Objects, Payloads, readerVars, writerVars, poolVars
  <2>1. /\ ptr' \in Wrappers /\ ptr' \in DOMAIN snapOf'
        /\ DOMAIN snapOf' \subseteq Wrappers
        /\ \A x \in DOMAIN snapOf' : snapOf'[x] \in Objects
    BY DEF TypeOK, GraceInv
  <2>2. object' \in [Objects -> Payloads]
    BY DEF TypeOK
  <2>3. pending' \subseteq [wrapper : Wrappers, waits : SUBSET Readers]
    BY DEF TypeOK
  <2>4. /\ mutex' \in Writers \cup {Nobody}
        /\ wpc' \in [Writers -> {"idle", "acquire", "modify", "build", "store", "unlock"}]
        /\ wold' \in [Writers -> Objects \cup {NoObject}]
        /\ wnew' \in [Writers -> Objects \cup {NoObject}]
    BY DEF TypeOK
  <2>5. slot' \in 0..(PoolSize - 1) /\ heapAllocs' \in Nat /\ started' \in 0..MaxUpdates
    BY DEF TypeOK
  <2>6. /\ rpc' \in [Readers -> {"idle", "locked", "dereferenced", "copied", "held", "raw"}]
        /\ rwrap' \in [Readers -> Wrappers \cup {NoWrapper}]
        /\ rsnap' \in [Readers -> Objects \cup {NoObject}]
        /\ raw' \in [Readers -> 0..MaxUpdates]
        /\ seen' \in [Readers -> Payloads]
    BY DEF TypeOK, HeldSnapshotStable
  <2> QED BY <2>1, <2>2, <2>3, <2>4, <2>5, <2>6 DEF TypeOK
<1>2. MutexInv'
  BY DEF TypeOK, MutexInv, Reclaim, readerVars, writerVars, poolVars
<1>3. CountInv'
  BY DEF TypeOK, CountInv, MutexInv, Reclaim, readerVars, writerVars, poolVars, BeforeStore, Wrappers
<1>4. PublishedInv'
  BY DEF TypeOK, PublishedInv, PrivateInv, Reclaim, readerVars, writerVars, poolVars, Filling, Wrappers
<1>5. GraceInv'
  BY DEF TypeOK, GraceInv, PrivateInv, Reclaim, readerVars, writerVars, poolVars, Filling
<1>6. PrivateInv'
  BY DEF TypeOK, PrivateInv, MutexInv, PublishedInv, Reclaim, readerVars, writerVars, poolVars, BeforeStore, Filling, GraceInv, Wrappers
<1>7. HeldSnapshotStable'
  BY DEF TypeOK, HeldSnapshotStable, PrivateInv, Reclaim, readerVars, writerVars, poolVars, Filling
<1> QED BY <1>1, <1>2, <1>3, <1>4, <1>5, <1>6, <1>7

(* A reader that enters its critical section has dereferenced nothing.     *)
LEMMA ReadLockInv ==
  ASSUME IInv, NEW r \in Readers, ReadLock(r)
  PROVE  IInv'
<1> USE StoreAssumption DEF IInv
<1>1. TypeOK'
  <2> USE DEF ReadLock, Wrappers, Objects, Payloads, readerVars, writerVars, poolVars
  <2>1. /\ ptr' \in Wrappers /\ ptr' \in DOMAIN snapOf'
        /\ DOMAIN snapOf' \subseteq Wrappers
        /\ \A x \in DOMAIN snapOf' : snapOf'[x] \in Objects
    BY DEF TypeOK, GraceInv
  <2>2. object' \in [Objects -> Payloads]
    BY DEF TypeOK
  <2>3. pending' \subseteq [wrapper : Wrappers, waits : SUBSET Readers]
    BY DEF TypeOK
  <2>4. /\ mutex' \in Writers \cup {Nobody}
        /\ wpc' \in [Writers -> {"idle", "acquire", "modify", "build", "store", "unlock"}]
        /\ wold' \in [Writers -> Objects \cup {NoObject}]
        /\ wnew' \in [Writers -> Objects \cup {NoObject}]
    BY DEF TypeOK
  <2>5. slot' \in 0..(PoolSize - 1) /\ heapAllocs' \in Nat /\ started' \in 0..MaxUpdates
    BY DEF TypeOK
  <2>6. /\ rpc' \in [Readers -> {"idle", "locked", "dereferenced", "copied", "held", "raw"}]
        /\ rwrap' \in [Readers -> Wrappers \cup {NoWrapper}]
        /\ rsnap' \in [Readers -> Objects \cup {NoObject}]
        /\ raw' \in [Readers -> 0..MaxUpdates]
        /\ seen' \in [Readers -> Payloads]
    BY DEF TypeOK, HeldSnapshotStable
  <2> QED BY <2>1, <2>2, <2>3, <2>4, <2>5, <2>6 DEF TypeOK
<1>2. MutexInv'
  BY DEF TypeOK, MutexInv, ReadLock, readerVars, writerVars, poolVars
<1>3. CountInv'
  BY DEF TypeOK, CountInv, MutexInv, ReadLock, readerVars, writerVars, poolVars, BeforeStore, Wrappers
<1>4. PublishedInv'
  BY DEF TypeOK, PublishedInv, PrivateInv, ReadLock, readerVars, writerVars, poolVars, Filling
<1>5. GraceInv'
  BY DEF TypeOK, GraceInv, PrivateInv, ReadLock, readerVars, writerVars, poolVars, Filling
<1>6. PrivateInv'
  BY DEF TypeOK, PrivateInv, MutexInv, PublishedInv, ReadLock, readerVars, writerVars, poolVars, BeforeStore, Filling
<1>7. HeldSnapshotStable'
  BY DEF TypeOK, HeldSnapshotStable, PrivateInv, ReadLock, readerVars, writerVars, poolVars, Filling
<1> QED BY <1>1, <1>2, <1>3, <1>4, <1>5, <1>6, <1>7

(* A dereferenced wrapper is the current one, which no retired one waits   *)
(* for.                                                                    *)
LEMMA DereferenceInv ==
  ASSUME IInv, NEW r \in Readers, Dereference(r)
  PROVE  IInv'
<1> USE StoreAssumption DEF IInv
<1>1. TypeOK'
  <2> USE DEF Dereference, Wrappers, Objects, Payloads, readerVars, writerVars, poolVars
  <2>1. /\ ptr' \in Wrappers /\ ptr' \in DOMAIN snapOf'
        /\ DOMAIN snapOf' \subseteq Wrappers
        /\ \A x \in DOMAIN snapOf' : snapOf'[x] \in Objects
    BY DEF TypeOK, GraceInv
  <2>2. object' \in [Objects -> Payloads]
    BY DEF TypeOK
  <2>3. pending' \subseteq [wrapper : Wrappers, waits : SUBSET Readers]
    BY DEF TypeOK
  <2>4. /\ mutex' \in Writers \cup {Nobody}
        /\ wpc' \in [Writers -> {"idle", "acquire", "modify", "build", "store", "unlock"}]
        /\ wold' \in [Writers -> Objects \cup {NoObject}]
        /\ wnew' \in [Writers -> Objects \cup {NoObject}]
    BY DEF TypeOK
  <2>5. slot' \in 0..(PoolSize - 1) /\ heapAllocs' \in Nat /\ started' \in 0..MaxUpdates
    BY DEF TypeOK
  <2>6. /\ rpc' \in [Readers -> {"idle", "locked", "dereferenced", "copied", "held", "raw"}]
        /\ rwrap' \in [Readers -> Wrappers \cup {NoWrapper}]
        /\ rsnap' \in [Readers -> Objects \cup {NoObject}]
        /\ raw' \in [Readers -> 0..MaxUpdates]
        /\ seen' \in [Readers -> Payloads]
    BY DEF TypeOK, HeldSnapshotStable
  <2> QED BY <2>1, <2>2, <2>3, <2>4, <2>5, <2>6 DEF TypeOK
<1>2. MutexInv'
  BY DEF TypeOK, MutexInv, Dereference, readerVars, writerVars, poolVars
<1>3. CountInv'
  BY DEF TypeOK, CountInv, MutexInv, Dereference, readerVars, writerVars, poolVars, BeforeStore, Wrappers
<1>4. PublishedInv'
  BY DEF TypeOK, PublishedInv, PrivateInv, Dereference, readerVars, writerVars, poolVars, Filling
<1>5. GraceInv'
  BY DEF TypeOK, GraceInv, PrivateInv, Dereference, readerVars, writerVars, poolVars, Filling, Wrappers
<1>6. PrivateInv'
  BY DEF TypeOK, PrivateInv, MutexInv, PublishedInv, Dereference, readerVars, writerVars, poolVars, BeforeStore, Filling
<1>7. HeldSnapshotStable'
  BY DEF TypeOK, HeldSnapshotStable, PrivateInv, Dereference, readerVars, writerVars, poolVars, Filling
<1> QED BY <1>1, <1>2, <1>3, <1>4, <1>5, <1>6, <1>7

(* The copied reference keeps the snapshot from being reused.              *)
LEMMA CopySnapshotInv ==
  ASSUME IInv, NEW r \in Readers, CopySnapshot(r)
  PROVE  IInv'
<1> USE StoreAssumption DEF IInv
<1>a. /\ rwrap[r] \in DOMAIN snapOf /\ seen[r] = object[snapOf[rwrap[r]]]
      /\ seen[r].built /\ snapOf[rwrap[r]] \in Objects
  BY DEF TypeOK, GraceInv, PublishedInv, CopySnapshot
<1>1. TypeOK'
  <2> USE DEF CopySnapshot, Wrappers, Objects, Payloads, readerVars, writerVars, poolVars
  <2>1. /\ ptr' \in Wrappers /\ ptr' \in DOMAIN snapOf'
        /\ DOMAIN snapOf' \subseteq Wrappers
        /\ \A x \in DOMAIN snapOf' : snapOf'[x] \in Objects
    BY DEF TypeOK, GraceInv
  <2>2. object' \in [Objects -> Payloads]
    BY DEF TypeOK
  <2>3. pending' \subseteq [wrapper : Wrappers, waits : SUBSET Readers]
    BY DEF TypeOK
  <2>4. /\ mutex' \in Writers \cup {Nobody}
        /\ wpc' \in [Writers -> {"idle", "acquire", "modify", "build", "store", "unlock"}]
        /\ wold' \in [Writers -> Objects \cup {NoObject}]
        /\ wnew' \in [Writers -> Objects \cup {NoObject}]
    BY DEF TypeOK
  <2>5. slot' \in 0..(PoolSize - 1) /\ heapAllocs' \in Nat /\ started' \in 0..MaxUpdates
    BY DEF TypeOK
  <2>6. /\ rpc' \in [Readers -> {"idle", "locked", "dereferenced", "copied", "held", "raw"}]
        /\ rwrap' \in [Readers -> Wrappers \cup {NoWrapper}]
        /\ rsnap' \in [Readers -> Objects \cup {NoObject}]
        /\ raw' \in [Readers -> 0..MaxUpdates]
        /\ seen' \in [Readers -> Payloads]
    BY <1>a DEF TypeOK, HeldSnapshotStable
  <2> QED BY <2>1, <2>2, <2>3, <2>4, <2>5, <2>6 DEF TypeOK
<1>2. MutexInv'
  BY DEF TypeOK, MutexInv, CopySnapshot, readerVars, writerVars, poolVars
<1>3. CountInv'
  BY DEF TypeOK, CountInv, MutexInv, CopySnapshot, readerVars, writerVars, poolVars, BeforeStore, Wrappers
<1>4. PublishedInv'
  BY DEF TypeOK, PublishedInv, PrivateInv, CopySnapshot, readerVars, writerVars, poolVars, Filling
<1>5. GraceInv'
  BY DEF TypeOK, GraceInv, PrivateInv, CopySnapshot, readerVars, writerVars, poolVars, Filling
<1>6. PrivateInv'
  BY <1>a DEF TypeOK, PrivateInv, MutexInv, PublishedInv, CopySnapshot, readerVars, writerVars, poolVars, BeforeStore, Filling
<1>7. HeldSnapshotStable'
  BY <1>a DEF TypeOK, HeldSnapshotStable, PrivateInv, CopySnapshot, readerVars, writerVars, poolVars, Filling
<1> QED BY <1>1, <1>2, <1>3, <1>4, <1>5, <1>6, <1>7

(* A reader that has its reference needs the wrapper no longer.            *)
LEMMA ReadUnlockInv ==
  ASSUME IInv, NEW r \in Readers, ReadUnlock(r)
  PROVE  IInv'
<1> USE StoreAssumption DEF IInv
<1>a. \A q \in pending' : \E p \in pending : q = [p EXCEPT !.waits = @ \ {r}]
  BY DEF ReadUnlock
<1>b. \A q \in pending' : \E p \in pending :
        q.wrapper = p.wrapper /\ q.waits = p.waits \ {r} /\ q \in [wrapper : Wrappers, waits : SUBSET Readers]
  BY <1>a DEF TypeOK
<1>1. TypeOK'
  <2> USE DEF ReadUnlock, Wrappers, Objects, Payloads, readerVars, writerVars, poolVars
  <2>1. /\ ptr' \in Wrappers /\ ptr' \in DOMAIN snapOf'
        /\ DOMAIN snapOf' \subseteq Wrappers
        /\ \A x \in DOMAIN snapOf' : snapOf'[x] \in Objects
    BY DEF TypeOK, GraceInv
  <2>2. object' \in [Objects -> Payloads]
    BY DEF TypeOK
  <2>3. pending' \subseteq [wrapper : Wrappers, waits : SUBSET Readers]
    BY <1>b DEF TypeOK
  <2>4. /\ mutex' \in Writers \cup {Nobody}
        /\ wpc' \in [Writers -> {"idle", "acquire", "modify", "build", "store", "unlock"}]
        /\ wold' \in [Writers -> Objects \cup {NoObject}]
        /\ wnew' \in [Writers -> Objects \cup {NoObject}]
    BY DEF TypeOK
  <2>5. slot' \in 0..(PoolSize - 1) /\ heapAllocs' \in Nat /\ started' \in 0..MaxUpdates
    BY DEF TypeOK
  <2>6. /\ rpc' \in [Readers -> {"idle", "locked", "dereferenced", "copied", "held", "raw"}]
        /\ rwrap' \in [Readers -> Wrappers \cup {NoWrapper}]
        /\ rsnap' \in [Readers -> Objects \cup {NoObject}]
        /\ raw' \in [Readers -> 0..MaxUpdates]
        /\ seen' \in [Readers -> Payloads]
    BY DEF TypeOK, HeldSnapshotStable
  <2> QED BY <2>1, <2>2, <2>3, <2>4, <2>5, <2>6 DEF TypeOK
<1>2. MutexInv'
  BY DEF TypeOK, MutexInv, ReadUnlock, readerVars, writerVars, poolVars
<1>3. CountInv'
  BY DEF TypeOK, CountInv, MutexInv, ReadUnlock, readerVars, writerVars, poolVars, BeforeStore, Wrappers
<1>4. PublishedInv'
  BY DEF TypeOK, PublishedInv, PrivateInv, ReadUnlock, readerVars, writerVars, poolVars, Filling
<1>5. GraceInv'
  BY <1>b DEF TypeOK, GraceInv, PrivateInv, ReadUnlock, readerVars, writerVars, poolVars, Filling
<1>6. PrivateInv'
  BY DEF TypeOK, PrivateInv, MutexInv, PublishedInv, ReadUnlock, readerVars, writerVars, poolVars, BeforeStore, Filling
<1>7. HeldSnapshotStable'
  BY DEF TypeOK, HeldSnapshotStable, PrivateInv, ReadUnlock, readerVars, writerVars, poolVars, Filling
<1> QED BY <1>1, <1>2, <1>3, <1>4, <1>5, <1>6, <1>7

(* A reader that drops its reference frees what it held.                   *)
LEMMA ReleaseInv ==
  ASSUME IInv, NEW r \in Readers, Release(r)
  PROVE  IInv'
<1> USE StoreAssumption DEF IInv
<1>1. TypeOK'
  <2> USE DEF Release, Wrappers, Objects, Payloads, readerVars, writerVars, poolVars
  <2>1. /\ ptr' \in Wrappers /\ ptr' \in DOMAIN snapOf'
        /\ DOMAIN snapOf' \subseteq Wrappers
        /\ \A x \in DOMAIN snapOf' : snapOf'[x] \in Objects
    BY DEF TypeOK, GraceInv
  <2>2. object' \in [Objects -> Payloads]
    BY DEF TypeOK
  <2>3. pending' \subseteq [wrapper : Wrappers, waits : SUBSET Readers]
    BY DEF TypeOK
  <2>4. /\ mutex' \in Writers \cup {Nobody}
        /\ wpc' \in [Writers -> {"idle", "acquire", "modify", "build", "store", "unlock"}]
        /\ wold' \in [Writers -> Objects \cup {NoObject}]
        /\ wnew' \in [Writers -> Objects \cup {NoObject}]
    BY DEF TypeOK
  <2>5. slot' \in 0..(PoolSize - 1) /\ heapAllocs' \in Nat /\ started' \in 0..MaxUpdates
    BY DEF TypeOK
  <2>6. /\ rpc' \in [Readers -> {"idle", "locked", "dereferenced", "copied", "held", "raw"}]
        /\ rwrap' \in [Readers -> Wrappers \cup {NoWrapper}]
        /\ rsnap' \in [Readers -> Objects \cup {NoObject}]
        /\ raw' \in [Readers -> 0..MaxUpdates]
        /\ seen' \in [Readers -> Payloads]
    BY DEF TypeOK, HeldSnapshotStable
  <2> QED BY <2>1, <2>2, <2>3, <2>4, <2>5, <2>6 DEF TypeOK
<1>2. MutexInv'
  BY DEF TypeOK, MutexInv, Release, readerVars, writerVars, poolVars
<1>3. CountInv'
  BY DEF TypeOK, CountInv, MutexInv, Release, readerVars, writerVars, poolVars, BeforeStore, Wrappers
<1>4. PublishedInv'
  BY DEF TypeOK, PublishedInv, PrivateInv, Release, readerVars, writerVars, poolVars, Filling
<1>5. GraceInv'
  BY DEF TypeOK, GraceInv, PrivateInv, Release, readerVars, writerVars, poolVars, Filling
<1>6. PrivateInv'
  BY DEF TypeOK, PrivateInv, MutexInv, PublishedInv, Release, readerVars, writerVars, poolVars, BeforeStore, Filling, Objects, NoObject
<1>7. HeldSnapshotStable'
  BY DEF TypeOK, HeldSnapshotStable, PrivateInv, Release, readerVars, writerVars, poolVars, Filling
<1> QED BY <1>1, <1>2, <1>3, <1>4, <1>5, <1>6, <1>7

(* The end of the use of a contours pointer.                               *)
LEMMA DropRawInv ==
  ASSUME IInv, NEW r \in Readers, DropRaw(r)
  PROVE  IInv'
<1> USE StoreAssumption DEF IInv
<1>1. TypeOK'
  <2> USE DEF DropRaw, Wrappers, Objects, Payloads, readerVars, writerVars, poolVars
  <2>1. /\ ptr' \in Wrappers /\ ptr' \in DOMAIN snapOf'
        /\ DOMAIN snapOf' \subseteq Wrappers
        /\ \A x \in DOMAIN snapOf' : snapOf'[x] \in Objects
    BY DEF TypeOK, GraceInv
  <2>2. object' \in [Objects -> Payloads]
    BY DEF TypeOK
  <2>3. pending' \subseteq [wrapper : Wrappers, waits : SUBSET Readers]
    BY DEF TypeOK
  <2>4. /\ mutex' \in Writers \cup {Nobody}
        /\ wpc' \in [Writers -> {"idle", "acquire", "modify", "build", "store", "unlock"}]
        /\ wold' \in [Writers -> Objects \cup {NoObject}]
        /\ wnew' \in [Writers -> Objects \cup {NoObject}]
    BY DEF TypeOK
  <2>5. slot' \in 0..(PoolSize - 1) /\ heapAllocs' \in Nat /\ started' \in 0..MaxUpdates
    BY DEF TypeOK
  <2>6. /\ rpc' \in [Readers -> {"idle", "locked", "dereferenced", "copied", "held", "raw"}]
        /\ rwrap' \in [Readers -> Wrappers \cup {NoWrapper}]
        /\ rsnap' \in [Readers -> Objects \cup {NoObject}]
        /\ raw' \in [Readers -> 0..MaxUpdates]
        /\ seen' \in [Readers -> Payloads]
    BY DEF TypeOK, HeldSnapshotStable
  <2> QED BY <2>1, <2>2, <2>3, <2>4, <2>5, <2>6 DEF TypeOK
<1>2. MutexInv'
  BY DEF TypeOK, MutexInv, DropRaw, readerVars, writerVars, poolVars
<1>3. CountInv'
  BY DEF TypeOK, CountInv, MutexInv, DropRaw, readerVars, writerVars, poolVars, BeforeStore, Wrappers
<1>4. PublishedInv'
  BY DEF TypeOK, PublishedInv, PrivateInv, DropRaw, readerVars, writerVars, poolVars, Filling
<1>5. GraceInv'
  BY DEF TypeOK, GraceInv, PrivateInv, DropRaw, readerVars, writerVars, poolVars, Filling
<1>6. PrivateInv'
  BY DEF TypeOK, PrivateInv, MutexInv, PublishedInv, DropRaw, readerVars, writerVars, poolVars, BeforeStore, Filling
<1>7. HeldSnapshotStable'
  BY DEF TypeOK, HeldSnapshotStable, PrivateInv, DropRaw, readerVars, writerVars, poolVars, Filling
<1> QED BY <1>1, <1>2, <1>3, <1>4, <1>5, <1>6, <1>7

(* Every step of every thread keeps the invariant.                         *)
LEMMA StepInv == IInv /\ [Next]_vars => IInv'
<1> SUFFICES ASSUME IInv, [Next]_vars PROVE IInv'
  OBVIOUS
<1>1. CASE UNCHANGED vars
  <2> USE <1>1 DEF IInv, vars, readerVars, writerVars, poolVars
  <2>1. TypeOK' /\ MutexInv' /\ CountInv' /\ PublishedInv'
    BY DEF TypeOK, MutexInv, CountInv, PublishedInv
  <2>2. GraceInv' /\ PrivateInv' /\ HeldSnapshotStable'
    BY DEF GraceInv, PrivateInv, HeldSnapshotStable
  <2> QED BY <2>1, <2>2
<1>2. ASSUME NEW w \in Writers, Lock(w) \/ WriterStep(w) PROVE IInv'
  BY <1>2, LockInv, AcquireInv, ModifyInv, EnsureBuiltInv, StoreInv, UnlockInv DEF WriterStep
<1>3. ASSUME NEW p \in pending, Reclaim(p) PROVE IInv'
  BY <1>3, ReclaimInv
<1>4. ASSUME NEW r \in Readers, ReadLock(r) \/ LoadStep(r) \/ Release(r) \/ DropRaw(r) PROVE IInv'
  BY <1>4, ReadLockInv, DereferenceInv, CopySnapshotInv, ReadUnlockInv, ReleaseInv, DropRawInv
     DEF LoadStep
<1> QED BY <1>1, <1>2, <1>3, <1>4 DEF Next

(* The invariant holds in every reachable state.                           *)
LEMMA InvariantHolds == Spec => []IInv
  BY InitInv, StepInv, PTL DEF Spec

-----------------------------------------------------------------------------
(* Every variable of the store keeps its type and ptr_ always designates a *)
(* wrapper that was not deleted.                                           *)
THEOREM TypeCorrect == Spec => []TypeOK
<1>1. IInv => TypeOK
  BY DEF IInv
<1> QED BY InvariantHolds, <1>1, PTL

(* AtomicSharedPtr::load is memory safe: the wrapper a reader dereferences *)
(* is not deleted before the reader leaves its critical section.           *)
THEOREM LoadIsSafe == Spec => []NoUseAfterFree
<1>1. IInv => NoUseAfterFree
  BY DEF IInv, GraceInv, NoUseAfterFree
<1> QED BY InvariantHolds, <1>1, PTL

(* The snapshot a query works on is immutable and has its trees built.     *)
THEOREM SnapshotsAreStable == Spec => []HeldSnapshotStable
<1>1. IInv => HeldSnapshotStable
  BY DEF IInv
<1> QED BY InvariantHolds, <1>1, PTL

(* updateSnapshot loses no update, however writers interleave.             *)
THEOREM UpdatesAreKept == Spec => []NoLostUpdate
<1>1. IInv => NoLostUpdate
  BY DEF IInv, TypeOK, PublishedInv, NoLostUpdate
<1> QED BY InvariantHolds, <1>1, PTL

(* The pointer, the pool and updateSnapshot together implement a value     *)
(* that is replaced and loaded atomically.                                 *)
THEOREM StoreRefinesAtomicSnapshot == Spec => ImplementsAtomicSnapshot
<1>1. Init => Abstract!Init
  BY StoreAssumption DEF Init, Abstract!Init, Objects
<1>2. IInv /\ IInv' /\ [Next]_vars => [Abstract!Next]_(Abstract!vars)
  <2> SUFFICES ASSUME IInv, IInv', [Next]_vars PROVE [Abstract!Next]_(Abstract!vars)
    OBVIOUS
  <2> DEFINE val == object[snapOf[ptr]].version
             res == [r \in Readers |-> seen[r].version]
  <2>a. val = ptr /\ val' = ptr'
    BY DEF IInv, TypeOK, PublishedInv
  <2>b. SUFFICES \/ val' = val /\ res' = res
                 \/ val < MaxUpdates /\ val' = val + 1 /\ res' = res
                 \/ \E r \in Readers : res' = [res EXCEPT ![r] = val] /\ val' = val
    BY <2>a DEF Abstract!Next, Abstract!Update, Abstract!Load, Abstract!vars
  <2>1. CASE UNCHANGED vars
    BY <2>1, <2>a DEF vars, readerVars
  <2>2. ASSUME NEW w \in Writers, Lock(w) \/ Acquire(w) \/ Modify(w) \/ EnsureBuilt(w) \/ Unlock(w)
        PROVE  val' = val /\ res' = res
    BY <2>2, <2>a DEF Lock, Acquire, Modify, EnsureBuilt, Unlock, readerVars
  <2>3. ASSUME NEW w \in Writers, Store(w)
        PROVE  val < MaxUpdates /\ val' = val + 1 /\ res' = res
    <3>1. ptr' = ptr + 1 /\ res' = res
      BY <2>3 DEF Store, readerVars
    <3>2. ptr \in 0..MaxUpdates /\ ptr' \in 0..MaxUpdates
      BY DEF IInv, TypeOK, Wrappers
    <3> QED BY <2>a, <3>1, <3>2, StoreAssumption
  <2>4. ASSUME NEW p \in pending, Reclaim(p) PROVE val' = val /\ res' = res
    BY <2>4, <2>a DEF Reclaim, readerVars
  <2>5. ASSUME NEW r \in Readers, Dereference(r)
        PROVE  res' = [res EXCEPT ![r] = val] /\ val' = val
    BY <2>5, <2>a DEF Dereference, IInv, TypeOK
  <2>6. ASSUME NEW r \in Readers,
               ReadLock(r) \/ CopySnapshot(r) \/ ReadUnlock(r) \/ Release(r) \/ DropRaw(r)
        PROVE  val' = val /\ res' = res
    BY <2>6, <2>a DEF ReadLock, CopySnapshot, ReadUnlock, Release, DropRaw
  <2> QED BY <2>1, <2>2, <2>3, <2>4, <2>5, <2>6 DEF Next, WriterStep, LoadStep
<1> QED BY InvariantHolds, <1>1, <1>2, PTL DEF Spec, ImplementsAtomicSnapshot, Abstract!Spec
=============================================================================
