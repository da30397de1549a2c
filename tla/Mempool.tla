------------------------------- MODULE Mempool -------------------------------
(***************************************************************************)
(* mm/mempool.c: a reserve of objects behind an allocator that may fail.   *)
(* mempool_free pushes under the pool's lock; mempool_alloc tests and pops *)
(* without it, and other callers may come between the two.  The pool is as *)
(* mempool_create_node leaves it, and is not resized.                      *)
(***************************************************************************)
EXTENDS Naturals, FiniteSets

CONSTANTS
  PoolObjects, \* objects of the backing allocator
  PoolCallers, \* contexts that allocate and free
  PoolDemand,  \* pool->demand
  NoObject     \* a slot never written

ASSUME PoolAssumption ==
  /\ PoolDemand \in Nat
  /\ IsFiniteSet(PoolObjects) /\ PoolDemand <= Cardinality(PoolObjects)
  /\ NoObject \notin PoolObjects

VARIABLES
  poolSlots, \* pool->objects
  poolCurr,  \* pool->curr
  poolHeap,  \* the objects the backing allocator has
  poolHeld,  \* the objects in the hands of the callers
  poolSeen,  \* what a caller has read of curr and decided upon: 0 for nothing
  freeing,   \* the object of a caller that has found the reserve full
  poolRaced  \* history: a pop has come behind another change of curr

poolVars == <<poolSlots, poolCurr, poolHeap, poolHeld, poolSeen, freeing, poolRaced>>

PoolTypeOK ==
  /\ poolSlots \in [1 .. PoolDemand -> PoolObjects \cup {NoObject}]
  /\ poolCurr \in 0 .. PoolDemand
  /\ poolHeap \subseteq PoolObjects /\ poolHeld \subseteq PoolObjects
  /\ poolSeen \in [PoolCallers -> 0 .. PoolDemand]
  /\ freeing  \in [PoolCallers -> PoolObjects \cup {NoObject}]
  /\ poolRaced \in BOOLEAN

Reserve == {poolSlots[i] : i \in 1 .. poolCurr}

\* mempool_create_node has filled the reserve.
PoolInit ==
  /\ poolCurr = PoolDemand
  /\ poolSlots \in [1 .. PoolDemand -> PoolObjects]
  /\ \A i, j \in 1 .. PoolDemand : poolSlots[i] = poolSlots[j] => i = j
  /\ poolHeap = PoolObjects \ Reserve
  /\ poolHeld = {}
  /\ poolSeen = [c \in PoolCallers |-> 0]
  /\ freeing  = [c \in PoolCallers |-> NoObject]
  /\ poolRaced = FALSE

Ready(c) == poolSeen[c] = 0 /\ freeing[c] = NoObject

\* The objects the callers still hold, those on their way to pool->free apart.
InUse == poolHeld \ {freeing[c] : c \in PoolCallers}

-----------------------------------------------------------------------------

\* mempool_alloc: the allocator has one.
AllocBacking(c, o) ==
  /\ Ready(c) /\ o \in poolHeap
  /\ poolHeap' = poolHeap \ {o}
  /\ poolHeld' = poolHeld \cup {o}
  /\ UNCHANGED <<poolSlots, poolCurr, poolSeen, freeing, poolRaced>>

\* It fails, whatever it has, and curr is not 0.
AllocTest(c) ==
  /\ Ready(c) /\ poolCurr > 0
  /\ poolSeen' = [poolSeen EXCEPT ![c] = poolCurr]
  /\ UNCHANGED <<poolSlots, poolCurr, poolHeap, poolHeld, freeing, poolRaced>>

\* mempool_pop, on the value that was tested.  Mutant: the index is not
\* decremented first.
Popped_above(r) == IF r < PoolDemand THEN poolSlots[r + 1] ELSE poolSlots[r]
Popped(r) == poolSlots[r]

AllocPop(c) ==
  /\ poolSeen[c] > 0
  /\ poolCurr' = poolSeen[c] - 1
  /\ poolHeld' = poolHeld \cup {Popped(poolSeen[c])}
  /\ poolRaced' = (poolRaced \/ poolSeen[c] # poolCurr)
  /\ poolSeen' = [poolSeen EXCEPT ![c] = 0]
  /\ UNCHANGED <<poolSlots, poolHeap, freeing>>

\* mempool_free finds room without the lock and again under it, and pushes.
\* Mutant: the caller's object goes to the allocator all the same.
FreePush_never(c, o) ==
  /\ Ready(c) /\ o \in InUse
  /\ poolCurr < PoolDemand
  /\ poolHeap' = poolHeap \cup {o} /\ poolHeld' = poolHeld \ {o}
  /\ UNCHANGED <<poolSlots, poolCurr, poolSeen, freeing, poolRaced>>
FreePush(c, o) ==
  /\ Ready(c) /\ o \in InUse
  /\ poolCurr < PoolDemand
  /\ poolCurr' = poolCurr + 1
  /\ poolSlots' = [poolSlots EXCEPT ![poolCurr + 1] = o]
  /\ poolHeld' = poolHeld \ {o}
  /\ UNCHANGED <<poolHeap, poolSeen, freeing, poolRaced>>

\* It finds the reserve full, with or without the lock, and then calls
\* pool->free, whatever has been popped meanwhile.
FreeFull(c, o) ==
  /\ Ready(c) /\ o \in InUse
  /\ poolCurr >= PoolDemand
  /\ freeing' = [freeing EXCEPT ![c] = o]
  /\ UNCHANGED <<poolSlots, poolCurr, poolHeap, poolHeld, poolSeen, poolRaced>>

FreeBacking(c) ==
  /\ freeing[c] # NoObject
  /\ poolHeap' = poolHeap \cup {freeing[c]}
  /\ poolHeld' = poolHeld \ {freeing[c]}
  /\ freeing' = [freeing EXCEPT ![c] = NoObject]
  /\ UNCHANGED <<poolSlots, poolCurr, poolSeen, poolRaced>>

\* The model goes no further than the first such pop: objects are then lost or
\* in two places.
PoolNext ==
  /\ ~poolRaced
  /\ \E c \in PoolCallers :
       \/ \E o \in PoolObjects : AllocBacking(c, o) \/ FreePush(c, o) \/ FreeFull(c, o)
       \/ AllocTest(c) \/ AllocPop(c) \/ FreeBacking(c)

PoolSpec == PoolInit /\ [][PoolNext]_poolVars

-----------------------------------------------------------------------------
(* Properties *)

\* Until an unlocked pop comes behind another change of curr, every object is
\* in one place: with the allocator, with a caller, or in one slot of the
\* reserve.
ObjectOnce ==
  ~poolRaced =>
    /\ \A i, j \in 1 .. poolCurr : poolSlots[i] = poolSlots[j] => i = j
    /\ Reserve \cap (poolHeap \cup poolHeld) = {} /\ poolHeap \cap poolHeld = {}
    /\ Reserve \cup poolHeap \cup poolHeld = PoolObjects

\* And what is taken out of the reserve comes back to it: with the objects in
\* use there are always enough to fill it, although mempool_free may act on a
\* curr it has read before the lock.
ReserveComesBack == ~poolRaced => poolCurr + Cardinality(InUse) >= PoolDemand

=============================================================================
