------------------------------ MODULE LibProofs ------------------------------
(***************************************************************************)
(* What the mutex, the memory pool, the identifiers and the coroutines do  *)
(* keep, for any number of tasks, callers, objects and works, and the      *)
(* types of the instances that run side by side.                           *)
(***************************************************************************)
EXTENDS MCLib, TimerWheelProofs, KfifoProofs, BuddyProofs

-----------------------------------------------------------------------------
(* Mutex *)

\* The inductive invariant: besides the two properties, no task is in the slow
\* unlock before one has crossed the slow lock.
MutexInv ==
  /\ MutexTypeOK
  /\ OwnerIsInside
  /\ FastPathExclusive
  /\ ~crossed => \A t \in MutexTasks : place[t] # "unlock"

LEMMA MutexInvInit == MutexInit => MutexInv
BY MutexAssumption DEF MutexInit, MutexInv, MutexTypeOK, OwnerIsInside, FastPathExclusive, Inside

LEMMA MutexInvStep == MutexInv /\ [MutexNext]_mutexVars => MutexInv'
<1> SUFFICES ASSUME MutexInv, [MutexNext]_mutexVars PROVE MutexInv'
  OBVIOUS
<1> USE MutexAssumption
    DEF MutexInv, MutexTypeOK, OwnerIsInside, FastPathExclusive, Inside
<1>1. ASSUME NEW t \in MutexTasks, mutex_lock(t) PROVE MutexInv'
  BY <1>1 DEF mutex_lock, Taken
<1>2. ASSUME NEW t \in MutexTasks, mutex_common_lock(t) PROVE MutexInv'
  BY <1>2 DEF mutex_common_lock, Taken
<1>3. ASSUME NEW t \in MutexTasks, mutex_trylock(t) PROVE MutexInv'
  BY <1>3 DEF mutex_trylock, Taken
<1>4. ASSUME NEW t \in MutexTasks, mutex_unlock(t) PROVE MutexInv'
  BY <1>4 DEF mutex_unlock
<1>5. ASSUME NEW t \in MutexTasks, mutex_slowpath_unlock(t) PROVE MutexInv'
  BY <1>5 DEF mutex_slowpath_unlock
<1>6. CASE UNCHANGED mutexVars
  BY <1>6 DEF mutexVars
<1> QED
  BY <1>1, <1>2, <1>3, <1>4, <1>5, <1>6 DEF MutexNext

LEMMA MutexInvAlways == MutexSpec => []MutexInv
BY MutexInvInit, MutexInvStep, PTL DEF MutexSpec

\* mutex.c:75-79 and 231-247: a mutex nobody is inside of is free, although
\* tasks come in without owning it and their unlock clears whoever does.
THEOREM NobodyLeavesItLocked == MutexSpec => []OwnerIsInside
BY MutexInvAlways, PTL DEF MutexInv

\* mutex.c:59-64 and 142-178: the compare-and-exchange of the fast channel and
\* of trylock exclude, as long as no task has gone the slow way.
THEOREM FastPathExcludes == MutexSpec => []FastPathExclusive
BY MutexInvAlways, PTL DEF MutexInv

-----------------------------------------------------------------------------
(* Mempool *)

\* Callers on their way to pool->free have an object each, one that is held.
FreeingApart ==
  /\ \A c \in PoolCallers : freeing[c] # NoObject => freeing[c] \in poolHeld
  /\ \A c, d \in PoolCallers :
       freeing[c] # NoObject /\ freeing[c] = freeing[d] => c = d

\* The reserve is full of objects from the start, so that even a pop that comes
\* behind another finds one.
PoolInv ==
  /\ PoolTypeOK /\ poolSlots \in [1 .. PoolDemand -> PoolObjects]
  /\ ~poolRaced => FreeingApart /\ ObjectOnce /\ ReserveComesBack

\* The sets of objects are finite, and so are their cardinalities numbers.
LEMMA PoolFinite ==
  ASSUME PoolTypeOK, NEW S, S \subseteq PoolObjects
  PROVE  IsFiniteSet(S) /\ Cardinality(S) \in Nat
BY PoolAssumption, FS_Subset, FS_CardinalityType

\* One object more or less is one more or less.
LEMMA OneMore ==
  ASSUME NEW S, NEW T, NEW o, IsFiniteSet(S), o \notin S, T = S \cup {o}
  PROVE  Cardinality(T) = Cardinality(S) + 1
BY FS_AddElement

LEMMA PoolStarts == PoolInit => PoolInv
<1> SUFFICES ASSUME PoolInit PROVE PoolInv
  OBVIOUS
<1>1. PoolTypeOK
  <2>1. poolSlots \in [1 .. PoolDemand -> PoolObjects \cup {NoObject}]
    BY DEF PoolInit
  <2>2. poolCurr \in 0 .. PoolDemand /\ poolSeen \in [PoolCallers -> 0 .. PoolDemand]
    BY PoolAssumption DEF PoolInit
  <2> QED BY <2>1, <2>2 DEF PoolInit, PoolTypeOK, Reserve
<1>2. poolSlots \in [1 .. PoolDemand -> PoolObjects]
  BY DEF PoolInit
<1>3. FreeingApart
  BY DEF PoolInit, FreeingApart
<1>4. ObjectOnce
  BY PoolAssumption DEF PoolInit, ObjectOnce, Reserve
<1>5. ReserveComesBack
  <2>1. InUse = {}
    BY DEF PoolInit, InUse
  <2> QED BY <2>1, FS_EmptySet, PoolAssumption DEF PoolInit, ReserveComesBack
<1> QED BY <1>1, <1>2, <1>3, <1>4, <1>5 DEF PoolInv

LEMMA PoolStep == PoolInv /\ [PoolNext]_poolVars => PoolInv'
<1> SUFFICES ASSUME PoolInv, [PoolNext]_poolVars PROVE PoolInv'
  OBVIOUS
<1>t. PoolTypeOK /\ poolSlots \in [1 .. PoolDemand -> PoolObjects]
  BY DEF PoolInv
<1>1. CASE UNCHANGED poolVars
  BY <1>1 DEF poolVars, PoolInv, PoolTypeOK, FreeingApart, ObjectOnce,
              ReserveComesBack, Reserve, InUse
<1>2. CASE PoolNext
  <2>1. /\ ~poolRaced /\ FreeingApart
        /\ \A i, j \in 1 .. poolCurr : poolSlots[i] = poolSlots[j] => i = j
        /\ Reserve \cap (poolHeap \cup poolHeld) = {} /\ poolHeap \cap poolHeld = {}
        /\ Reserve \cup poolHeap \cup poolHeld = PoolObjects
        /\ poolCurr + Cardinality(InUse) >= PoolDemand
    BY <1>2 DEF PoolNext, PoolInv, ObjectOnce, ReserveComesBack
  <2>2. /\ IsFiniteSet(InUse) /\ Cardinality(InUse) \in Nat
        /\ poolCurr \in Nat /\ PoolDemand \in Nat /\ NoObject \notin PoolObjects
        /\ InUse \subseteq poolHeld /\ poolHeld \subseteq PoolObjects
    <3>1. InUse \subseteq PoolObjects
      BY <1>t DEF InUse, PoolTypeOK
    <3> QED BY <3>1, <1>t, PoolFinite, PoolAssumption DEF PoolTypeOK, InUse
  <2>3. ASSUME NEW c \in PoolCallers, NEW o \in PoolObjects, AllocBacking(c, o) PROVE PoolInv'
    <3>1. o \in poolHeap /\ o \notin poolHeld /\ poolHeap' = poolHeap \ {o} /\ poolHeld' = poolHeld \cup {o}
          /\ UNCHANGED <<poolSlots, poolCurr, poolSeen, freeing, poolRaced, Reserve>>
      BY <2>3, <2>1 DEF AllocBacking, Reserve
    <3>2. PoolTypeOK'
      BY <3>1, <1>t DEF PoolTypeOK
    <3>3. FreeingApart'
      BY <3>1, <2>1 DEF FreeingApart
    <3>4. ObjectOnce'
      BY <3>1, <2>1 DEF ObjectOnce
    <3>5. InUse' = InUse \cup {o} /\ o \notin InUse
      BY <3>1, <2>1, <2>2 DEF InUse, FreeingApart
    <3>6. Cardinality(InUse') = Cardinality(InUse) + 1
      BY <3>5, <2>2, OneMore
    <3>7. ReserveComesBack'
      BY <3>1, <3>6, <2>1, <2>2 DEF ReserveComesBack
    <3> QED BY <3>1, <3>2, <3>3, <3>4, <3>7, <2>1 DEF PoolInv
  <2>4. ASSUME NEW c \in PoolCallers, NEW o \in PoolObjects, FreePush(c, o) PROVE PoolInv'
    <3>1. /\ o \in InUse /\ o \in poolHeld /\ poolCurr < PoolDemand /\ poolCurr' = poolCurr + 1
          /\ poolSlots' = [poolSlots EXCEPT ![poolCurr + 1] = o] /\ poolHeld' = poolHeld \ {o}
          /\ UNCHANGED <<poolHeap, poolSeen, freeing, poolRaced>>
      BY <2>4, <2>2 DEF FreePush
    <3>2. PoolTypeOK'
      BY <3>1, <2>2, <1>t DEF PoolTypeOK
    <3>3. FreeingApart'
      BY <3>1, <2>1 DEF FreeingApart, InUse
    <3>4. /\ \A i \in 1 .. poolCurr : poolSlots'[i] = poolSlots[i]
          /\ poolSlots'[poolCurr + 1] = o
      BY <3>1, <2>2, <1>t DEF PoolTypeOK
    <3>5. Reserve' = Reserve \cup {o} /\ o \notin Reserve
      <4>1. o \notin Reserve
        BY <3>1, <2>1
      <4>2. \A i \in 1 .. poolCurr' : i \in 1 .. poolCurr \/ i = poolCurr + 1
        BY <3>1, <2>2
      <4>3. 1 .. poolCurr \subseteq 1 .. poolCurr' /\ poolCurr + 1 \in 1 .. poolCurr'
        BY <3>1, <2>2
      <4> QED BY <4>1, <4>2, <4>3, <3>4 DEF Reserve
    <3>6. ObjectOnce'
      <4>1. \A i, j \in 1 .. poolCurr' : poolSlots'[i] = poolSlots'[j] => i = j
        <5>1. \A i \in 1 .. poolCurr' : i \in 1 .. poolCurr \/ i = poolCurr + 1
          BY <3>1, <2>2
        <5>2. \A i \in 1 .. poolCurr : poolSlots[i] # o
          BY <3>5 DEF Reserve
        <5> QED BY <5>1, <5>2, <3>4, <2>1
      <4> QED BY <4>1, <3>5, <3>1, <2>1, <2>2 DEF ObjectOnce
    <3>7. InUse = InUse' \cup {o} /\ o \notin InUse'
      BY <3>1 DEF InUse
    <3>8. Cardinality(InUse) = Cardinality(InUse') + 1 /\ Cardinality(InUse') \in Nat
      <4>1. IsFiniteSet(InUse')
        BY <3>7, <2>2, FS_Subset
      <4> QED BY <4>1, <3>7, OneMore, FS_CardinalityType
    <3>9. ReserveComesBack'
      BY <3>1, <3>8, <2>1, <2>2 DEF ReserveComesBack
    <3>10. poolSlots' \in [1 .. PoolDemand -> PoolObjects]
      BY <3>1, <1>t
    <3> QED BY <3>2, <3>3, <3>6, <3>9, <3>10 DEF PoolInv
  <2>5. ASSUME NEW c \in PoolCallers, NEW o \in PoolObjects, FreeFull(c, o) PROVE PoolInv'
    <3>1. /\ freeing[c] = NoObject /\ o \in InUse /\ poolCurr >= PoolDemand
          /\ freeing' = [freeing EXCEPT ![c] = o]
          /\ UNCHANGED <<poolSlots, poolCurr, poolHeap, poolHeld, poolSeen, poolRaced, Reserve>>
      BY <2>5 DEF FreeFull, Ready, Reserve
    <3>2. PoolTypeOK'
      BY <3>1, <1>t DEF PoolTypeOK
    <3>3. FreeingApart'
      BY <3>1, <2>1, <1>t DEF FreeingApart, InUse, PoolTypeOK
    <3>4. ObjectOnce'
      BY <3>1, <2>1 DEF ObjectOnce
    <3>5. ReserveComesBack'
      <4>1. Cardinality(InUse') \in Nat
        <5>1. InUse' \subseteq PoolObjects
          BY <3>2 DEF InUse, PoolTypeOK
        <5> QED BY <5>1, PoolFinite, <1>t
      <4> QED BY <4>1, <3>1, <2>2 DEF ReserveComesBack
    <3> QED BY <3>1, <3>2, <3>3, <3>4, <3>5, <2>1 DEF PoolInv
  <2>6. ASSUME NEW c \in PoolCallers, AllocTest(c) PROVE PoolInv'
    <3>1. /\ poolSeen' = [poolSeen EXCEPT ![c] = poolCurr]
          /\ UNCHANGED <<poolSlots, poolCurr, poolHeap, poolHeld, freeing, poolRaced, Reserve, InUse>>
      BY <2>6 DEF AllocTest, Reserve, InUse
    <3>2. PoolTypeOK'
      BY <3>1, <1>t DEF PoolTypeOK
    <3> QED BY <3>1, <3>2, <2>1 DEF PoolInv, FreeingApart, ObjectOnce, ReserveComesBack
  <2>7. ASSUME NEW c \in PoolCallers, AllocPop(c) PROVE PoolInv'
    <3> DEFINE r == poolSeen[c]
               o == poolSlots[r]
    <3>1. /\ r \in 1 .. PoolDemand /\ o \in PoolObjects
          /\ poolCurr' = r - 1 /\ poolHeld' = poolHeld \cup {o}
          /\ poolRaced' = (r # poolCurr)
          /\ poolSeen' = [poolSeen EXCEPT ![c] = 0]
          /\ UNCHANGED <<poolSlots, poolHeap, freeing>>
      BY <2>7, <2>1, <2>2, <1>t DEF AllocPop, Popped, PoolTypeOK
    <3>2. PoolTypeOK'
      BY <3>1, <2>2, <1>t DEF PoolTypeOK
    <3>3. CASE r # poolCurr
      BY <3>1, <3>2, <3>3, <1>t DEF PoolInv
    <3>4. CASE r = poolCurr
      <4>1. o \in Reserve /\ o \notin poolHeld /\ o \notin poolHeap
        BY <3>1, <3>4, <2>1, <2>2 DEF Reserve
      <4>2. Reserve' = Reserve \ {o}
        <5>1. \A i \in 1 .. poolCurr : i \in 1 .. poolCurr' \/ i = r
          BY <3>1, <3>4, <2>2
        <5>2. \A i \in 1 .. poolCurr' : i \in 1 .. poolCurr /\ i # r
          BY <3>1, <3>4, <2>2
        <5>3. \A i \in 1 .. poolCurr' : poolSlots[i] # o
          BY <5>2, <3>1, <3>4, <2>1
        <5>4. poolSlots' = poolSlots
          BY <3>1
        <5> QED BY <5>1, <5>2, <5>3, <5>4 DEF Reserve
      <4>3. FreeingApart'
        BY <3>1, <2>1 DEF FreeingApart
      <4>4. ObjectOnce'
        <5>1. \A i, j \in 1 .. poolCurr' : poolSlots'[i] = poolSlots'[j] => i = j
          BY <3>1, <3>4, <2>1, <2>2
        <5> QED BY <5>1, <4>1, <4>2, <3>1, <2>1 DEF ObjectOnce
      <4>5. InUse' = InUse \cup {o} /\ o \notin InUse
        BY <4>1, <3>1, <2>1, <2>2 DEF InUse, FreeingApart
      <4>6. Cardinality(InUse') = Cardinality(InUse) + 1
        BY <4>5, <2>2, OneMore
      <4>7. ReserveComesBack'
        BY <4>6, <3>1, <3>4, <2>1, <2>2 DEF ReserveComesBack
      <4> QED BY <3>1, <3>2, <4>3, <4>4, <4>7, <1>t DEF PoolInv
    <3> QED BY <3>3, <3>4
  <2>8. ASSUME NEW c \in PoolCallers, FreeBacking(c) PROVE PoolInv'
    <3> DEFINE o == freeing[c]
    <3>1. /\ o # NoObject /\ o \in poolHeld
          /\ poolHeap' = poolHeap \cup {o} /\ poolHeld' = poolHeld \ {o}
          /\ freeing' = [freeing EXCEPT ![c] = NoObject]
          /\ UNCHANGED <<poolSlots, poolCurr, poolSeen, poolRaced, Reserve>>
      BY <2>8, <2>1 DEF FreeBacking, FreeingApart, Reserve
    <3>2. PoolTypeOK'
      BY <3>1, <2>2, <1>t DEF PoolTypeOK
    <3>3. FreeingApart'
      BY <3>1, <2>1, <1>t DEF FreeingApart, PoolTypeOK
    <3>4. ObjectOnce'
      BY <3>1, <2>1 DEF ObjectOnce
    <3>5. InUse' = InUse
      BY <3>1, <2>1, <2>2, <1>t DEF InUse, FreeingApart, PoolTypeOK
    <3> QED BY <3>1, <3>2, <3>3, <3>4, <3>5, <2>1 DEF PoolInv, ReserveComesBack
  <2> QED BY <1>2, <2>3, <2>4, <2>5, <2>6, <2>7, <2>8 DEF PoolNext
<1> QED BY <1>1, <1>2

LEMMA PoolInvariant == PoolSpec => []PoolInv
BY PoolStarts, PoolStep, PTL DEF PoolSpec

\* Whatever callers do between the unlocked test and the pop of mempool_alloc
\* (mempool.c:45), until a pop comes behind another change of curr no object is
\* in two places and none is lost.
THEOREM ObjectsStayOnce == PoolSpec => []ObjectOnce
<1>1. PoolInv => ObjectOnce
  BY DEF PoolInv, ObjectOnce
<1> QED BY <1>1, PoolInvariant, PTL

\* The reserve and the objects in use are always enough to fill it, although
\* mempool_free (mempool.c:63) decides on a curr that others change.
THEOREM ReserveAlwaysComesBack == PoolSpec => []ReserveComesBack
<1>1. PoolInv => ReserveComesBack
  BY DEF PoolInv, ReserveComesBack
<1> QED BY <1>1, PoolInvariant, PTL

-----------------------------------------------------------------------------
(* Identifiers *)

\* A sequence of integers stays ascending when a number goes in behind all
\* those below it and before all those above it.
LEMMA AscendingInsert ==
  ASSUME NEW S, \A y \in S : y \in Int, NEW s \in Seq(S), Ascending(s), NEW x \in S,
         NEW p \in 1 .. (Len(s) + 1),
         \A i \in DOMAIN s : (i < p => s[i] < x) /\ (i >= p => x < s[i])
  PROVE  Ascending(InsertAt(s, p, x))
<1> DEFINE r == InsertAt(s, p, x)
<1>1. /\ r \in Seq(S) /\ Len(r) = Len(s) + 1
      /\ \A i \in 1 .. (Len(s) + 1) : r[i] = IF i < p THEN s[i] ELSE IF i = p THEN x ELSE s[i - 1]
  BY InsertAtExplicit
<1> HIDE DEF r
<1>2. x \in Int /\ \A i \in 1 .. Len(s) : s[i] \in S /\ s[i] \in Int
  OBVIOUS
<1>3. ASSUME NEW i \in 1 .. Len(r), NEW j \in 1 .. Len(r), i < j
      PROVE  r[i] < r[j]
  <2>1. /\ i < p => i \in 1 .. Len(s) /\ r[i] = s[i] /\ r[i] < x
        /\ i = p => r[i] = x
        /\ i > p => i - 1 \in 1 .. Len(s) /\ r[i] = s[i - 1] /\ x < r[i]
    BY <1>1, <1>2
  <2>2. /\ j < p => j \in 1 .. Len(s) /\ r[j] = s[j] /\ r[j] < x
        /\ j = p => r[j] = x
        /\ j > p => j - 1 \in 1 .. Len(s) /\ r[j] = s[j - 1] /\ x < r[j]
    BY <1>1, <1>2
  <2>3. CASE j < p
    BY <1>3, <2>1, <2>2, <2>3 DEF Ascending
  <2>4. CASE i > p
    BY <1>3, <2>1, <2>2, <2>4 DEF Ascending
  <2>5. CASE i <= p /\ j >= p
    BY <1>2, <1>3, <2>1, <2>2, <2>5
  <2> QED
    BY <1>3, <2>3, <2>4, <2>5
<1>4. DOMAIN r = 1 .. Len(r)
  BY <1>1
<1> QED
  BY <1>3, <1>4 DEF r, Ascending

\* It stays ascending when one of its elements goes.
LEMMA AscendingRemove ==
  ASSUME NEW S, \A y \in S : y \in Int, NEW s \in Seq(S), Ascending(s), NEW p \in 1 .. Len(s)
  PROVE  Ascending(RemoveAt(s, p))
<1> DEFINE r == RemoveAt(s, p)
<1>1. /\ r \in Seq(S) /\ Len(r) = Len(s) - 1
      /\ \A i \in 1 .. (Len(s) - 1) : r[i] = IF i < p THEN s[i] ELSE s[i + 1]
  BY RemoveAtExplicit
<1> HIDE DEF r
<1>2. \A i \in 1 .. Len(s) : s[i] \in S /\ s[i] \in Int
  OBVIOUS
<1>3. ASSUME NEW i \in 1 .. Len(r), NEW j \in 1 .. Len(r), i < j
      PROVE  r[i] < r[j]
  <2> DEFINE u == IF i < p THEN i ELSE i + 1
             v == IF j < p THEN j ELSE j + 1
  <2>1. u \in 1 .. Len(s) /\ v \in 1 .. Len(s) /\ u < v
    BY <1>1, <1>3
  <2>2. r[i] = s[u] /\ r[j] = s[v]
    BY <1>1, <1>3
  <2> QED
    BY <2>1, <2>2 DEF Ascending
<1>4. DOMAIN r = 1 .. Len(r)
  BY <1>1
<1> QED
  BY <1>3, <1>4 DEF r, Ascending

-----------------------------------------------------------------------------

\* The place before the first one past the end is the end.
LEMMA LastBefore ==
  \A k, w, m, l \in Int : k + (w - 1) - m <= l /\ k + w - m > l => k + (w - 1) - m = l
OBVIOUS

\* The empty list is in order.
LEMMA AscendingEmpty ==
  ASSUME NEW S
  PROVE  <<>> \in Seq(S) /\ Ascending(<<>>)
BY DEF Ascending

\* The inductive invariant.
IdrInv == IdrTypeOK /\ IdrSorted

\* What one allocation leaves behind.
LEMMA IdrAllocKeeps ==
  ASSUME IdrInv, NEW min \in 0 .. IdrTop, NEW max \in 0 .. IdrTop, NEW id \in 0 .. IdrTop,
         idr_node_alloc_range(min, max, id)
  PROVE  idrList' \in Seq(1 .. IdrTop) /\ idrGap' \in BOOLEAN /\ IdrSorted'
<1>0. /\ IdrTop \in Nat /\ Len(idrList) \in Nat
      /\ idrList \in Seq(1 .. IdrTop) /\ DOMAIN idrList = 1 .. Len(idrList)
      /\ \A i \in 1 .. Len(idrList) : idrList[i] \in 1 .. IdrTop /\ idrList[i] \in Int
      /\ idrGap \in BOOLEAN
  BY IdrAssumption DEF IdrInv, IdrTypeOK
<1> USE <1>0
<1> DEFINE m == IF min = 0 THEN 1 ELSE min
<1>1. CASE UNCHANGED <<idrList, idrGap>>
  BY <1>1 DEF IdrInv, IdrSorted
<1>2. ASSUME NEW f \in idr_get_free_range(min, max), id = f.id,
             idrList' = InsertAt(idrList, f.place, f.id), idrGap' = (idrGap \/ f.gap)
      PROVE  idrList' \in Seq(1 .. IdrTop) /\ idrGap' \in BOOLEAN /\ IdrSorted'
  <2>1. CASE m \notin idrTree
    <3>1. f.id = m /\ f.place \in Beside(m) /\ f.gap = FALSE
      BY <1>2, <2>1 DEF idr_get_free_range
    <3>2. f.place \in 1 .. Len(idrList) + 1 /\ m \in 1 .. IdrTop
      BY <1>2, <3>1 DEF Beside
    <3>3. idrList' \in Seq(1 .. IdrTop)
      BY <1>2, <3>1, <3>2, InsertAtExplicit
    <3>4. ASSUME ~idrGap, NEW i \in DOMAIN idrList
          PROVE  (i < f.place => idrList[i] < m) /\ (i >= f.place => m < idrList[i])
      <4>1. Ascending(idrList)
        BY <3>4 DEF IdrInv, IdrSorted
      <4>2. idrList[i] # m /\ idrList[i] \in idrTree
        BY <2>1 DEF idrTree
      <4> DEFINE p == f.place
      <4>3. /\ p \in 1 .. (Len(idrList) + 1) /\ i \in 1 .. Len(idrList)
            /\ \A j \in 1 .. Len(idrList) : idrList[j] \in Int /\ idrList[j] \in idrTree
        BY <3>2 DEF idrTree
      <4>4. CASE p > 1 /\ idrList[p - 1] < m /\ \A y \in idrTree : y < m => y <= idrList[p - 1]
        <5>1. p - 1 \in 1 .. Len(idrList)
          BY <4>3, <4>4
        <5>2. ASSUME i < p PROVE idrList[i] <= idrList[p - 1]
          <6>1. CASE i = p - 1
            BY <6>1, <4>3
          <6>2. CASE i < p - 1
            BY <4>1, <4>3, <5>1, <6>2 DEF Ascending
          <6> QED
            BY <4>3, <5>2, <6>1, <6>2
        <5>3. ASSUME i >= p PROVE idrList[p - 1] < idrList[i]
          BY <4>1, <4>3, <5>1, <5>3 DEF Ascending
        <5> HIDE DEF m
        <5> QED
          BY <3>2, <4>2, <4>3, <4>4, <5>1, <5>2, <5>3
      <4>5. CASE p <= Len(idrList) /\ idrList[p] > m /\ \A y \in idrTree : y > m => y >= idrList[p]
        <5>1. p \in 1 .. Len(idrList)
          BY <4>3, <4>5
        <5>2. ASSUME i < p PROVE idrList[i] < idrList[p]
          BY <4>1, <4>3, <5>1, <5>2 DEF Ascending
        <5>3. ASSUME i >= p PROVE idrList[p] <= idrList[i]
          <6>1. CASE i = p
            BY <6>1, <4>3
          <6>2. CASE i > p
            BY <4>1, <4>3, <5>1, <6>2 DEF Ascending
          <6> QED
            BY <4>3, <5>3, <6>1, <6>2
        <5> HIDE DEF m
        <5> QED
          BY <3>2, <4>2, <4>3, <4>5, <5>1, <5>2, <5>3
      <4>6. idrList # <<>>
        BY <4>3
      <4> QED
        BY <3>1, <4>4, <4>5, <4>6 DEF Beside
    <3>5. ~idrGap => Ascending(InsertAt(idrList, f.place, m))
      <4> DEFINE p == f.place
      <4>1. p \in 1 .. (Len(idrList) + 1) /\ (\A y \in 1 .. IdrTop : y \in Int)
        BY <3>2
      <4>2. ~idrGap => Ascending(idrList) /\ \A i \in DOMAIN idrList :
                         (i < p => idrList[i] < m) /\ (i >= p => m < idrList[i])
        BY <3>4 DEF IdrInv, IdrSorted
      <4>3. m \in 1 .. IdrTop
        BY <3>2
      <4> HIDE DEF p, m
      <4>4. ~idrGap => Ascending(InsertAt(idrList, p, m))
        BY <4>1, <4>2, <4>3, AscendingInsert
      <4> QED
        BY <4>4 DEF p
    <3> QED
      BY <1>2, <3>1, <3>3, <3>5 DEF IdrSorted
  <2>2. CASE m \in idrTree
    <3> DEFINE k == CHOOSE i \in DOMAIN idrList : idrList[i] = m
    <3>1. k \in DOMAIN idrList /\ idrList[k] = m
      BY <2>2 DEF idrTree
    <3>2. f \in Found(m, max)
      BY <1>2, <2>2 DEF idr_get_free_range
    <3>3. /\ f.id \in WalkEnds(k, m, max)
          /\ f.gap = (k + f.id - m <= Len(idrList))
          /\ f.place = IF k + f.id - m > Len(idrList) THEN Len(idrList) + 1 ELSE k + f.id - m + 1
      BY <3>2 DEF Found
    <3> HIDE DEF k
    <3>4. f.id \in m + 1 .. max - 1 /\ f.id \in 1 .. IdrTop /\ m \in 1 .. IdrTop
      BY <3>3, <1>2 DEF WalkEnds
    <3>5. f.place \in 1 .. Len(idrList) + 1
      <4>1. k \in 1 .. Len(idrList) /\ f.id \in Int /\ m \in Int /\ f.id >= m + 1
        BY <3>1, <3>4
      <4> HIDE DEF m
      <4>2. CASE k + f.id - m > Len(idrList)
        BY <3>3, <4>2
      <4>3. CASE ~(k + f.id - m > Len(idrList))
        <5>1. f.place = k + f.id - m + 1
          BY <3>3, <4>3
        <5> QED
          BY <4>1, <4>3, <5>1
      <4> QED
        BY <4>2, <4>3
    <3>6. idrList' \in Seq(1 .. IdrTop)
      BY <1>2, <3>4, <3>5, InsertAtExplicit
    <3>7. ASSUME ~idrGap, ~f.gap, NEW i \in DOMAIN idrList
          PROVE  (i < f.place => idrList[i] < f.id) /\ (i >= f.place => f.id < idrList[i])
      <4>1. Ascending(idrList)
        BY <3>7 DEF IdrInv, IdrSorted
      <4>0. k \in Int /\ f.id \in Int /\ m \in Int /\ Len(idrList) \in Int
        BY <3>1, <3>4
      <4> HIDE DEF m
      <4>2. f.place = Len(idrList) + 1 /\ k + f.id - m > Len(idrList)
        <5>1. ~(k + f.id - m <= Len(idrList))
          BY <3>3, <3>7
        <5> QED
          BY <3>3, <4>0, <5>1
      <4>3. idrList[Len(idrList)] < f.id
        <5>1. CASE f.id = m + 1
          BY <5>1, <3>1, <4>2
        <5>2. CASE f.id > m + 1
          <6>1. f.id - 1 \in m + 1 .. f.id - 1
            BY <5>2, <3>4
          <6>2. k + (f.id - 1) - m <= Len(idrList) /\ idrList[k + (f.id - 1) - m] = f.id - 1
            BY <3>3, <6>1 DEF WalkEnds
          <6>3. k + (f.id - 1) - m = Len(idrList)
            BY <4>0, <4>2, <6>2, LastBefore
          <6> QED
            BY <6>2, <6>3, <3>4
        <5> QED
          BY <5>1, <5>2, <3>4
      <4>4. idrList[i] <= idrList[Len(idrList)]
        BY <4>1, <3>1 DEF Ascending
      <4> QED
        BY <4>2, <4>3, <4>4, <3>4
    <3>8. ~idrGap /\ ~f.gap => Ascending(InsertAt(idrList, f.place, f.id))
      <4> SUFFICES ASSUME ~idrGap, ~f.gap PROVE Ascending(InsertAt(idrList, f.place, f.id))
        OBVIOUS
      <4>1. Ascending(idrList) /\ \A y \in 1 .. IdrTop : y \in Int
        BY DEF IdrInv, IdrSorted
      <4> QED
        BY <4>1, <3>4, <3>5, <3>7, AscendingInsert
    <3>9. f.gap \in BOOLEAN
      BY <3>3
    <3> QED
      BY <1>2, <3>6, <3>8, <3>9 DEF IdrSorted
  <2> QED
    BY <2>1, <2>2
<1> QED
  BY <1>1, <1>2 DEF idr_node_alloc_range

LEMMA IdrInvInit == IdrInit => IdrInv
<1> SUFFICES ASSUME IdrInit PROVE IdrInv
  OBVIOUS
<1>1. (CHOOSE r \in IdrRanges : TRUE) \in IdrRanges
  BY IdrAssumption
<1>2. idrCall \in [IdrCallers -> [stage : IdrStages, next : 0 .. IdrTop,
                                 range : IdrRanges, id : 0 .. IdrTop]]
  BY <1>1, IdrAssumption DEF IdrInit, IdrStages, IDR_NONE
<1> QED
  BY <1>2, AscendingEmpty DEF IdrInit, IdrInv, IdrTypeOK, IdrSorted

\* The record of a caller, part by part.
LEMMA CallType ==
  ASSUME IdrTypeOK, NEW c \in IdrCallers
  PROVE  /\ idrCall[c].stage \in IdrStages /\ idrCall[c].next \in 0 .. IdrTop
         /\ idrCall[c].range \in IdrRanges /\ idrCall[c].id \in 0 .. IdrTop
         /\ idrCall[c].range[1] \in 0 .. IdrTop /\ idrCall[c].range[2] \in 0 .. IdrTop
BY IdrAssumption DEF IdrTypeOK

\* A caller that moves on keeps the shape of its record.
LEMMA StageType ==
  ASSUME IdrTypeOK, NEW c \in IdrCallers, NEW stage \in IdrStages, NEW id \in 0 .. IdrTop,
         Stage(c, stage, id)
  PROVE  idrCall' \in [IdrCallers -> [stage : IdrStages, next : 0 .. IdrTop,
                                     range : IdrRanges, id : 0 .. IdrTop]]
BY DEF IdrTypeOK, Stage

LEMMA IdrInvStep == IdrInv /\ [IdrNext]_idrVars => IdrInv'
<1> SUFFICES ASSUME IdrInv, [IdrNext]_idrVars PROVE IdrInv'
  OBVIOUS
<1> USE IdrAssumption DEF IdrInv, IdrTypeOK, IdrStages, IDR_NONE
<1>1. ASSUME NEW c \in IdrCallers, NEW r \in IdrRanges, Alloc(c, r) PROVE IdrInv'
  <2>1. PICK id \in 0 .. IdrTop : idr_node_alloc_range(r[1], r[2], id)
                                 /\ idrCall' = [idrCall EXCEPT ![c].range = r, ![c].id = id]
    BY <1>1 DEF Alloc
  <2>2. r[1] \in 0 .. IdrTop /\ r[2] \in 0 .. IdrTop
    OBVIOUS
  <2>3. idrList' \in Seq(1 .. IdrTop) /\ idrGap' \in BOOLEAN /\ IdrSorted'
    BY <2>1, <2>2, IdrAllocKeeps
  <2>4. idrCall' \in [IdrCallers -> [stage : IdrStages, next : 0 .. IdrTop,
                                    range : IdrRanges, id : 0 .. IdrTop]]
    BY <2>1
  <2> QED
    BY <1>1, <2>3, <2>4 DEF Alloc
<1>2. ASSUME NEW c \in IdrCallers, NEW r \in IdrRanges, Cyclic(c, r) PROVE IdrInv'
  <2>1. Clamp(id_next, r[1], r[2]) \in 0 .. IdrTop
    BY DEF Clamp
  <2> QED
    BY <1>2, <2>1 DEF Cyclic, IdrSorted
<1>3. ASSUME NEW c \in IdrCallers, CyclicTry(c) PROVE IdrInv'
  <2>1. PICK id \in 0 .. IdrTop, min \in 0 .. IdrTop, stage \in IdrStages :
          /\ idr_node_alloc_range(min, idrCall[c].range[2], id)
          /\ Stage(c, stage, id)
    <3>1. CASE idrCall[c].stage = "first"
      <4>1. PICK id \in 0 .. IdrTop :
              /\ idr_node_alloc_range(idrCall[c].next, idrCall[c].range[2], id)
              /\ Stage(c, IF id = IDR_NONE THEN "second" ELSE "end", id)
        BY <1>3, <3>1 DEF CyclicTry
      <4> QED
        BY <4>1, CallType
    <3>2. CASE idrCall[c].stage = "second"
      <4>1. PICK id \in 0 .. IdrTop :
              /\ idr_node_alloc_range(idrCall[c].range[1], idrCall[c].range[2], id)
              /\ Stage(c, IF id = IDR_NONE THEN "idle" ELSE "end", id)
        BY <1>3, <3>2 DEF CyclicTry
      <4> QED
        BY <4>1, CallType
    <3> QED
      BY <1>3, <3>1, <3>2 DEF CyclicTry
  <2>2. idrList' \in Seq(1 .. IdrTop) /\ idrGap' \in BOOLEAN /\ IdrSorted'
    BY <2>1, CallType, IdrAllocKeeps
  <2>3. id_next' = id_next
    BY <1>3 DEF CyclicTry
  <2> QED
    BY <2>1, <2>2, <2>3, StageType
<1>4. ASSUME NEW c \in IdrCallers, CyclicEnd(c) PROVE IdrInv'
  <2>1. id_next' \in 0 .. IdrTop + 1
    BY <1>4, CallType DEF CyclicEnd
  <2>2. idrCall' \in [IdrCallers -> [stage : IdrStages, next : 0 .. IdrTop,
                                    range : IdrRanges, id : 0 .. IdrTop]]
    BY <1>4 DEF CyclicEnd
  <2> QED
    BY <1>4, <2>1, <2>2 DEF CyclicEnd, IdrSorted
<1>5. ASSUME NEW k \in DOMAIN idrList, idr_node_free(k) PROVE IdrInv'
  <2>1. k \in 1 .. Len(idrList) /\ \A y \in 1 .. IdrTop : y \in Int
    OBVIOUS
  <2>2. RemoveAt(idrList, k) \in Seq(1 .. IdrTop)
    BY <2>1, RemoveAtExplicit
  <2>3. ~idrGap => Ascending(RemoveAt(idrList, k))
    BY <2>1, AscendingRemove DEF IdrSorted
  <2> QED
    BY <1>5, <2>2, <2>3 DEF idr_node_free, IdrSorted
<1>6. CASE idr_release
  BY <1>6, AscendingEmpty DEF idr_release, IdrSorted
<1>7. CASE UNCHANGED idrVars
  BY <1>7 DEF idrVars, IdrSorted
<1> QED
  BY <1>1, <1>2, <1>3, <1>4, <1>5, <1>6, <1>7 DEF IdrNext

\* idr.c:44-66, 92-115 and 126-142: whatever the callers, until an allocation
\* fills a gap behind a used minimum the list is in order, and so no identifier
\* is in use twice.
THEOREM IdentifiersStaySorted == IdrSpec => []IdrSorted
BY IdrInvInit, IdrInvStep, PTL DEF IdrSpec, IdrInv

\* idr.c:44-66: up to that moment no identifier is in use twice, for any callers
\* and ranges; MCLibIdr.cfg shows what comes after it.
THEOREM UniqueUntilGap == IdrSpec => [](~idrGap => IdrUnique)
<1>1. IdrInv => (~idrGap => IdrUnique)
  <2> SUFFICES ASSUME IdrInv, ~idrGap PROVE IdrUnique
    OBVIOUS
  <2>1. idrList \in Seq(1 .. IdrTop) /\ Ascending(idrList) /\ \A i \in DOMAIN idrList : i \in Int
    BY DEF IdrInv, IdrTypeOK, IdrSorted
  <2>2. \A i \in DOMAIN idrList : idrList[i] \in Int
    BY <2>1, IdrAssumption
  <2>3. \A i, j \in DOMAIN idrList : idrList[i] = idrList[j] => i = j
    BY <2>1, <2>2 DEF Ascending
  <2>4. Cardinality(ToSet(idrList)) = Len(idrList)
    BY <2>1, <2>3, ListSize DEF IsInjective
  <2> QED BY <2>4 DEF IdrUnique, idrTree, ToSet
<1> QED BY <1>1, IdrInvInit, IdrInvStep, PTL DEF IdrSpec

-----------------------------------------------------------------------------
(* A call that fails *)

\* A search that finds nothing has seen every identifier of its range in use: the
\* least that is not where the walk expects it would have stopped the walk.
LEMMA NothingFree ==
  ASSUME IdrTypeOK, NEW min0 \in 0 .. IdrTop, NEW max \in 0 .. IdrTop,
         idr_get_free_range(min0, max) = {}
  PROVE  \A id \in min0 .. max - 1 : id = IDR_NONE \/ id \in idrTree
<1> DEFINE min == IF min0 = 0 THEN 1 ELSE min0
           n   == Len(idrList)
           k   == CHOOSE i \in DOMAIN idrList : idrList[i] = min
           Here(w) == k + w - min
           Holds(w) == Here(w) <= n /\ idrList[Here(w)] = w
<1>1. /\ n \in Nat /\ idrList \in Seq(1 .. IdrTop) /\ DOMAIN idrList = 1 .. n
      /\ min \in Nat \ {0} /\ max \in Nat /\ IdrTop \in Nat
  BY IdrAssumption DEF IdrTypeOK
<1>2. min \in idrTree
  <2> SUFFICES ASSUME min \notin idrTree PROVE FALSE
    OBVIOUS
  <2>1. Beside(min) = {}
    BY DEF idr_get_free_range
  <2> HIDE DEF min
  <2>2. CASE idrList = <<>>
    <3>1. 1 \in 1 .. Len(idrList) + 1
      BY <1>1
    <3> QED BY <2>1, <2>2, <3>1 DEF Beside
  <2>3. CASE idrList # <<>>
    <3> DEFINE Above == {i \in 1 .. n : idrList[i] > min}
               Below == {i \in 1 .. n : idrList[i] < min}
    <3>1. 1 \in 1 .. n /\ \A i \in 1 .. n : idrList[i] \in Nat /\ idrList[i] # min
      BY <1>1, <2>3 DEF idrTree
    <3>2. CASE Above = {}
      <4> DEFINE V == {min - idrList[i] : i \in 1 .. n}
                 v == Min(V)
      <4>1. \A i \in 1 .. n : min - idrList[i] \in Nat \ {0}
        BY <1>1, <3>1, <3>2
      <4>2. V \in SUBSET Nat /\ V # {}
        BY <3>1, <4>1
      <4>3. v \in V /\ \A x \in V : v <= x
        <5> HIDE DEF V
        <5> QED BY <4>2, MinNat
      <4> HIDE DEF v
      <4>4. PICK i \in 1 .. n : v = min - idrList[i]
        BY <4>3
      <4>5. \A j \in 1 .. n : idrList[j] <= idrList[i]
        <5> SUFFICES ASSUME NEW j \in 1 .. n PROVE idrList[j] <= idrList[i]
          OBVIOUS
        <5>1. min - idrList[j] \in V
          OBVIOUS
        <5>2. min - idrList[i] <= min - idrList[j]
          BY <4>3, <4>4, <5>1
        <5>3. idrList[i] \in Nat /\ idrList[j] \in Nat
          BY <3>1
        <5> QED BY <1>1, <5>2, <5>3
      <4> HIDE DEF V
      <4>6. i + 1 \in 1 .. Len(idrList) + 1 /\ i + 1 > 1 /\ (i + 1) - 1 = i /\ idrList[i] < min
        BY <1>1, <3>1, <4>1
      <4>7. \A y \in idrTree : y < min => y <= idrList[i]
        BY <1>1, <4>5 DEF idrTree
      <4>8. i + 1 \in Beside(min)
        BY <4>6, <4>7 DEF Beside
      <4> QED BY <2>1, <4>8
    <3>3. CASE Above # {}
      <4> DEFINE V == {idrList[i] : i \in Above}
                 v == Min(V)
      <4>1. V \in SUBSET Nat /\ V # {}
        BY <3>1, <3>3
      <4>2. v \in V /\ \A x \in V : v <= x
        <5> HIDE DEF V
        <5> QED BY <4>1, MinNat
      <4> HIDE DEF v
      <4>3. PICK i \in 1 .. n : v = idrList[i] /\ idrList[i] > min
        BY <4>2
      <4>4. \A y \in idrTree : y > min => y >= idrList[i]
        BY <1>1, <4>2, <4>3 DEF idrTree
      <4>5. i \in 1 .. Len(idrList) + 1 /\ i <= Len(idrList)
        BY <1>1
      <4>6. i \in Beside(min)
        BY <4>3, <4>4, <4>5 DEF Beside
      <4> QED BY <2>1, <4>6
    <3> QED BY <3>2, <3>3
  <2> QED BY <2>2, <2>3
<1>3. k \in 1 .. n /\ idrList[k] = min
  BY <1>1, <1>2 DEF idrTree
<1>4. WalkEnds(k, min, max) = {}
  <2>1. Found(min, max) = {}
    BY <1>2 DEF idr_get_free_range
  <2> SUFFICES ASSUME NEW w \in WalkEnds(k, min, max) PROVE FALSE
    OBVIOUS
  <2> HIDE DEF min
  <2> DEFINE Out(v) ==
               [id |-> v, gap |-> k + v - min <= Len(idrList),
                place |-> IF k + v - min > Len(idrList) THEN Len(idrList) + 1 ELSE k + v - min + 1]
  <2>2. Found(min, max) = {Out(v) : v \in WalkEnds(k, min, max)}
    BY Zenon DEF Found
  <2> HIDE DEF Out
  <2>3. Out(w) \in Found(min, max)
    BY <2>2
  <2> QED BY <2>1, <2>3
<1> HIDE DEF k, min
<1>5. \A w \in min + 1 .. max - 1 : Holds(w)
  <2> DEFINE W == {w \in min + 1 .. max - 1 : ~Holds(w)}
             w == Min(W)
  <2> SUFFICES ASSUME W # {} PROVE FALSE
    OBVIOUS
  <2>1. W \in SUBSET Nat
    BY <1>1
  <2>2. w \in W /\ \A x \in W : w <= x
    <3> HIDE DEF W
    <3> QED BY <2>1, MinNat
  <2> HIDE DEF w
  <2>3. w \in min + 1 .. max - 1 /\ ~Holds(w) /\ \A v \in min + 1 .. w - 1 : Holds(v)
    <3>1. w \in min + 1 .. max - 1 /\ ~Holds(w)
      BY <2>2
    <3>2. \A v \in min + 1 .. w - 1 : v \in min + 1 .. max - 1 /\ ~(w <= v)
      BY <1>1, <3>1
    <3>3. \A v \in min + 1 .. w - 1 : v \notin W
      BY <2>2, <3>2
    <3> QED BY <3>1, <3>2, <3>3
  <2>4. Here(w) > n \/ idrList[Here(w)] # w
    BY <1>1, <1>3, <2>3
  <2>5. w \in WalkEnds(k, min, max)
    BY <2>3, <2>4 DEF WalkEnds
  <2> QED BY <1>4, <2>5
<1>6. ASSUME NEW id \in min0 .. max - 1, id # 0 PROVE id \in idrTree
  <2>1. id = min \/ id \in min + 1 .. max - 1
    BY <1>1, <1>6 DEF min
  <2>2. CASE id \in min + 1 .. max - 1
    <3>1. Here(id) \in 1 .. n /\ idrList[Here(id)] = id
      BY <1>1, <1>3, <1>5, <2>2
    <3> HIDE DEF Here
    <3> QED BY <1>1, <3>1 DEF idrTree
  <2> QED BY <1>2, <2>1, <2>2
<1> QED BY <1>6 DEF IDR_NONE

\* What is found is never IDR_NONE, so an allocation without an identifier is one
\* that found nothing, and changes nothing.
LEMMA FailsWhenNothingFree ==
  ASSUME IdrTypeOK, NEW min0 \in 0 .. IdrTop, NEW max \in 0 .. IdrTop,
         idr_node_alloc_range(min0, max, IDR_NONE)
  PROVE  idr_get_free_range(min0, max) = {}
<1> SUFFICES ASSUME NEW f \in idr_get_free_range(min0, max), f.id = 0 PROVE FALSE
  BY DEF idr_node_alloc_range, IDR_NONE
<1> DEFINE min == IF min0 = 0 THEN 1 ELSE min0
<1>1. min \in Nat \ {0}
  BY IdrAssumption
<1>2. CASE min \notin idrTree
  <2>1. f.id = min
    BY <1>2 DEF idr_get_free_range
  <2> QED BY <1>1, <2>1
<1>3. CASE min \in idrTree
  <2>1. f \in Found(min, max)
    BY <1>3 DEF idr_get_free_range
  <2> HIDE DEF min
  <2>2. PICK k : f.id \in WalkEnds(k, min, max)
    BY <2>1 DEF Found
  <2>3. f.id \in min + 1 .. max - 1
    BY <2>2 DEF WalkEnds
  <2> QED BY <1>1, <2>3
<1> QED BY <1>2, <1>3

\* A cyclic call that has come to its last stage holds an identifier.
EndsWithId == \A c \in IdrCallers : idrCall[c].stage = "end" => idrCall[c].id # IDR_NONE

LEMMA EndsKept == IdrInv /\ EndsWithId /\ [IdrNext]_idrVars => EndsWithId'
<1> SUFFICES ASSUME IdrInv, EndsWithId, [IdrNext]_idrVars PROVE EndsWithId'
  OBVIOUS
<1>0. idrCall = [c \in IdrCallers |-> idrCall[c]]
      /\ \A c \in IdrCallers : idrCall[c] \in [stage : IdrStages, next : 0 .. IdrTop,
                                              range : IdrRanges, id : 0 .. IdrTop]
  BY DEF IdrInv, IdrTypeOK
<1>1. ASSUME NEW c \in IdrCallers, NEW r \in IdrRanges, Alloc(c, r) PROVE EndsWithId'
  BY <1>0, <1>1 DEF Alloc, EndsWithId
<1>2. ASSUME NEW c \in IdrCallers, NEW r \in IdrRanges, Cyclic(c, r) PROVE EndsWithId'
  BY <1>0, <1>2 DEF Cyclic, EndsWithId
<1>3. ASSUME NEW c \in IdrCallers, CyclicTry(c) PROVE EndsWithId'
  <2>1. PICK id \in 0 .. IdrTop, stage \in IdrStages :
          Stage(c, stage, id) /\ (stage = "end" => id # IDR_NONE)
    BY <1>3 DEF CyclicTry, IdrStages
  <2> QED BY <1>0, <2>1 DEF Stage, EndsWithId
<1>4. ASSUME NEW c \in IdrCallers, CyclicEnd(c) PROVE EndsWithId'
  BY <1>0, <1>4 DEF CyclicEnd, EndsWithId
<1>5. ASSUME UNCHANGED idrCall PROVE EndsWithId'
  BY <1>5 DEF EndsWithId
<1> QED
  BY <1>1, <1>2, <1>3, <1>4, <1>5 DEF IdrNext, idr_node_free, idr_release, idrVars

\* A step that ends a call without an identifier.
LEMMA FailsFull ==
  ASSUME IdrInv, EndsWithId, IdrNext, NEW c \in IdrCallers,
         idrCall[c] # idrCall'[c], idrCall'[c].stage = "idle", idrCall'[c].id = IDR_NONE
  PROVE  \A id \in idrCall'[c].range[1] .. idrCall'[c].range[2] - 1 :
           id = IDR_NONE \/ id \in idrTree
<1>0. /\ IdrTypeOK
      /\ idrCall = [d \in IdrCallers |-> idrCall[d]]
      /\ \A d \in IdrCallers : idrCall[d] \in [stage : IdrStages, next : 0 .. IdrTop,
                                              range : IdrRanges, id : 0 .. IdrTop]
  BY DEF IdrInv, IdrTypeOK
<1>1. \A r \in IdrRanges : r[1] \in 0 .. IdrTop /\ r[2] \in 0 .. IdrTop
  BY IdrAssumption
<1>2. ASSUME NEW r \in IdrRanges, Alloc(c, r)
      PROVE  \A id \in idrCall'[c].range[1] .. idrCall'[c].range[2] - 1 :
               id = IDR_NONE \/ id \in idrTree
  <2>1. PICK id \in 0 .. IdrTop : idr_node_alloc_range(r[1], r[2], id)
                                 /\ idrCall' = [idrCall EXCEPT ![c].range = r, ![c].id = id]
    BY <1>2 DEF Alloc
  <2>2. idrCall'[c].range = r /\ id = IDR_NONE
    BY <1>0, <2>1
  <2> QED BY <1>0, <1>1, <2>1, <2>2, FailsWhenNothingFree, NothingFree
<1>3. ASSUME CyclicTry(c)
      PROVE  \A id \in idrCall'[c].range[1] .. idrCall'[c].range[2] - 1 :
               id = IDR_NONE \/ id \in idrTree
  <2>1. CASE idrCall[c].stage = "first"
    <3>1. PICK id \in 0 .. IdrTop : Stage(c, IF id = IDR_NONE THEN "second" ELSE "end", id)
      BY <1>3, <2>1 DEF CyclicTry
    <3>2. idrCall'[c].stage \in {"second", "end"}
      <4>1. PICK stage \in {"second", "end"} : Stage(c, stage, id)
        BY <3>1
      <4> QED BY <1>0, <4>1 DEF Stage
    <3> QED BY <3>2
  <2>2. CASE idrCall[c].stage = "second"
    <3>1. PICK id \in 0 .. IdrTop :
            /\ idr_node_alloc_range(idrCall[c].range[1], idrCall[c].range[2], id)
            /\ Stage(c, IF id = IDR_NONE THEN "idle" ELSE "end", id)
      BY <1>3, <2>2 DEF CyclicTry
    <3>2. idrCall'[c].range = idrCall[c].range /\ id = IDR_NONE /\ idrCall[c].range \in IdrRanges
      <4>1. PICK stage \in IdrStages : Stage(c, stage, id)
        BY <3>1 DEF IdrStages
      <4> QED BY <1>0, <4>1 DEF Stage
    <3> QED BY <1>0, <1>1, <3>1, <3>2, FailsWhenNothingFree, NothingFree
  <2> QED BY <1>3, <2>1, <2>2 DEF CyclicTry
<1>4. ASSUME CyclicEnd(c) PROVE FALSE
  <2>1. idrCall'[c].id = idrCall[c].id /\ idrCall[c].stage = "end"
    BY <1>0, <1>4 DEF CyclicEnd
  <2> QED BY <2>1 DEF EndsWithId
<1>5. ASSUME NEW r \in IdrRanges, Cyclic(c, r) PROVE FALSE
  BY <1>0, <1>5 DEF Cyclic
<1>6. ASSUME NEW d \in IdrCallers, d # c
      PROVE  ~CyclicTry(d) /\ ~CyclicEnd(d) /\ \A r \in IdrRanges : ~Alloc(d, r) /\ ~Cyclic(d, r)
  BY <1>0, <1>6 DEF CyclicTry, CyclicEnd, Alloc, Cyclic, Stage
<1>7. ~idr_release /\ \A k \in DOMAIN idrList : ~idr_node_free(k)
  BY DEF idr_release, idr_node_free
<1> QED BY <1>2, <1>3, <1>4, <1>5, <1>6, <1>7 DEF IdrNext

\* idr.c:112-142: whatever the other callers do between the two attempts of a cyclic
\* call, it fails only when its whole range is in use.
THEOREM FailsOnlyWhenFull == IdrSpec => IdrFailsOnlyWhenFull
<1>1. IdrInit => EndsWithId
  BY DEF IdrInit, EndsWithId
<1>2. IdrInv /\ EndsWithId /\ [IdrNext]_idrVars =>
        [\A c \in IdrCallers :
           LET call == idrCall'[c]
           IN (idrCall[c] # call /\ call.stage = "idle" /\ call.id = IDR_NONE)
              => \A id \in call.range[1] .. call.range[2] - 1 :
                   id = IDR_NONE \/ id \in idrTree]_idrVars
  BY FailsFull
<1> QED
  BY <1>1, <1>2, IdrInvInit, IdrInvStep, EndsKept, PTL DEF IdrSpec, IdrFailsOnlyWhenFull

-----------------------------------------------------------------------------
(* Coroutines: the trees *)

\* A sequence in the order of a key.
SortedBy(s, key) == \A i, j \in 1 .. Len(s) : i <= j => key[s[i]] <= key[s[j]]

\* Inserting into a tree keeps its order.
LEMMA TreeInsertIs ==
  ASSUME NEW s \in Seq(Works), NEW w \in Works, NEW key \in [Works -> Nat]
  PROVE  /\ TreeInsert(s, w, key) \in Seq(Works) /\ TreeInsert(s, w, key) # <<>>
         /\ ToSet(TreeInsert(s, w, key)) = ToSet(s) \cup {w}
         /\ IsInjective(s) /\ w \notin ToSet(s) => IsInjective(TreeInsert(s, w, key))
         /\ SortedBy(s, key) => SortedBy(TreeInsert(s, w, key), key)
<1> DEFINE n == Len(s)
           K == {i \in 1 .. n + 1 : i <= n => key[s[i]] > key[w]}
           p == Min(K)
           r == TreeInsert(s, w, key)
<1>1. n \in Nat /\ DOMAIN s = 1 .. n /\ \A i \in 1 .. n : s[i] \in Works
  OBVIOUS
<1>2. K \in SUBSET Nat /\ n + 1 \in K
  BY <1>1
<1>3. p \in K /\ \A i \in K : p <= i
  <2> HIDE DEF K
  <2> QED BY <1>2, MinNat
<1>4. r = InsertAt(s, p, w)
  BY DEF TreeInsert
<1> HIDE DEF p, r
<1>5. /\ p \in 1 .. (n + 1) /\ (p <= n => key[s[p]] > key[w])
      /\ \A i \in 1 .. n : i < p => key[s[i]] <= key[w]
  <2>1. p \in 1 .. (n + 1) /\ (p <= n => key[s[p]] > key[w])
    BY <1>3
  <2>2. ASSUME NEW i \in 1 .. n, i < p PROVE key[s[i]] <= key[w]
    <3>1. i \notin K
      BY <1>1, <1>3, <2>1, <2>2
    <3>2. ~(key[s[i]] > key[w])
      BY <1>1, <3>1
    <3>3. key[s[i]] \in Nat /\ key[w] \in Nat
      BY <1>1
    <3> QED BY <3>2, <3>3
  <2> QED BY <2>1, <2>2
<1> HIDE DEF K
<1>6. /\ r \in Seq(Works) /\ Len(r) = n + 1
      /\ \A i \in 1 .. n + 1 : r[i] = IF i < p THEN s[i] ELSE IF i = p THEN w ELSE s[i - 1]
  <2>1. p \in 1 .. (Len(s) + 1)
    BY <1>5
  <2>2. /\ InsertAt(s, p, w) \in Seq(Works)
        /\ Len(InsertAt(s, p, w)) = Len(s) + 1
        /\ \A i \in 1 .. (Len(s) + 1) :
             InsertAt(s, p, w)[i] = IF i < p THEN s[i] ELSE IF i = p THEN w ELSE s[i - 1]
    BY <2>1, InsertAtExplicit
  <2> QED BY <1>4, <2>2
<1>7. ToSet(r) = ToSet(s) \cup {w}
  <2>1. ASSUME NEW x \in ToSet(r) PROVE x \in ToSet(s) \cup {w}
    <3>1. PICK i \in 1 .. n + 1 : x = r[i]
      BY <1>6 DEF ToSet
    <3>2. i < p => i \in 1 .. n
      BY <1>1, <1>5
    <3>3. i > p => i - 1 \in 1 .. n
      BY <1>1, <1>5
    <3>4. i < p \/ i = p \/ i > p
      BY <1>1, <1>5
    <3> QED BY <1>1, <1>6, <3>1, <3>2, <3>3, <3>4 DEF ToSet
  <2>2. w \in ToSet(r)
    <3>1. p \in DOMAIN r /\ r[p] = w
      BY <1>1, <1>5, <1>6
    <3> QED BY <3>1 DEF ToSet
  <2>3. ASSUME NEW i \in 1 .. n PROVE s[i] \in ToSet(r)
    <3>1. CASE i < p
      <4>1. i \in DOMAIN r /\ r[i] = s[i]
        BY <1>1, <1>6, <3>1
      <4> QED BY <4>1 DEF ToSet
    <3>2. CASE ~(i < p)
      <4>1. i + 1 \in DOMAIN r /\ r[i + 1] = s[i]
        BY <1>1, <1>5, <1>6, <3>2
      <4> QED BY <4>1 DEF ToSet
    <3> QED BY <3>1, <3>2
  <2> QED BY <1>1, <2>1, <2>2, <2>3 DEF ToSet
<1>8. ASSUME IsInjective(s), w \notin ToSet(s) PROVE IsInjective(r)
  <2>1. \A i \in 1 .. n : s[i] # w
    BY <1>1, <1>8 DEF ToSet
  <2>2. \A i, j \in 1 .. n : s[i] = s[j] => i = j
    BY <1>1, <1>8 DEF IsInjective
  <2> SUFFICES ASSUME NEW i \in 1 .. n + 1, NEW j \in 1 .. n + 1, i < j PROVE r[i] # r[j]
    <3>1. DOMAIN r = 1 .. n + 1
      BY <1>6
    <3>2. \A i, j \in 1 .. n + 1 : r[i] = r[j] => i = j
      OBVIOUS
    <3> QED BY <3>1, <3>2 DEF IsInjective
  <2>3. CASE j < p
    <3>1. i \in 1 .. n /\ j \in 1 .. n /\ i < p /\ i # j
      BY <1>1, <1>5, <2>3
    <3> QED BY <1>6, <2>2, <2>3, <3>1
  <2>4. CASE j = p
    <3>1. i \in 1 .. n /\ i < p
      BY <1>1, <1>5, <2>4
    <3>2. r[i] = s[i]
      BY <1>6, <3>1
    <3>3. r[p] = w
      BY <1>1, <1>5, <1>6
    <3> QED BY <2>1, <2>4, <3>1, <3>2, <3>3
  <2>5. CASE j > p /\ i < p
    <3>1. i \in 1 .. n /\ j - 1 \in 1 .. n /\ i # j - 1 /\ j # p /\ ~(j < p)
      BY <1>1, <1>5, <2>5
    <3> QED BY <1>6, <2>2, <2>5, <3>1
  <2>6. CASE j > p /\ i = p
    <3>1. j - 1 \in 1 .. n /\ ~(i < p) /\ j # p /\ ~(j < p)
      BY <1>1, <1>5, <2>6
    <3> QED BY <1>6, <2>1, <2>6, <3>1
  <2>7. CASE j > p /\ i > p
    <3>1. i - 1 \in 1 .. n /\ j - 1 \in 1 .. n /\ i - 1 # j - 1
          /\ ~(i < p) /\ ~(j < p) /\ i # p /\ j # p
      BY <1>1, <1>5, <2>7
    <3> QED BY <1>6, <2>2, <3>1
  <2>8. j < p \/ j = p \/ (j > p /\ i < p) \/ (j > p /\ i = p) \/ (j > p /\ i > p)
    BY <1>1, <1>5
  <2> QED BY <2>3, <2>4, <2>5, <2>6, <2>7, <2>8
<1>9. ASSUME SortedBy(s, key) PROVE SortedBy(r, key)
  <2>0. \A i \in 1 .. n : key[s[i]] \in Nat
    BY <1>1
  <2>1. \A i, j \in 1 .. n : i <= j => key[s[i]] <= key[s[j]]
    BY <1>9 DEF SortedBy
  <2>2. key[w] \in Nat /\ \A i \in 1 .. n : i >= p => key[w] <= key[s[i]]
    <3> SUFFICES ASSUME NEW i \in 1 .. n, i >= p PROVE key[w] <= key[s[i]]
      OBVIOUS
    <3>1. p \in 1 .. n /\ p <= i /\ p <= n
      BY <1>1, <1>5
    <3>2. key[s[p]] <= key[s[i]] /\ key[s[p]] > key[w]
      BY <1>5, <2>1, <3>1
    <3> QED BY <2>0, <3>1, <3>2
  <2> SUFFICES ASSUME NEW i \in 1 .. n + 1, NEW j \in 1 .. n + 1, i <= j
               PROVE  key[r[i]] <= key[r[j]]
    BY <1>6 DEF SortedBy
  <2>3. CASE j < p
    <3>1. i \in 1 .. n /\ j \in 1 .. n /\ i < p
      BY <1>1, <1>5, <2>3
    <3> QED BY <1>6, <2>1, <2>3, <3>1
  <2>4. CASE j = p
    <3>1. i = p \/ (i \in 1 .. n /\ i < p)
      BY <1>1, <1>5, <2>4
    <3> QED BY <1>5, <1>6, <2>2, <2>4, <3>1
  <2>5. CASE j > p
    <3>1. j - 1 \in 1 .. n /\ r[j] = s[j - 1] /\ j - 1 >= p
      BY <1>1, <1>5, <1>6, <2>5
    <3>2. CASE i < p
      <4>1. i \in 1 .. n /\ r[i] = s[i] /\ i <= j - 1
        BY <1>1, <1>5, <1>6, <2>5, <3>2
      <4> QED BY <2>1, <3>1, <4>1
    <3>3. CASE i = p
      BY <1>5, <1>6, <2>2, <3>1, <3>3
    <3>4. CASE i > p
      <4>1. i - 1 \in 1 .. n /\ r[i] = s[i - 1] /\ i - 1 <= j - 1
        BY <1>1, <1>5, <1>6, <2>5, <3>4
      <4> QED BY <2>1, <3>1, <4>1
    <3>5. i < p \/ i = p \/ i > p
      BY <1>1, <1>5
    <3> QED BY <3>2, <3>3, <3>4, <3>5
  <2>6. j < p \/ j = p \/ j > p
    BY <1>1, <1>5
  <2> QED BY <2>3, <2>4, <2>5, <2>6
<1>10. r # <<>>
  BY <1>1, <1>6
<1> QED BY <1>6, <1>7, <1>8, <1>9, <1>10 DEF r

\* Inserting one by one sorts: each element has a rank of its own, as many before it
\* as have less or come earlier with the same.
LEMMA InsertedIs ==
  ASSUME NEW s \in Seq(Works), NEW key \in [Works -> Nat]
  PROVE  /\ Inserted(s, key) \in Seq(Works)
         /\ ToSet(Inserted(s, key)) = ToSet(s)
         /\ IsInjective(s) => IsInjective(Inserted(s, key))
         /\ SortedBy(Inserted(s, key), key)
<1> DEFINE n == Len(s)
           N == 1 .. n
           Before(i, j) == \/ key[s[i]] < key[s[j]]
                           \/ key[s[i]] = key[s[j]] /\ i <= j
           B(j) == {i \in N : Before(i, j)}
           rank(j) == Cardinality(B(j))
           Ranked(k) == CHOOSE j \in N : rank(j) = k
           r == Inserted(s, key)
<1>1. n \in Nat /\ DOMAIN s = N /\ \A i \in N : s[i] \in Works /\ key[s[i]] \in Nat /\ i \in Nat
  OBVIOUS
<1>2. r = [k \in N |-> s[Ranked(k)]]
  BY <1>1 DEF Inserted
<1>3. IsFiniteSet(N) /\ Cardinality(N) = n
  BY <1>1, FS_Interval
<1>4. \A i, j, k \in N : Before(i, j) /\ Before(j, k) => Before(i, k)
  BY <1>1
<1>5. \A i, j \in N : Before(i, j) \/ Before(j, i)
  BY <1>1
<1>6. \A i, j \in N : Before(i, j) /\ Before(j, i) => i = j
  BY <1>1
<1>7. \A i \in N : Before(i, i)
  BY <1>1
<1>8. \A i, j \in N : Before(i, j) => key[s[i]] <= key[s[j]]
  BY <1>1
<1> HIDE DEF Before, r
<1>9. ASSUME NEW j \in N
      PROVE  /\ j \in B(j) /\ B(j) \subseteq N /\ IsFiniteSet(B(j))
             /\ rank(j) \in N
  <2>1. j \in B(j) /\ B(j) \subseteq N
    BY <1>7
  <2>2. IsFiniteSet(B(j)) /\ rank(j) \in Nat /\ rank(j) <= n
    <3> HIDE DEF B, N
    <3>1. IsFiniteSet(B(j)) /\ Cardinality(B(j)) <= Cardinality(N)
      BY <1>3, <2>1, FS_Subset
    <3> QED BY <1>3, <3>1, FS_CardinalityType
  <2>3. rank(j) # 0
    <3> HIDE DEF B
    <3> QED BY <2>1, <2>2, FS_EmptySet
  <2> HIDE DEF rank, B
  <2> QED BY <1>1, <2>1, <2>2, <2>3
<1>10. ASSUME NEW i \in N, NEW j \in N, Before(i, j), i # j
       PROVE  rank(i) < rank(j)
  <2>1. B(i) \subseteq B(j)
    BY <1>4, <1>10
  <2>2. j \notin B(i) /\ j \in B(j)
    BY <1>6, <1>9, <1>10
  <2>3. IsFiniteSet(B(j)) /\ B(i) # B(j)
    BY <1>9, <2>2
  <2> HIDE DEF B
  <2> QED BY <2>1, <2>3, FS_Subset, FS_CardinalityType
<1> HIDE DEF B
<1>11. \A i, j \in N : rank(i) = rank(j) => i = j
  <2>1. \A i \in N : rank(i) \in Nat
    BY <1>9
  <2> HIDE DEF rank
  <2> SUFFICES ASSUME NEW i \in N, NEW j \in N, i # j PROVE rank(i) # rank(j)
    OBVIOUS
  <2>2. rank(i) < rank(j) \/ rank(j) < rank(i)
    BY <1>5, <1>10 DEF rank
  <2> QED BY <2>1, <2>2
<1>12. \A k \in N : \E j \in N : rank(j) = k
  <2> DEFINE f == [j \in N |-> rank(j)]
  <2>1. f \in [N -> N] /\ \A j \in N : f[j] = rank(j)
    BY <1>9
  <2> HIDE DEF f, rank
  <2>2. f \in Injection(N, N)
    BY <1>11, <2>1 DEF Injection, IsInjective
  <2>3. f \in Surjection(N, N)
    BY <1>3, <2>2, FS_Injection
  <2> QED BY <2>1, <2>3 DEF Surjection
<1> HIDE DEF rank
<1>13. \A k \in N : Ranked(k) \in N /\ rank(Ranked(k)) = k
  BY <1>12
<1>14. \A j \in N : Ranked(rank(j)) = j
  <2> SUFFICES ASSUME NEW j \in N PROVE Ranked(rank(j)) = j
    OBVIOUS
  <2>1. rank(j) \in N
    BY <1>9 DEF rank
  <2>2. Ranked(rank(j)) \in N /\ rank(Ranked(rank(j))) = rank(j)
    BY <1>13, <2>1
  <2> HIDE DEF Ranked
  <2> QED BY <1>11, <2>2
<1> HIDE DEF Ranked
<1>15. r \in Seq(Works) /\ Len(r) = n /\ DOMAIN r = N /\ \A k \in N : r[k] = s[Ranked(k)]
  <2>1. \A k \in N : s[Ranked(k)] \in Works
    BY <1>1, <1>13
  <2> QED BY <1>1, <1>2, <2>1
<1>16. ToSet(r) = ToSet(s)
  <2>1. \A k \in N : r[k] \in ToSet(s)
    BY <1>1, <1>13, <1>15 DEF ToSet
  <2>2. ASSUME NEW j \in N PROVE s[j] \in ToSet(r)
    <3>1. rank(j) \in N /\ r[rank(j)] = s[j]
      BY <1>9, <1>14, <1>15 DEF rank
    <3> QED BY <1>15, <3>1 DEF ToSet
  <2> QED BY <1>1, <1>15, <2>1, <2>2 DEF ToSet
<1>17. ASSUME IsInjective(s) PROVE IsInjective(r)
  <2>1. \A i, j \in N : s[i] = s[j] => i = j
    BY <1>1, <1>17 DEF IsInjective
  <2>2. \A i, j \in N : r[i] = r[j] => i = j
    BY <1>13, <1>15, <2>1
  <2> QED BY <1>15, <2>2 DEF IsInjective
<1>18. SortedBy(r, key)
  <2> SUFFICES ASSUME NEW i \in N, NEW j \in N, i <= j PROVE key[r[i]] <= key[r[j]]
    BY <1>15 DEF SortedBy
  <2>1. Before(Ranked(i), Ranked(j))
    <3> SUFFICES ASSUME ~Before(Ranked(i), Ranked(j)) PROVE FALSE
      OBVIOUS
    <3>1. Before(Ranked(j), Ranked(i)) /\ Ranked(i) # Ranked(j)
      BY <1>5, <1>7, <1>13
    <3>2. rank(Ranked(j)) < rank(Ranked(i))
      BY <1>10, <1>13, <3>1 DEF rank
    <3>3. j < i
      BY <1>13, <3>2
    <3> QED BY <1>1, <3>3
  <2> QED BY <1>8, <1>13, <1>15, <2>1
<1> QED BY <1>15, <1>16, <1>17, <1>18 DEF r

\* The first of a sorted tree has the least, and what it leaves is sorted.
LEMMA SortedFirst ==
  ASSUME NEW s \in Seq(Works), NEW key \in [Works -> Nat], SortedBy(s, key), s # <<>>
  PROVE  /\ \A w \in ToSet(s) : key[Head(s)] <= key[w]
         /\ SortedBy(Tail(s), key)
<1>1. Len(s) \in Nat \ {0} /\ Head(s) = s[1] /\ DOMAIN s = 1 .. Len(s)
      /\ Len(Tail(s)) = Len(s) - 1 /\ \A i \in 1 .. Len(s) - 1 : Tail(s)[i] = s[i + 1]
  OBVIOUS
<1>2. \A i \in 1 .. Len(s) : key[s[1]] <= key[s[i]]
  BY <1>1 DEF SortedBy
<1>3. \A w \in ToSet(s) : key[Head(s)] <= key[w]
  BY <1>1, <1>2 DEF ToSet
<1>4. \A i, j \in 1 .. Len(s) - 1 : i <= j => key[Tail(s)[i]] <= key[Tail(s)[j]]
  <2> SUFFICES ASSUME NEW i \in 1 .. Len(s) - 1, NEW j \in 1 .. Len(s) - 1, i <= j
               PROVE  key[Tail(s)[i]] <= key[Tail(s)[j]]
    OBVIOUS
  <2>1. i + 1 \in 1 .. Len(s) /\ j + 1 \in 1 .. Len(s) /\ i + 1 <= j + 1
    BY <1>1
  <2> QED BY <1>1, <2>1 DEF SortedBy
<1> QED BY <1>1, <1>3, <1>4 DEF SortedBy

\* A key that changes elsewhere leaves the order.
LEMMA SortedSame ==
  ASSUME NEW s \in Seq(Works), NEW key, NEW keyN, SortedBy(s, key),
         \A w \in ToSet(s) : keyN[w] = key[w]
  PROVE  SortedBy(s, keyN)
<1>1. \A i \in 1 .. Len(s) : s[i] \in ToSet(s)
  BY DEF ToSet
<1> QED BY <1>1 DEF SortedBy

\* kcoro_timeout_wakeup splits blocked in two.
LEMMA DueIs ==
  ASSUME blocked \in Seq(Works), IsInjective(blocked)
  PROVE  /\ CoroDue \in Seq(Works) /\ NotDue \in Seq(Works)
         /\ IsInjective(CoroDue) /\ IsInjective(NotDue)
         /\ ToSet(blocked) = ToSet(CoroDue) \cup ToSet(NotDue)
         /\ ToSet(CoroDue) \cap ToSet(NotDue) = {}
<1> DEFINE n == Len(blocked)
           K == {i \in 0 .. n : i < n => coroTimeout[blocked[i + 1]] > coroTick}
<1>1. n \in Nat /\ DOMAIN blocked = 1 .. n /\ \A i \in 1 .. n : blocked[i] \in Works
  OBVIOUS
<1>2. DueNr \in 0 .. n
  <2>1. K \in SUBSET Nat /\ n \in K /\ K \subseteq 0 .. n /\ DueNr = Min(K)
    BY <1>1 DEF DueNr
  <2> HIDE DEF K
  <2> QED BY <2>1, MinNat
<1> DEFINE d == DueNr
<1> HIDE DEF n, d
<1>3. d \in 0 .. n /\ CoroDue = SubSeq(blocked, 1, d) /\ NotDue = SubSeq(blocked, d + 1, n)
  BY <1>2 DEF CoroDue, NotDue, d, n
<1>4. /\ CoroDue \in Seq(Works) /\ Len(CoroDue) = d
      /\ \A i \in 1 .. d : CoroDue[i] = blocked[i]
  BY <1>1, <1>3 DEF n
<1>5. /\ NotDue \in Seq(Works) /\ Len(NotDue) = n - d
      /\ \A i \in 1 .. n - d : NotDue[i] = blocked[d + i]
  <2> DEFINE e == d + 1
             b == SubSeq(blocked, e, Len(blocked))
  <2>1. e \in 1 .. (Len(blocked) + 1)
    BY <1>1, <1>3 DEF n
  <2> HIDE DEF e
  <2>2. /\ b \in Seq(Works) /\ Len(b) = Len(blocked) - e + 1
        /\ \A i \in 1 .. (Len(blocked) - e + 1) : b[i] = blocked[e + i - 1]
    BY <2>1
  <2>3. NotDue = b
    BY <1>3 DEF n, e
  <2> HIDE DEF b
  <2>4. Len(blocked) - e + 1 = n - d /\ \A i \in 1 .. n - d : e + i - 1 = d + i
    BY <1>1, <1>3 DEF n, e
  <2> QED BY <2>2, <2>3, <2>4
<1>6. \A i, j \in 1 .. n : blocked[i] = blocked[j] => i = j
  BY <1>1 DEF IsInjective, n
<1>7. /\ DOMAIN CoroDue = 1 .. d /\ DOMAIN NotDue = 1 .. n - d
      /\ \A i \in 1 .. d : i \in 1 .. n
      /\ \A i \in 1 .. n - d : d + i \in 1 .. n /\ d + i \notin 1 .. d
      /\ \A i \in 1 .. n : i \in 1 .. d \/ i - d \in 1 .. n - d
  BY <1>1, <1>3, <1>4, <1>5
<1>8. IsInjective(CoroDue) /\ IsInjective(NotDue)
  <2>1. \A i, j \in 1 .. d : CoroDue[i] = CoroDue[j] => i = j
    BY <1>4, <1>6, <1>7
  <2>2. \A i, j \in 1 .. n - d : NotDue[i] = NotDue[j] => i = j
    <3> SUFFICES ASSUME NEW i \in 1 .. n - d, NEW j \in 1 .. n - d, NotDue[i] = NotDue[j]
                 PROVE  i = j
      OBVIOUS
    <3>1. d + i = d + j
      BY <1>5, <1>6, <1>7
    <3> QED BY <1>1, <1>3, <3>1
  <2> QED BY <1>7, <2>1, <2>2 DEF IsInjective
<1>9. ToSet(CoroDue) \cap ToSet(NotDue) = {}
  <2> SUFFICES ASSUME NEW i \in 1 .. d, NEW j \in 1 .. n - d, CoroDue[i] = NotDue[j] PROVE FALSE
    BY <1>7 DEF ToSet
  <2> QED BY <1>4, <1>5, <1>6, <1>7
<1>10. ToSet(blocked) = ToSet(CoroDue) \cup ToSet(NotDue)
  <2>1. \A i \in 1 .. d : CoroDue[i] \in ToSet(blocked)
    BY <1>1, <1>4, <1>7 DEF ToSet, n
  <2>2. \A i \in 1 .. n - d : NotDue[i] \in ToSet(blocked)
    BY <1>1, <1>5, <1>7 DEF ToSet, n
  <2>3. ASSUME NEW i \in 1 .. n PROVE blocked[i] \in ToSet(CoroDue) \cup ToSet(NotDue)
    <3>1. CASE i \in 1 .. d
      BY <1>4, <1>7, <3>1 DEF ToSet
    <3>2. CASE i - d \in 1 .. n - d
      <4> DEFINE e == i - d
      <4>1. e \in 1 .. n - d /\ d + e = i
        BY <1>1, <1>3, <3>2
      <4> HIDE DEF e
      <4>2. NotDue[e] = blocked[i]
        BY <1>5, <4>1
      <4> QED BY <1>7, <4>1, <4>2 DEF ToSet
    <3> QED BY <1>7, <3>1, <3>2
  <2> QED BY <1>1, <1>7, <2>1, <2>2, <2>3 DEF ToSet, n
<1> QED BY <1>4, <1>5, <1>8, <1>9, <1>10

-----------------------------------------------------------------------------
(* Coroutines: the invariant *)

\* Where the works are, given the elements of ready and blocked, the works that are
\* not activated, the states, and where the task is.
Placed(R, B, U, state, at, b) ==
  \A w \in Works :
    /\ w \in R => state[w] = "READY" /\ w \notin B \cup U /\ at # w /\ ~(at = "back" /\ b = w)
    /\ w \in B <=> state[w] = "BLOCK"
    /\ at = w \/ w \in U => state[w] = "READY"
    /\ w \in U => at # w /\ ~(at = "back" /\ b = w)
    /\ at = "back" /\ b = w => state[w] # "none"
    /\ state[w] # "none" => w \in R \cup B \cup U \/ at = w \/ (at = "back" /\ b = w)

\* mvtime is the least of ready, whose order virtual time has not left.
Ordered(r, vt, m) == SortedBy(r, vt) /\ (r # <<>> => m = vt[Head(r)])

CoroInv ==
  /\ CoroTypeOK
  /\ IsInjective(ready) /\ IsInjective(blocked)
  /\ curr = (IF cpu \in Works THEN cpu ELSE NoWork)
  /\ cpu = "back" => back \in Works
  /\ Placed(ToSet(ready), ToSet(blocked), unstarted, coroState, cpu, back)
  /\ Ordered(ready, coroVtime, mvtime)

\* The work on the CPU, were it just given to it, has the least virtual time.
Least ==
  cpu' \in Works /\ (cpu' # cpu \/ coroVtime'[cpu'] # coroVtime[cpu'])
    => \A w \in ToSet(ready') : coroVtime'[cpu'] <= coroVtime'[w]

\* The keys of the trees are numbers.
LEMMA CoroNumbers ==
  /\ CoroMaxVtime \in Nat /\ CoroForever \in Nat /\ CoroMaxTick \in Nat
  /\ [Works -> 0 .. CoroMaxVtime] \subseteq [Works -> Nat]
  /\ [Works -> 0 .. CoroForever] \subseteq [Works -> Nat]
  /\ 0 \in 0 .. CoroMaxVtime /\ 0 \in 0 .. CoroForever
  /\ NoWork \notin Works /\ "out" \notin Works /\ "pick" \notin Works
  /\ "back" \notin Works /\ "sleep" \notin Works
BY CoroAssumption

\* What kcoro_timeout_wakeup makes of ready and mvtime, when only works that are not
\* ready have had time.
LEMMA WakeupIs ==
  ASSUME CoroInv, NEW vt \in [Works -> 0 .. CoroMaxVtime],
         \A w \in ToSet(ready) : vt[w] = coroVtime[w]
  PROVE  /\ ReadyAfterWakeup(vt) \in Seq(Works) /\ IsInjective(ReadyAfterWakeup(vt))
         /\ ToSet(ReadyAfterWakeup(vt)) = ToSet(ready) \cup ToSet(CoroDue)
         /\ MvtimeAfterWakeup(vt) \in 0 .. CoroMaxVtime
         /\ Ordered(ReadyAfterWakeup(vt), vt, MvtimeAfterWakeup(vt))
<1> DEFINE r == ReadyAfterWakeup(vt)
           m == MvtimeAfterWakeup(vt)
           s == ready \o CoroDue
<1>1. /\ ready \in Seq(Works) /\ blocked \in Seq(Works) /\ mvtime \in 0 .. CoroMaxVtime
      /\ IsInjective(ready) /\ IsInjective(blocked) /\ Ordered(ready, coroVtime, mvtime)
      /\ Placed(ToSet(ready), ToSet(blocked), unstarted, coroState, cpu, back)
      /\ curr \in Works \cup {NoWork}
  BY DEF CoroInv, CoroTypeOK
<1>2. /\ CoroDue \in Seq(Works) /\ IsInjective(CoroDue) /\ ToSet(CoroDue) \subseteq ToSet(blocked)
  BY <1>1, DueIs
<1>3. ToSet(ready) \cap ToSet(CoroDue) = {}
  <2>1. ToSet(ready) \subseteq Works
    BY <1>1, ListElems
  <2> QED BY <1>1, <1>2, <2>1 DEF Placed
<1>4. /\ s \in Seq(Works) /\ IsInjective(s) /\ ToSet(s) = ToSet(ready) \cup ToSet(CoroDue)
  BY <1>1, <1>2, <1>3, ListConcat
<1>5. vt \in [Works -> Nat]
  BY CoroNumbers
<1> HIDE DEF s
<1>6. r \in Seq(Works) /\ IsInjective(r) /\ ToSet(r) = ToSet(s) /\ SortedBy(r, vt)
  <2>1. r = Inserted(s, vt)
    BY DEF ReadyAfterWakeup, s
  <2> HIDE DEF r
  <2> QED BY <1>4, <1>5, <2>1, InsertedIs
<1>7. m = IF CoroDue = <<>> THEN mvtime ELSE WorkerUpdate(r, curr, vt)
  BY DEF MvtimeAfterWakeup
<1> HIDE DEF r, m
<1>8. r # <<>> => Head(r) \in Works /\ Head(r) \in ToSet(r)
  BY <1>6, ListFirst
<1>9. CASE CoroDue = <<>>
  <2>1. ToSet(r) = ToSet(ready)
    <3>1. ToSet(CoroDue) = {}
      BY <1>2, <1>9, ListElems
    <3> QED BY <1>4, <1>6, <3>1
  <2>2. ASSUME r # <<>> PROVE mvtime = vt[Head(r)]
    <3>1. ready # <<>>
      BY <1>1, <1>6, <2>1, <2>2, ListElems
    <3>2. SortedBy(ready, vt)
      BY <1>1, SortedSame DEF Ordered
    <3>3. Head(ready) \in ToSet(ready) /\ Head(ready) \in Works
      BY <1>1, <3>1, ListFirst
    <3>4. vt[Head(r)] <= vt[Head(ready)]
      BY <1>5, <1>6, <2>1, <2>2, <3>3, SortedFirst
    <3>5. vt[Head(ready)] <= vt[Head(r)]
      BY <1>1, <1>5, <1>8, <2>1, <2>2, <3>1, <3>2, SortedFirst
    <3>6. mvtime = vt[Head(ready)]
      BY <1>1, <3>1, <3>3 DEF Ordered
    <3>7. vt[Head(r)] \in Nat /\ vt[Head(ready)] \in Nat
      BY <1>5, <1>8, <2>2, <3>3
    <3> QED BY <3>4, <3>5, <3>6, <3>7
  <2> QED BY <1>1, <1>4, <1>6, <1>7, <1>9, <2>2 DEF Ordered, r, m
<1>10. CASE CoroDue # <<>>
  <2>1. r # <<>>
    <3>1. ToSet(CoroDue) # {}
      BY <1>2, <1>10, ListElems
    <3> QED BY <1>4, <1>6, <3>1, ListElems
  <2>2. m = vt[Head(r)] /\ m \in 0 .. CoroMaxVtime
    BY <1>7, <1>8, <1>10, <2>1 DEF WorkerUpdate
  <2> QED BY <1>4, <1>6, <2>2 DEF Ordered, r, m
<1> QED BY <1>9, <1>10

\* The states after it.
LEMMA WakeupStates ==
  ASSUME CoroInv
  PROVE  /\ StateAfterWakeup \in [Works -> {"none", "READY", "BLOCK", "EXITED"}]
         /\ \A w \in Works : StateAfterWakeup[w] = IF w \in ToSet(CoroDue) THEN "READY"
                                                   ELSE coroState[w]
BY DEF StateAfterWakeup, CoroInv, CoroTypeOK

\* worker_update after an insertion or a pick.
LEMMA UpdateIs ==
  ASSUME NEW r \in Seq(Works), NEW c \in Works \cup {NoWork},
         NEW vt \in [Works -> 0 .. CoroMaxVtime]
  PROVE  /\ WorkerUpdate(r, c, vt) \in 0 .. CoroMaxVtime
         /\ r # <<>> => WorkerUpdate(r, c, vt) = vt[Head(r)]
<1>1. r # <<>> => Head(r) \in Works
  BY ListFirst
<1> QED BY <1>1, CoroNumbers DEF WorkerUpdate

\* Taking the first of ready.
LEMMA PickIs ==
  ASSUME NEW r \in Seq(Works), r # <<>>, IsInjective(r), NEW c \in Works \cup {NoWork},
         NEW vt \in [Works -> 0 .. CoroMaxVtime], SortedBy(r, vt)
  PROVE  /\ Head(r) \in Works /\ Tail(r) \in Seq(Works) /\ IsInjective(Tail(r))
         /\ Head(r) \in ToSet(r) /\ ToSet(Tail(r)) = ToSet(r) \ {Head(r)}
         /\ WorkerUpdate(Tail(r), c, vt) \in 0 .. CoroMaxVtime
         /\ Ordered(Tail(r), vt, WorkerUpdate(Tail(r), c, vt))
         /\ \A w \in ToSet(Tail(r)) : vt[Head(r)] <= vt[w]
<1>1. vt \in [Works -> Nat]
  BY CoroNumbers
<1>2. /\ Head(r) \in Works /\ Head(r) \in ToSet(r)
  BY ListFirst
<1>3. /\ Tail(r) \in Seq(Works) /\ IsInjective(Tail(r))
      /\ ToSet(Tail(r)) = ToSet(r) \ {Head(r)}
  BY ListTail
<1>4. /\ \A w \in ToSet(r) : vt[Head(r)] <= vt[w]
      /\ SortedBy(Tail(r), vt)
  BY <1>1, SortedFirst
<1>5. /\ WorkerUpdate(Tail(r), c, vt) \in 0 .. CoroMaxVtime
      /\ Tail(r) # <<>> => WorkerUpdate(Tail(r), c, vt) = vt[Head(Tail(r))]
  BY <1>3, UpdateIs
<1> QED BY <1>2, <1>3, <1>4, <1>5 DEF Ordered

-----------------------------------------------------------------------------
(* Coroutines: the steps *)

LEMMA CoroStarts == CoroInit => CoroInv
<1> SUFFICES ASSUME CoroInit PROVE CoroInv
  OBVIOUS
<1>1. <<>> \in Seq(Works) /\ IsInjective(<<>>) /\ ToSet(<<>>) = {} /\ Len(<<>>) = 0
  BY DEF IsInjective, ToSet
<1>2. CoroTypeOK
  BY <1>1, CoroNumbers DEF CoroInit, CoroTypeOK
<1>3. Placed(ToSet(ready), ToSet(blocked), unstarted, coroState, cpu, back)
  BY <1>1, CoroNumbers DEF CoroInit, Placed
<1>4. Ordered(ready, coroVtime, mvtime)
  BY <1>1 DEF CoroInit, Ordered, SortedBy
<1> QED BY <1>1, <1>2, <1>3, <1>4, CoroNumbers DEF CoroInit, CoroInv

LEMMA CreateKeeps ==
  ASSUME CoroInv, NEW w \in Works, WorkCreate(w)
  PROVE  CoroInv' /\ Least
<1>1. /\ CoroTypeOK /\ Placed(ToSet(ready), ToSet(blocked), unstarted, coroState, cpu, back)
      /\ Ordered(ready, coroVtime, mvtime) /\ ready \in Seq(Works)
  BY DEF CoroInv, CoroTypeOK
<1>2. /\ CallerRuns /\ coroState[w] = "none"
      /\ coroState' = [coroState EXCEPT ![w] = "READY"]
      /\ coroVtime' = [coroVtime EXCEPT ![w] = mvtime]
      /\ coroTimeout' = [coroTimeout EXCEPT ![w] = 0]
      /\ unstarted' = unstarted \cup {w}
      /\ UNCHANGED <<ready, blocked, mvtime, curr, cpu, back, coroTick>>
  BY DEF WorkCreate
<1>3. w \notin ToSet(ready) /\ w \notin ToSet(blocked) /\ cpu # w
  BY <1>1, <1>2 DEF Placed
<1>4. CoroTypeOK'
  BY <1>1, <1>2, CoroNumbers DEF CoroTypeOK
<1>5. Placed(ToSet(ready), ToSet(blocked), unstarted', coroState', cpu, back)
  <2>1. cpu # "back"
    BY <1>2, CoroNumbers DEF CallerRuns
  <2>2. \A x \in Works : coroState'[x] = IF x = w THEN "READY" ELSE coroState[x]
    BY <1>1, <1>2 DEF CoroTypeOK
  <2> QED BY <1>1, <1>2, <1>3, <2>1, <2>2 DEF Placed
<1>6. \A x \in Works : x # w => coroVtime'[x] = coroVtime[x]
  BY <1>1, <1>2 DEF CoroTypeOK
<1>7. \A x \in ToSet(ready) : coroVtime'[x] = coroVtime[x]
  <2>1. ToSet(ready) \subseteq Works
    BY <1>1, ListElems
  <2> QED BY <1>3, <1>6, <2>1
<1>8. Ordered(ready, coroVtime', mvtime)
  <2>1. SortedBy(ready, coroVtime')
    BY <1>1, <1>7, SortedSame DEF Ordered
  <2>2. ready # <<>> => Head(ready) \in ToSet(ready)
    BY <1>1, ListFirst
  <2> QED BY <1>1, <1>7, <2>1, <2>2 DEF Ordered
<1>9. CoroInv'
  BY <1>2, <1>4, <1>5, <1>8 DEF CoroInv
<1>10. Least
  BY <1>2, <1>3, <1>6 DEF Least
<1> QED BY <1>9, <1>10

LEMMA ActivateKeeps ==
  ASSUME CoroInv, NEW w \in Works, Activate(w)
  PROVE  CoroInv' /\ Least
<1>1. /\ CoroTypeOK /\ Placed(ToSet(ready), ToSet(blocked), unstarted, coroState, cpu, back)
      /\ Ordered(ready, coroVtime, mvtime) /\ ready \in Seq(Works) /\ IsInjective(ready)
  BY DEF CoroInv, CoroTypeOK
<1>2. /\ w \in unstarted /\ unstarted' = unstarted \ {w}
      /\ coroVtime' = [coroVtime EXCEPT ![w] = mvtime]
      /\ ready' = TreeInsert(ready, w, coroVtime')
      /\ mvtime' = WorkerUpdate(ready', curr, coroVtime')
      /\ UNCHANGED <<coroState, coroTimeout, blocked, curr, cpu, back, coroTick>>
  BY DEF Activate
<1>3. w \notin ToSet(ready) /\ w \notin ToSet(blocked) /\ cpu # w /\ coroState[w] = "READY"
      /\ ~(cpu = "back" /\ back = w)
  BY <1>1, <1>2 DEF Placed
<1>4. coroVtime' \in [Works -> 0 .. CoroMaxVtime] /\ coroVtime' \in [Works -> Nat]
  BY <1>1, <1>2, CoroNumbers DEF CoroTypeOK
<1>5. \A x \in Works : x # w => coroVtime'[x] = coroVtime[x]
  BY <1>1, <1>2 DEF CoroTypeOK
<1>6. SortedBy(ready, coroVtime')
  <2>1. ToSet(ready) \subseteq Works
    BY <1>1, ListElems
  <2> QED BY <1>1, <1>3, <1>5, <2>1, SortedSame DEF Ordered
<1>7. /\ ready' \in Seq(Works) /\ ready' # <<>> /\ ToSet(ready') = ToSet(ready) \cup {w}
      /\ IsInjective(ready') /\ SortedBy(ready', coroVtime')
  BY <1>1, <1>2, <1>3, <1>4, <1>6, TreeInsertIs
<1>8. mvtime' \in 0 .. CoroMaxVtime /\ mvtime' = coroVtime'[Head(ready')]
  <2>1. curr \in Works \cup {NoWork}
    BY <1>1 DEF CoroTypeOK
  <2> QED BY <1>2, <1>4, <1>7, <2>1, UpdateIs
<1>9. CoroTypeOK'
  BY <1>1, <1>2, <1>4, <1>7, <1>8 DEF CoroTypeOK
<1>10. Placed(ToSet(ready'), ToSet(blocked), unstarted', coroState, cpu, back)
  BY <1>1, <1>2, <1>3, <1>7 DEF Placed
<1>11. CoroInv'
  BY <1>2, <1>7, <1>8, <1>9, <1>10 DEF CoroInv, Ordered
<1>12. Least
  BY <1>2, <1>3, <1>5 DEF Least
<1> QED BY <1>11, <1>12

\* What the works and their trees are like once the caller of kcoro_yield has had time.
LEMMA YieldTime ==
  ASSUME CoroInv, NEW w \in Works, cpu = w, NEW d \in CoroSlices,
         coroVtime[w] + d <= CoroMaxVtime, coroVtime' = [coroVtime EXCEPT ![w] = @ + d]
  PROVE  /\ coroVtime' \in [Works -> 0 .. CoroMaxVtime]
         /\ w \notin ToSet(ready) /\ w \notin ToSet(blocked) /\ w \notin unstarted
         /\ curr = w
         /\ \A x \in ToSet(ready) : coroVtime'[x] = coroVtime[x]
<1>1. /\ CoroTypeOK /\ Placed(ToSet(ready), ToSet(blocked), unstarted, coroState, cpu, back)
      /\ ready \in Seq(Works) /\ curr = w
  BY DEF CoroInv, CoroTypeOK
<1>2. coroVtime[w] + d \in 0 .. CoroMaxVtime
  <2>1. coroVtime[w] \in Nat /\ d \in Nat
    BY <1>1, CoroAssumption DEF CoroTypeOK
  <2> QED BY <2>1, CoroNumbers
<1>3. coroVtime' \in [Works -> 0 .. CoroMaxVtime]
  BY <1>1, <1>2 DEF CoroTypeOK
<1>4. w \notin ToSet(ready) /\ w \notin ToSet(blocked) /\ w \notin unstarted
  BY <1>1 DEF Placed
<1>5. ToSet(ready) \subseteq Works
  BY <1>1, ListElems
<1>6. \A x \in Works : x # w => coroVtime'[x] = coroVtime[x]
  BY <1>1 DEF CoroTypeOK
<1> QED BY <1>1, <1>3, <1>4, <1>5, <1>6

LEMMA YieldKeeps ==
  ASSUME CoroInv, NEW w \in Works, NEW d \in CoroSlices, Yield(w, d)
  PROVE  CoroInv' /\ Least
<1> DEFINE vt == coroVtime'
           r == ReadyAfterWakeup(vt)
           m == MvtimeAfterWakeup(vt)
<1>1. /\ CoroTypeOK /\ Placed(ToSet(ready), ToSet(blocked), unstarted, coroState, cpu, back)
      /\ IsInjective(blocked) /\ blocked \in Seq(Works) /\ curr \in Works \cup {NoWork}
  BY DEF CoroInv, CoroTypeOK
<1>2. /\ cpu = w /\ coroVtime[w] + d <= CoroMaxVtime
      /\ coroVtime' = [coroVtime EXCEPT ![w] = @ + d]
      /\ coroState' = StateAfterWakeup /\ blocked' = NotDue
      /\ UNCHANGED <<coroTimeout, unstarted, coroTick>>
      /\ \/ vt[w] > m /\ PickNext(w, TreeInsert(r, w, vt), m, vt)
         \/ /\ vt[w] <= m /\ ready' = r /\ mvtime' = m
            /\ UNCHANGED <<curr, cpu, back>>
  BY DEF Yield, YieldReady
<1>3. /\ vt \in [Works -> 0 .. CoroMaxVtime] /\ vt \in [Works -> Nat]
      /\ w \notin ToSet(ready) /\ w \notin ToSet(blocked) /\ w \notin unstarted
      /\ curr = w
      /\ \A x \in ToSet(ready) : vt[x] = coroVtime[x]
  BY <1>2, YieldTime, CoroNumbers
<1>4. /\ r \in Seq(Works) /\ IsInjective(r) /\ ToSet(r) = ToSet(ready) \cup ToSet(CoroDue)
      /\ m \in 0 .. CoroMaxVtime /\ SortedBy(r, vt) /\ (r # <<>> => m = vt[Head(r)])
  <2> HIDE DEF vt
  <2>1. /\ r \in Seq(Works) /\ IsInjective(r) /\ ToSet(r) = ToSet(ready) \cup ToSet(CoroDue)
        /\ m \in 0 .. CoroMaxVtime /\ Ordered(r, vt, m)
    BY <1>3, WakeupIs
  <2> QED BY <2>1 DEF Ordered
<1> HIDE DEF vt, r, m
<1>5. /\ NotDue \in Seq(Works) /\ IsInjective(NotDue)
      /\ ToSet(blocked) = ToSet(CoroDue) \cup ToSet(NotDue)
      /\ ToSet(CoroDue) \cap ToSet(NotDue) = {}
  BY <1>1, DueIs
<1>6. /\ coroState' \in [Works -> {"none", "READY", "BLOCK", "EXITED"}]
      /\ \A x \in Works : coroState'[x] = IF x \in ToSet(CoroDue) THEN "READY" ELSE coroState[x]
  BY <1>2, WakeupStates
<1>7. CASE vt[w] > m /\ PickNext(w, TreeInsert(r, w, vt), m, vt)
  <2> DEFINE t == TreeInsert(r, w, vt)
  <2>1. w \notin ToSet(r)
    BY <1>3, <1>4, <1>5
  <2>2. /\ t \in Seq(Works) /\ t # <<>> /\ ToSet(t) = ToSet(r) \cup {w}
        /\ IsInjective(t) /\ SortedBy(t, vt)
    BY <1>3, <1>4, <2>1, TreeInsertIs
  <2>3. /\ ready' = Tail(t) /\ mvtime' = WorkerUpdate(Tail(t), curr, vt)
        /\ cpu' = Head(t) /\ curr' = Head(t) /\ back' = back
    BY <1>7, <2>2 DEF PickNext
  <2> HIDE DEF t
  <2>4. /\ Head(t) \in Works /\ ready' \in Seq(Works) /\ IsInjective(ready')
        /\ Head(t) \in ToSet(t) /\ ToSet(ready') = ToSet(t) \ {Head(t)}
        /\ mvtime' \in 0 .. CoroMaxVtime
        /\ Ordered(ready', vt, mvtime')
        /\ \A x \in ToSet(ready') : vt[Head(t)] <= vt[x]
    BY <1>1, <1>3, <2>2, <2>3, PickIs
  <2>5. CoroTypeOK'
    BY <1>1, <1>2, <1>3, <1>5, <1>6, <2>3, <2>4 DEF CoroTypeOK, vt
  <2>6. Placed(ToSet(ready'), ToSet(NotDue), unstarted, coroState', cpu', back)
    <3>1. cpu' \in Works /\ cpu' # "back" /\ cpu # "back"
      BY <1>2, <2>3, <2>4, CoroNumbers
    <3>2. \A x \in Works : x \in ToSet(ready') <=> (x \in ToSet(ready) \cup ToSet(CoroDue) \cup {w}
                                                   /\ x # cpu')
      BY <1>4, <2>2, <2>3, <2>4
    <3>3. cpu' \in ToSet(ready) \cup ToSet(CoroDue) \cup {w}
      BY <1>4, <2>2, <2>3, <2>4
    <3> QED BY <1>1, <1>2, <1>3, <1>5, <1>6, <3>1, <3>2, <3>3 DEF Placed
  <2>7. CoroInv'
    BY <1>2, <1>5, <2>3, <2>4, <2>5, <2>6, CoroNumbers DEF CoroInv, vt
  <2>8. Least
    BY <2>3, <2>4 DEF Least, vt
  <2> QED BY <2>7, <2>8
<1>8. CASE vt[w] <= m /\ ready' = r /\ mvtime' = m /\ UNCHANGED <<curr, cpu, back>>
  <2>1. CoroTypeOK'
    BY <1>1, <1>2, <1>3, <1>4, <1>5, <1>6, <1>8 DEF CoroTypeOK, vt
  <2>2. Placed(ToSet(r), ToSet(NotDue), unstarted, coroState', cpu, back)
    <3>1. cpu # "back"
      BY <1>2, CoroNumbers
    <3> QED BY <1>1, <1>2, <1>3, <1>4, <1>5, <1>6, <3>1 DEF Placed
  <2>3. CoroInv'
    BY <1>2, <1>3, <1>4, <1>5, <1>8, <2>1, <2>2, CoroNumbers DEF CoroInv, Ordered, vt
  <2>4. Least
    <3>1. ASSUME NEW x \in ToSet(r) PROVE vt[w] <= vt[x]
      <4>1. x \in Works /\ r # <<>> /\ Head(r) \in Works
        BY <1>4, <3>1, ListElems, ListFirst
      <4>2. vt[Head(r)] <= vt[x] /\ m = vt[Head(r)]
        BY <1>3, <1>4, <3>1, <4>1, SortedFirst
      <4>3. vt[w] \in Nat /\ vt[x] \in Nat /\ vt[Head(r)] \in Nat
        BY <1>3, <4>1
      <4> QED BY <1>8, <4>2, <4>3
    <3> QED BY <1>2, <1>8, <3>1 DEF Least, vt
  <2> QED BY <2>3, <2>4
<1> QED BY <1>2, <1>7, <1>8

LEMMA TSleepKeeps ==
  ASSUME CoroInv, NEW w \in Works, NEW d \in CoroSlices, NEW until \in 0 .. CoroForever,
         TSleep(w, d, until)
  PROVE  CoroInv' /\ Least
<1> DEFINE vt == coroVtime'
           r == ReadyAfterWakeup(vt)
           m == MvtimeAfterWakeup(vt)
<1>1. /\ CoroTypeOK /\ Placed(ToSet(ready), ToSet(blocked), unstarted, coroState, cpu, back)
      /\ IsInjective(blocked) /\ blocked \in Seq(Works) /\ curr \in Works \cup {NoWork}
  BY DEF CoroInv, CoroTypeOK
<1>2. /\ cpu = w /\ coroVtime[w] + d <= CoroMaxVtime
      /\ coroVtime' = [coroVtime EXCEPT ![w] = @ + d]
      /\ coroTimeout' = [coroTimeout EXCEPT ![w] = until]
      /\ coroState' = [StateAfterWakeup EXCEPT ![w] = "BLOCK"]
      /\ blocked' = TreeInsert(NotDue, w, coroTimeout') /\ PickNext(w, r, m, vt)
      /\ UNCHANGED <<unstarted, coroTick>>
  BY DEF TSleep, YieldBlock
<1>3. /\ vt \in [Works -> 0 .. CoroMaxVtime] /\ vt \in [Works -> Nat]
      /\ w \notin ToSet(ready) /\ w \notin ToSet(blocked) /\ w \notin unstarted
      /\ curr = w
      /\ \A x \in ToSet(ready) : vt[x] = coroVtime[x]
  BY <1>2, YieldTime, CoroNumbers
<1>4. /\ r \in Seq(Works) /\ IsInjective(r) /\ ToSet(r) = ToSet(ready) \cup ToSet(CoroDue)
      /\ m \in 0 .. CoroMaxVtime /\ SortedBy(r, vt) /\ (r # <<>> => m = vt[Head(r)])
  <2> HIDE DEF vt
  <2>1. /\ r \in Seq(Works) /\ IsInjective(r) /\ ToSet(r) = ToSet(ready) \cup ToSet(CoroDue)
        /\ m \in 0 .. CoroMaxVtime /\ Ordered(r, vt, m)
    BY <1>3, WakeupIs
  <2> QED BY <2>1 DEF Ordered
<1> HIDE DEF vt, r, m
<1>5. /\ NotDue \in Seq(Works) /\ IsInjective(NotDue)
      /\ ToSet(blocked) = ToSet(CoroDue) \cup ToSet(NotDue)
      /\ ToSet(CoroDue) \cap ToSet(NotDue) = {}
  BY <1>1, DueIs
<1>6. coroTimeout' \in [Works -> 0 .. CoroForever] /\ coroTimeout' \in [Works -> Nat]
  BY <1>1, <1>2, CoroNumbers DEF CoroTypeOK
<1>7. /\ blocked' \in Seq(Works) /\ IsInjective(blocked')
      /\ ToSet(blocked') = ToSet(NotDue) \cup {w}
  BY <1>2, <1>3, <1>5, <1>6, TreeInsertIs
<1>8. /\ coroState' \in [Works -> {"none", "READY", "BLOCK", "EXITED"}]
      /\ \A x \in Works : coroState'[x] = IF x = w THEN "BLOCK"
                                          ELSE IF x \in ToSet(CoroDue) THEN "READY"
                                          ELSE coroState[x]
  BY <1>2, WakeupStates
<1>9. CASE r = <<>>
  <2>1. /\ ready' = r /\ mvtime' = m /\ cpu' = "back" /\ back' = w /\ curr' = NoWork
    BY <1>2, <1>9 DEF PickNext, BackToLoop
  <2>2. CoroTypeOK'
    BY <1>1, <1>2, <1>3, <1>4, <1>6, <1>7, <1>8, <2>1 DEF CoroTypeOK, vt
  <2>3. Placed(ToSet(r), ToSet(blocked'), unstarted, coroState', cpu', back')
    <3>1. ToSet(r) = {} /\ "back" \notin Works
      BY <1>9, CoroNumbers DEF ToSet
    <3>2. ToSet(ready) = {} /\ ToSet(CoroDue) = {}
      BY <1>4, <3>1
    <3> QED BY <1>1, <1>2, <1>3, <1>5, <1>7, <1>8, <2>1, <3>1, <3>2 DEF Placed
  <2>4. CoroInv'
    BY <1>2, <1>4, <1>7, <2>1, <2>2, <2>3, CoroNumbers DEF CoroInv, Ordered, vt
  <2>5. Least
    BY <2>1, CoroNumbers DEF Least
  <2> QED BY <2>4, <2>5
<1>10. CASE r # <<>>
  <2>1. /\ ready' = Tail(r) /\ mvtime' = WorkerUpdate(Tail(r), curr, vt)
        /\ cpu' = Head(r) /\ curr' = Head(r) /\ back' = back
    BY <1>2, <1>10 DEF PickNext
  <2>2. /\ Head(r) \in Works /\ ready' \in Seq(Works) /\ IsInjective(ready')
        /\ Head(r) \in ToSet(r) /\ ToSet(ready') = ToSet(r) \ {Head(r)}
        /\ mvtime' \in 0 .. CoroMaxVtime
        /\ Ordered(ready', vt, mvtime')
        /\ \A x \in ToSet(ready') : vt[Head(r)] <= vt[x]
    BY <1>1, <1>3, <1>4, <1>10, <2>1, PickIs
  <2>3. CoroTypeOK'
    BY <1>1, <1>2, <1>3, <1>6, <1>7, <1>8, <2>1, <2>2 DEF CoroTypeOK, vt
  <2>4. Placed(ToSet(ready'), ToSet(blocked'), unstarted, coroState', cpu', back)
    <3>1. cpu' \in Works /\ cpu' # "back" /\ cpu # "back"
      BY <1>2, <2>1, <2>2, CoroNumbers
    <3>2. \A x \in Works : x \in ToSet(ready') <=> (x \in ToSet(ready) \cup ToSet(CoroDue)
                                                   /\ x # cpu')
      BY <1>4, <2>1, <2>2
    <3>3. cpu' \in ToSet(ready) \cup ToSet(CoroDue)
      BY <1>4, <2>1, <2>2
    <3>4. cpu' # w /\ ~(cpu' = "back") /\ w \in Works /\ w \notin ToSet(ready')
          /\ w \notin ToSet(CoroDue)
      BY <1>1, <1>3, <1>5, <3>1, <3>2, <3>3
    <3> SUFFICES ASSUME NEW x \in Works
                 PROVE
      /\ x \in ToSet(ready') => /\ coroState'[x] = "READY" /\ x \notin ToSet(blocked') \cup unstarted
                               /\ cpu' # x
      /\ x \in ToSet(blocked') <=> coroState'[x] = "BLOCK"
      /\ cpu' = x \/ x \in unstarted => coroState'[x] = "READY"
      /\ x \in unstarted => cpu' # x
      /\ coroState'[x] # "none" => x \in ToSet(ready') \cup ToSet(blocked') \cup unstarted \/ cpu' = x
      BY <3>1 DEF Placed
    <3>5. /\ x \in ToSet(ready) => coroState[x] = "READY" /\ x \notin ToSet(blocked) \cup unstarted
          /\ x \in ToSet(blocked) <=> coroState[x] = "BLOCK"
          /\ x \in unstarted => coroState[x] = "READY"
          /\ coroState[x] # "none" => x \in ToSet(ready) \cup ToSet(blocked) \cup unstarted \/ w = x
      BY <1>1, <1>2, <3>1 DEF Placed
    <3>6. CASE x = w
      BY <1>3, <1>7, <1>8, <3>4, <3>6
    <3>7. CASE x # w /\ x \in ToSet(CoroDue)
      <4>1. coroState'[x] = "READY" /\ x \in ToSet(blocked) /\ x \notin ToSet(NotDue)
        BY <1>5, <1>8, <3>7
      <4>2. x \notin unstarted /\ x \notin ToSet(blocked')
        BY <1>7, <3>5, <3>7, <4>1
      <4> QED BY <3>2, <3>7, <4>1, <4>2
    <3>8. CASE x # w /\ x \notin ToSet(CoroDue)
      <4>1. coroState'[x] = coroState[x]
            /\ (x \in ToSet(blocked') <=> x \in ToSet(blocked))
            /\ (x \in ToSet(ready') <=> x \in ToSet(ready) /\ x # cpu')
        BY <1>5, <1>7, <1>8, <3>2, <3>8
      <4>2. cpu' = x => x \in ToSet(ready)
        BY <3>3, <3>8
      <4> QED BY <3>5, <3>8, <4>1, <4>2
    <3> QED BY <3>6, <3>7, <3>8
  <2>5. CoroInv'
    BY <1>2, <1>7, <2>1, <2>2, <2>3, <2>4, CoroNumbers DEF CoroInv, vt
  <2>6. Least
    BY <2>1, <2>2 DEF Least, vt
  <2> QED BY <2>5, <2>6
<1> QED BY <1>9, <1>10

LEMMA EndKeeps ==
  ASSUME CoroInv, NEW w \in Works, NEW state \in {"EXITED", "READY"}, EndWork(w, state)
  PROVE  CoroInv' /\ Least
<1>1. /\ CoroTypeOK /\ Placed(ToSet(ready), ToSet(blocked), unstarted, coroState, cpu, back)
  BY DEF CoroInv
<1>2. /\ cpu = w /\ coroState' = [coroState EXCEPT ![w] = state]
      /\ cpu' = "back" /\ back' = w /\ curr' = NoWork
      /\ UNCHANGED <<coroVtime, coroTimeout, unstarted, ready, blocked, mvtime, coroTick>>
  BY DEF EndWork, BackToLoop
<1>3. CoroTypeOK'
  BY <1>1, <1>2 DEF CoroTypeOK
<1>4. Placed(ToSet(ready), ToSet(blocked), unstarted, coroState', cpu', back')
  <2>1. \A x \in Works : coroState'[x] = IF x = w THEN state ELSE coroState[x]
    BY <1>1, <1>2 DEF CoroTypeOK
  <2> QED BY <1>1, <1>2, <2>1, CoroNumbers DEF Placed
<1>5. CoroInv'
  BY <1>2, <1>3, <1>4, CoroNumbers DEF CoroInv
<1> QED BY <1>2, <1>5, CoroNumbers DEF Least

LEMMA LoopKeeps ==
  ASSUME CoroInv, Schedule \/ LoopPick \/ LoopDestroy \/ LoopSleep \/ LoopWakeup \/ CoroClock
  PROVE  CoroInv' /\ Least
<1>1. /\ CoroTypeOK /\ Placed(ToSet(ready), ToSet(blocked), unstarted, coroState, cpu, back)
      /\ IsInjective(ready) /\ IsInjective(blocked) /\ Ordered(ready, coroVtime, mvtime)
      /\ ready \in Seq(Works) /\ blocked \in Seq(Works) /\ curr \in Works \cup {NoWork}
      /\ coroVtime \in [Works -> 0 .. CoroMaxVtime]
      /\ curr = (IF cpu \in Works THEN cpu ELSE NoWork) /\ (cpu = "back" => back \in Works)
  BY DEF CoroInv, CoroTypeOK
<1>2. CASE Schedule
  <2>1. CoroTypeOK'
    BY <1>1, <1>2 DEF Schedule, CoroTypeOK
  <2>2. Placed(ToSet(ready), ToSet(blocked), unstarted, coroState, cpu', back)
    BY <1>1, <1>2, CoroNumbers DEF Schedule, Placed
  <2> QED BY <1>1, <1>2, <2>1, <2>2, CoroNumbers DEF Schedule, CoroInv, Least
<1>3. CASE LoopPick /\ ready # <<>>
  <2>1. /\ cpu = "pick" /\ ready' = Tail(ready)
        /\ mvtime' = WorkerUpdate(Tail(ready), curr, coroVtime)
        /\ curr' = Head(ready) /\ cpu' = Head(ready) /\ back' = back
        /\ UNCHANGED <<coroState, coroVtime, coroTimeout, unstarted, blocked, coroTick>>
    BY <1>3 DEF LoopPick
  <2>2. /\ Head(ready) \in Works /\ ready' \in Seq(Works) /\ IsInjective(ready')
        /\ Head(ready) \in ToSet(ready) /\ ToSet(ready') = ToSet(ready) \ {Head(ready)}
        /\ mvtime' \in 0 .. CoroMaxVtime
        /\ Ordered(ready', coroVtime, mvtime')
        /\ \A x \in ToSet(ready') : coroVtime[Head(ready)] <= coroVtime[x]
    BY <1>1, <1>3, <2>1, PickIs DEF Ordered
  <2>3. CoroTypeOK'
    BY <1>1, <2>1, <2>2 DEF CoroTypeOK
  <2>4. Placed(ToSet(ready'), ToSet(blocked), unstarted, coroState, cpu', back)
    <3>1. cpu' \in Works /\ cpu' # "back" /\ cpu' \in ToSet(ready)
          /\ ToSet(ready') = ToSet(ready) \ {cpu'}
      BY <2>1, <2>2, CoroNumbers
    <3> QED BY <1>1, <2>1, <3>1, CoroNumbers DEF Placed
  <2>5. CoroInv'
    BY <1>1, <2>1, <2>2, <2>3, <2>4, CoroNumbers DEF CoroInv
  <2> QED BY <2>1, <2>2, <2>5 DEF Least
<1>4. CASE LoopPick /\ ready = <<>> /\ blocked # <<>>
  <2>1. /\ cpu = "pick" /\ cpu' = "back" /\ back' = Head(blocked)
        /\ UNCHANGED <<coroState, coroVtime, coroTimeout, unstarted, blocked, coroTick,
                       ready, mvtime, curr>>
    BY <1>4 DEF LoopPick
  <2>2. back' \in Works /\ back' \in ToSet(blocked)
    BY <1>1, <1>4, <2>1, ListFirst
  <2>3. CoroTypeOK'
    BY <1>1, <2>1, <2>2 DEF CoroTypeOK
  <2>4. Placed(ToSet(ready), ToSet(blocked), unstarted, coroState, cpu', back')
    BY <1>1, <2>1, <2>2, CoroNumbers DEF Placed
  <2> QED BY <1>1, <2>1, <2>2, <2>3, <2>4, CoroNumbers DEF CoroInv, Least
<1>5. CASE LoopPick /\ ready = <<>> /\ blocked = <<>>
  <2>1. /\ cpu = "pick" /\ cpu' = "out" /\ back' = NoWork
        /\ UNCHANGED <<coroState, coroVtime, coroTimeout, unstarted, blocked, coroTick,
                       ready, mvtime, curr>>
    BY <1>5 DEF LoopPick
  <2>2. CoroTypeOK'
    BY <1>1, <2>1 DEF CoroTypeOK
  <2>3. Placed(ToSet(ready), ToSet(blocked), unstarted, coroState, cpu', back')
    BY <1>1, <2>1, CoroNumbers DEF Placed
  <2> QED BY <1>1, <2>1, <2>2, <2>3, CoroNumbers DEF CoroInv, Least
<1>6. CASE LoopDestroy
  <2>1. /\ cpu = "back" /\ coroState[back] \in {"READY", "EXITED"}
        /\ coroState' = [coroState EXCEPT ![back] = "none"]
        /\ cpu' \in {"pick", "out"} /\ back' = NoWork
        /\ UNCHANGED <<coroVtime, coroTimeout, unstarted, ready, blocked, mvtime,
                       curr, coroTick>>
    BY <1>6 DEF LoopDestroy
  <2>2. CoroTypeOK'
    BY <1>1, <2>1 DEF CoroTypeOK
  <2>3. Placed(ToSet(ready), ToSet(blocked), unstarted, coroState', cpu', back')
    <3>1. \A x \in Works : coroState'[x] = IF x = back THEN "none" ELSE coroState[x]
      BY <1>1, <2>1 DEF CoroTypeOK
    <3>2. back \in Works /\ back \notin ToSet(ready) \cup ToSet(blocked) \cup unstarted
      BY <1>1, <2>1 DEF Placed
    <3>3. cpu' # "back" /\ cpu' \notin Works
      BY <2>1, CoroNumbers
    <3> QED BY <1>1, <2>1, <3>1, <3>2, <3>3, CoroNumbers DEF Placed
  <2> QED BY <1>1, <2>1, <2>2, <2>3, CoroNumbers DEF CoroInv, Least
<1>7. CASE LoopSleep
  <2>1. /\ cpu = "back" /\ coroState[back] = "BLOCK"
        /\ cpu' \in {"out", "sleep"} /\ back' \in {NoWork, back}
        /\ UNCHANGED <<coroState, coroVtime, coroTimeout, unstarted, ready, blocked, mvtime,
                       curr, coroTick>>
    BY <1>7 DEF LoopSleep
  <2>2. CoroTypeOK'
    BY <1>1, <2>1 DEF CoroTypeOK
  <2>3. Placed(ToSet(ready), ToSet(blocked), unstarted, coroState, cpu', back')
    <3>1. back \in ToSet(blocked)
      BY <1>1, <2>1 DEF Placed
    <3>2. cpu' # "back" /\ cpu' \notin Works
      BY <2>1, CoroNumbers
    <3> QED BY <1>1, <2>1, <3>1, <3>2, CoroNumbers DEF Placed
  <2> QED BY <1>1, <2>1, <2>2, <2>3, CoroNumbers DEF CoroInv, Least
<1>8. CASE LoopWakeup
  <2> DEFINE r == ReadyAfterWakeup(coroVtime)
             m == MvtimeAfterWakeup(coroVtime)
  <2>1. /\ cpu = "sleep" /\ coroState' = StateAfterWakeup /\ ready' = r /\ mvtime' = m
        /\ blocked' = NotDue /\ cpu' = "pick" /\ back' = NoWork
        /\ UNCHANGED <<coroVtime, coroTimeout, unstarted, curr, coroTick>>
    BY <1>8 DEF LoopWakeup
  <2>2. /\ r \in Seq(Works) /\ IsInjective(r) /\ ToSet(r) = ToSet(ready) \cup ToSet(CoroDue)
        /\ m \in 0 .. CoroMaxVtime /\ Ordered(r, coroVtime, m)
    BY <1>1, WakeupIs
  <2> HIDE DEF r, m
  <2>3. /\ NotDue \in Seq(Works) /\ IsInjective(NotDue)
        /\ ToSet(blocked) = ToSet(CoroDue) \cup ToSet(NotDue)
        /\ ToSet(CoroDue) \cap ToSet(NotDue) = {}
    BY <1>1, DueIs
  <2>4. /\ coroState' \in [Works -> {"none", "READY", "BLOCK", "EXITED"}]
        /\ \A x \in Works : coroState'[x] = IF x \in ToSet(CoroDue) THEN "READY"
                                            ELSE coroState[x]
    BY <2>1, WakeupStates
  <2>5. CoroTypeOK'
    BY <1>1, <2>1, <2>2, <2>3, <2>4 DEF CoroTypeOK
  <2>6. Placed(ToSet(r), ToSet(NotDue), unstarted, coroState', cpu', back')
    BY <1>1, <2>1, <2>2, <2>3, <2>4, CoroNumbers DEF Placed
  <2> QED BY <1>1, <2>1, <2>2, <2>3, <2>5, <2>6, CoroNumbers DEF CoroInv, Least
<1>9. CASE CoroClock
  <2>1. /\ coroTick < CoroMaxTick /\ coroTick' = coroTick + 1
        /\ UNCHANGED <<coroState, coroVtime, coroTimeout, unstarted, ready, blocked,
                       mvtime, curr, cpu, back>>
    BY <1>9 DEF CoroClock
  <2>2. CoroTypeOK'
    BY <1>1, <2>1, CoroNumbers DEF CoroTypeOK
  <2> QED BY <1>1, <2>1, <2>2 DEF CoroInv, Least
<1> QED BY <1>2, <1>3, <1>4, <1>5, <1>6, <1>7, <1>8, <1>9 DEF LoopPick

LEMMA CoroSteps == CoroInv /\ [CoroNext]_coroVars => CoroInv' /\ (CoroNext => Least)
<1> SUFFICES ASSUME CoroInv, [CoroNext]_coroVars PROVE CoroInv' /\ (CoroNext => Least)
  OBVIOUS
<1>1. ASSUME NEW w \in Works, WorkCreate(w) \/ Activate(w) PROVE CoroInv' /\ Least
  BY <1>1, CreateKeeps, ActivateKeeps
<1>2. ASSUME NEW w \in Works, NEW d \in CoroSlices, Yield(w, d) PROVE CoroInv' /\ Least
  BY <1>2, YieldKeeps
<1>3. ASSUME NEW w \in Works, NEW d \in CoroSlices,
             TSleep(w, d, CoroForever) \/ \E n \in CoroNaps : TSleep(w, d, coroTick + n)
      PROVE  CoroInv' /\ Least
  <2>1. \A n \in CoroNaps : coroTick + n \in 0 .. CoroForever
    BY CoroAssumption DEF CoroInv, CoroTypeOK
  <2>2. CoroForever \in 0 .. CoroForever
    BY CoroAssumption
  <2> QED BY <1>3, <2>1, <2>2, TSleepKeeps
<1>4. ASSUME NEW w \in Works, EndWork(w, "EXITED") \/ EndWork(w, "READY")
      PROVE  CoroInv' /\ Least
  BY <1>4, EndKeeps
<1>5. CASE Schedule \/ LoopPick \/ LoopDestroy \/ LoopSleep \/ LoopWakeup \/ CoroClock
  BY <1>5, LoopKeeps
<1>6. CASE UNCHANGED coroVars
  <2>1. CoroInv'
    BY <1>6 DEF coroVars, CoroInv, CoroTypeOK
  <2>2. Least
    BY <1>6 DEF coroVars, Least
  <2> QED BY <2>1, <2>2
<1> QED BY <1>1, <1>2, <1>3, <1>4, <1>5, <1>6 DEF CoroNext

LEMMA CoroAlways == CoroSpec => []CoroInv
BY CoroStarts, CoroSteps, PTL DEF CoroSpec

\* Every variable of the coroutines keeps its type.
THEOREM CoroTypesHold == CoroSpec => []CoroTypeOK
<1>1. CoroInv => CoroTypeOK
  BY DEF CoroInv
<1> QED BY <1>1, CoroAlways, PTL

\* kcoro.c:73-141 and 202-330: an activated work is in ready, in blocked, on the CPU
\* or with kcoro_schedule, as its state says, whatever is created, sleeps, wakes, ends
\* and is destroyed.
THEOREM WorksStayOnce == CoroSpec => []WorkOnce
<1>1. CoroInv => WorkOnce
  <2> SUFFICES ASSUME CoroInv PROVE WorkOnce
    OBVIOUS
  <2> DEFINE started == {w \in Works \ unstarted : coroState[w] # "none"}
             onCpu   == {cpu} \cap Works
             leaving == IF cpu = "back" /\ back \notin ToSet(blocked) THEN {back} ELSE {}
             places  == <<ToSet(ready), ToSet(blocked), onCpu, leaving>>
  <2>1. /\ IsInjective(ready) /\ IsInjective(blocked)
        /\ Placed(ToSet(ready), ToSet(blocked), unstarted, coroState, cpu, back)
        /\ ToSet(ready) \subseteq Works /\ ToSet(blocked) \subseteq Works
        /\ curr = (IF cpu \in Works THEN cpu ELSE NoWork) /\ (cpu = "back" => back \in Works)
    BY ListElems DEF CoroInv, CoroTypeOK
  <2>2. onCpu = {curr} \ {NoWork}
    BY <2>1, CoroNumbers
  <2>3. started = ToSet(ready) \cup ToSet(blocked) \cup onCpu \cup leaving
    BY <2>1, CoroNumbers DEF Placed
  <2>4. /\ ToSet(ready) \cap ToSet(blocked) = {} /\ ToSet(ready) \cap onCpu = {}
        /\ ToSet(ready) \cap leaving = {} /\ ToSet(blocked) \cap onCpu = {}
        /\ ToSet(blocked) \cap leaving = {} /\ onCpu \cap leaving = {}
    BY <2>1, CoroNumbers DEF Placed
  <2>5. \A w \in started : coroState[w] = "BLOCK" <=> w \in ToSet(blocked)
    BY <2>1 DEF Placed
  <2>6. DOMAIN places = 1 .. 4 /\ ToSet(places) = {ToSet(ready), ToSet(blocked), onCpu, leaving}
    <3> HIDE DEF onCpu, leaving
    <3>1. DOMAIN places = 1 .. 4 /\ 1 .. 4 = {1, 2, 3, 4}
      OBVIOUS
    <3> QED BY <3>1 DEF ToSet
  <2>7. \A i, j \in DOMAIN places : i # j => places[i] \cap places[j] = {}
    <3> HIDE DEF onCpu, leaving
    <3>1. 1 .. 4 = {1, 2, 3, 4}
      OBVIOUS
    <3> QED BY <2>4, <2>6, <3>1
  <2>8. started = UNION ToSet(places)
    <3> HIDE DEF started, onCpu, leaving, places
    <3> QED BY <2>3, <2>6
  <2> HIDE DEF started, onCpu, leaving, places
  <2>9. /\ IsInjective(ready) /\ IsInjective(blocked)
        /\ started = UNION ToSet(places)
        /\ \A i, j \in DOMAIN places : i # j => places[i] \cap places[j] = {}
        /\ \A w \in started : coroState[w] = "BLOCK" <=> w \in ToSet(blocked)
        /\ onCpu = {curr} \ {NoWork}
    BY <2>1, <2>2, <2>5, <2>7, <2>8
  <2> QED BY <2>9 DEF WorkOnce, started, onCpu, leaving, places
<1> QED BY <1>1, CoroAlways, PTL

\* kcoro.c:94-141: the cached mvtime never lets a work keep the CPU while one that is
\* ready has less virtual time.
THEOREM LeastAlwaysFirst == CoroSpec => LeastGoesFirst
<1>1. CoroInv /\ [CoroNext]_coroVars =>
        [/\ cpu' \in Works
         /\ cpu' # cpu \/ coroVtime'[cpu'] # coroVtime[cpu']
         => \A w \in ToSet(ready') : coroVtime'[cpu'] <= coroVtime'[w]]_coroVars
  BY CoroSteps DEF Least
<1> QED BY <1>1, CoroAlways, PTL DEF CoroSpec, LeastGoesFirst

-----------------------------------------------------------------------------
(* The instances side by side *)

\* Of every instance the behaviours are those of its own module, whichever
\* moves, so all that is proved of a module holds of its instance.
LEMMA SideBySide ==
  LibSpec => Spec /\ FifoSpec /\ MutexSpec /\ IdrSpec /\ BuddySpec /\ PoolSpec /\ CoroSpec
<1>1. LibInit => Init /\ FifoInit /\ MutexInit /\ IdrInit /\ BuddyInit /\ PoolInit /\ CoroInit
  BY DEF LibInit
<1>2. [LibNext]_libVars =>
        /\ [Next]_vars /\ [FifoNext]_fifoVars /\ [MutexNext]_mutexVars /\ [IdrNext]_idrVars
        /\ [BuddyNext]_buddyVars /\ [PoolNext]_poolVars /\ [CoroNext]_coroVars
  BY DEF LibNext, libVars, wheelVars
<1> QED
  BY <1>1, <1>2, PTL
     DEF LibSpec, Spec, FifoSpec, MutexSpec, IdrSpec, BuddySpec, PoolSpec, CoroSpec

\* The variables of every instance keep their types.
THEOREM LibTypesHold == LibSpec => []LibTypeOK
<1>1. /\ FifoInv => FifoTypeOK
      /\ MutexInv => MutexTypeOK
      /\ IdrInv => IdrTypeOK
      /\ PoolInv => PoolTypeOK
  BY DEF FifoInv, MutexInv, IdrInv, PoolInv
<1>2. IdrSpec => []IdrInv
  BY IdrInvInit, IdrInvStep, PTL DEF IdrSpec
<1> QED
  BY <1>1, <1>2, SideBySide, WheelTypesHold, FifoInvariant, MutexInvAlways, BuddyTypesHold,
     PoolInvariant, CoroTypesHold, PTL
  DEF LibTypeOK

=============================================================================
