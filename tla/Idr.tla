--------------------------------- MODULE Idr ---------------------------------
(***************************************************************************)
(* lib/idr.c: identifiers kept in a list and in a red-black tree.  The     *)
(* lock covers one allocation or one release; a cyclic allocation reads    *)
(* id_next before it and writes it after it, outside the lock, so another  *)
(* caller may come between (softirq_register).  The base is 0, as          *)
(* everywhere in the sources.                                              *)
(***************************************************************************)
EXTENDS Integers, SequencesExt

CONSTANTS
  IdrCallers, \* tasks that allocate
  IdrRanges,  \* the <<min, max>> they ask for
  IdrTop      \* bound on the identifiers, in place of ULONG_MAX

IDR_NONE == 0

ASSUME IdrAssumption ==
  /\ IdrTop \in Nat
  /\ IdrRanges # {}
  /\ \A r \in IdrRanges : r \in (0 .. IdrTop) \X (0 .. IdrTop) /\ r[1] <= r[2]

VARIABLES
  idrList, \* idr->list, as the sequence of the indices of its nodes
  id_next, \* idr->id_next
  idrCall, \* each caller: the stage of its call, what it asks and what it got
  idrGap   \* history: an allocation has stopped at a gap in the list

idrVars == <<idrList, id_next, idrCall, idrGap>>

\* The nodes of the tree: those of the list.
idrTree == {idrList[i] : i \in DOMAIN idrList}

IdrStages == {"idle", "first", "second", "end"}

IdrTypeOK ==
  /\ idrList \in Seq(1 .. IdrTop)
  /\ id_next \in 0 .. IdrTop + 1
  /\ idrCall \in [IdrCallers -> [stage : IdrStages, next : 0 .. IdrTop,
                                 range : IdrRanges, id : 0 .. IdrTop]]
  /\ idrGap \in BOOLEAN

\* idr_create takes the root from a cache that does not zero it, and
\* idr_root_init does not write id_next.
IdrInit ==
  /\ idrList = <<>>
  /\ id_next \in 0 .. IdrTop + 1
  /\ idrCall \in [IdrCallers -> [stage : {"idle"}, next : {0},
                                 range : {CHOOSE r \in IdrRanges : TRUE}, id : {IDR_NONE}]]
  /\ idrGap = FALSE

-----------------------------------------------------------------------------
(* idr_get_free_range *)

\* Where a new leaf x goes in the list: behind the parent it hangs on the
\* right of, its predecessor, or before the one it hangs on the left of, its
\* successor; which of the two is the parent is the shape of the tree.
Beside(x) ==
  {p \in 1 .. Len(idrList) + 1 :
     \/ idrList = <<>>
     \/ p > 1 /\ idrList[p - 1] < x
        /\ \A y \in idrTree : y < x => y <= idrList[p - 1]
     \/ p <= Len(idrList) /\ idrList[p] > x
        /\ \A y \in idrTree : y > x => y >= idrList[p]}

\* The walk from min, at place k of the list, stops at the first number that
\* the next node of the list does not hold; the new node goes behind that
\* next node, or at the end when there is none.
WalkEnds(k, min, max) ==
  {w \in min + 1 .. max - 1 :
     LET at(v) == k + v - min
     IN /\ at(w) > Len(idrList) \/ idrList[at(w)] # w
        /\ \A v \in min + 1 .. w - 1 : at(v) <= Len(idrList) /\ idrList[at(v)] = v}

\* Mutant: without the comparison of the next index, every walk reaches the
\* end of the list.
Found_unchecked(min, max) ==
  LET k == CHOOSE i \in DOMAIN idrList : idrList[i] = min
  IN {[id |-> w, place |-> Len(idrList) + 1, gap |-> FALSE] :
        w \in {min + Len(idrList) - k + 1} \cap (min + 1 .. max - 1)}

\* An allocation that finds min used.
Found(min, max) ==
  LET k == CHOOSE i \in DOMAIN idrList : idrList[i] = min
  IN {[id |-> w, gap |-> k + w - min <= Len(idrList),
       place |-> IF k + w - min > Len(idrList) THEN Len(idrList) + 1 ELSE k + w - min + 1] :
        w \in WalkEnds(k, min, max)}

\* Every outcome of the search, none when the range is used up.
idr_get_free_range(min0, max) ==
  LET min == IF min0 = 0 THEN 1 ELSE min0
  IN IF min \in idrTree
     THEN Found(min, max)
     ELSE {[id |-> min, place |-> p, gap |-> FALSE] : p \in Beside(min)}

\* idr_node_alloc_range, under the lock: id is IDR_NONE when it fails.
idr_node_alloc_range(min, max, id) ==
  LET free == idr_get_free_range(min, max)
  IN \/ /\ free = {} /\ id = IDR_NONE
        /\ UNCHANGED <<idrList, idrGap>>
     \/ \E f \in free :
          /\ id = f.id
          /\ idrList' = InsertAt(idrList, f.place, f.id)
          /\ idrGap' = (idrGap \/ f.gap)

-----------------------------------------------------------------------------
(* Calls *)

Clamp(x, lo, hi) == IF x < lo THEN lo ELSE IF x > hi THEN hi ELSE x

\* Moves a caller on; \E id binds what its allocation gives.
Stage(c, stage, id) == idrCall' = [idrCall EXCEPT ![c].stage = stage, ![c].id = id]

\* idr_node_alloc_range of a caller on its own.
Alloc(c, r) ==
  /\ idrCall[c].stage = "idle"
  /\ \E id \in 0 .. IdrTop :
       /\ idr_node_alloc_range(r[1], r[2], id)
       /\ idrCall' = [idrCall EXCEPT ![c].range = r, ![c].id = id]
  /\ UNCHANGED id_next

\* idr_node_alloc_cyclic_range reads id_next.
Cyclic(c, r) ==
  /\ idrCall[c].stage = "idle"
  /\ idrCall' = [idrCall EXCEPT ![c] = [stage |-> "first", range |-> r, id |-> IDR_NONE,
                                        next |-> Clamp(id_next, r[1], r[2])]]
  /\ UNCHANGED <<idrList, id_next, idrGap>>

\* It tries from there, then, when that failed, from the minimum.  Mutant: no
\* second attempt.
CyclicTry_once(c) ==
  /\ idrCall[c].stage = "first"
  /\ \E id \in 0 .. IdrTop :
       /\ idr_node_alloc_range(idrCall[c].next, idrCall[c].range[2], id)
       /\ Stage(c, IF id = IDR_NONE THEN "idle" ELSE "end", id)
  /\ UNCHANGED id_next
CyclicTry(c) ==
  \/ /\ idrCall[c].stage = "first"
     /\ \E id \in 0 .. IdrTop :
          /\ idr_node_alloc_range(idrCall[c].next, idrCall[c].range[2], id)
          /\ Stage(c, IF id = IDR_NONE THEN "second" ELSE "end", id)
     /\ UNCHANGED id_next
  \/ /\ idrCall[c].stage = "second"
     /\ \E id \in 0 .. IdrTop :
          /\ idr_node_alloc_range(idrCall[c].range[1], idrCall[c].range[2], id)
          /\ Stage(c, IF id = IDR_NONE THEN "idle" ELSE "end", id)
     /\ UNCHANGED id_next

\* It writes id_next and returns.
CyclicEnd(c) ==
  /\ idrCall[c].stage = "end"
  /\ id_next' = idrCall[c].id + 1
  /\ idrCall' = [idrCall EXCEPT ![c].stage = "idle"]
  /\ UNCHANGED <<idrList, idrGap>>

\* idr_node_free of the identifier at place k of the list.
idr_node_free(k) ==
  /\ k \in DOMAIN idrList
  /\ idrList' = RemoveAt(idrList, k)
  /\ UNCHANGED <<id_next, idrCall, idrGap>>

\* idr_release, and idr_root_init of a static root after it.
idr_release ==
  /\ \A c \in IdrCallers : idrCall[c].stage = "idle"
  /\ idrList # <<>>
  /\ idrList' = <<>> /\ idrGap' = FALSE
  /\ UNCHANGED <<id_next, idrCall>>

\* No identifier is in use twice.
IdrUnique == Cardinality(idrTree) = Len(idrList)

\* The model goes no further than the first duplicate: what tree and list then
\* hold differs.
IdrNext ==
  /\ IdrUnique
  /\ \/ \E c \in IdrCallers, r \in IdrRanges : Alloc(c, r) \/ Cyclic(c, r)
     \/ \E c \in IdrCallers : CyclicTry(c) \/ CyclicEnd(c)
     \/ \E k \in DOMAIN idrList : idr_node_free(k)
     \/ idr_release

IdrSpec == IdrInit /\ [][IdrNext]_idrVars

-----------------------------------------------------------------------------
(* Properties *)

Ascending(s) == \A i, j \in DOMAIN s : i < j => s[i] < s[j]

\* As long as no allocation has had to fill a gap behind a used minimum, the
\* list stays in ascending order under any interleaving of cyclic and plain
\* calls and of releases, and so no identifier is handed out twice.
IdrSorted == ~idrGap => Ascending(idrList)

\* A call fails only when every identifier from its minimum to the one before
\* its maximum is in use, wherever id_next pointed: the second attempt covers
\* what the first one skipped.
IdrFailsOnlyWhenFull ==
  [][\A c \in IdrCallers :
       LET call == idrCall'[c]
       IN (idrCall[c] # call /\ call.stage = "idle" /\ call.id = IDR_NONE)
          => \A id \in call.range[1] .. call.range[2] - 1 : id = IDR_NONE \/ id \in idrTree]_idrVars

=============================================================================
