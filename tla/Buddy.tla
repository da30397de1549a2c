-------------------------------- MODULE Buddy --------------------------------
(***************************************************************************)
(* mm/page.c on one region.  The region's lock covers buddy_smallest and   *)
(* buddy_merge; page_alloc marks the page PAGE_USED only after it, and     *)
(* after the clearing of GFP_ZERO, so another allocation or release may    *)
(* come before the mark.                                                   *)
(***************************************************************************)
EXTENDS Integers, SequencesExt

CONSTANTS
  PageNr,  \* pages of the region, from page number 0
  OrderMax \* PAGE_ORDER_MAX

ASSUME BuddyAssumption == PageNr \in Nat \ {0} /\ OrderMax \in Nat

Pages  == 0 .. PageNr - 1
Orders == 0 .. OrderMax

VARIABLES
  pageType,  \* page->type of each page
  pageOrder, \* page->order
  freeList,  \* region->page_free[order].list, first page first
  handed,    \* first pages of the blocks the callers hold
  unmarked,  \* those of them page_alloc has not marked and returned
  added,     \* how many pages region_init has added
  raced,     \* history: a block was released while another was unmarked
  badDel     \* history: list_del of an entry that is on no list

buddyVars == <<pageType, pageOrder, freeList, handed, unmarked, added, raced, badDel>>

BuddyTypeOK ==
  /\ pageType  \in [Pages -> {"uninit", "free", "used"}]
  /\ pageOrder \in [Pages -> Orders]
  /\ freeList  \in [Orders -> Seq(Pages)]
  /\ handed \subseteq Pages /\ unmarked \subseteq handed
  /\ added \in 0 .. PageNr
  /\ raced \in BOOLEAN /\ badDel \in BOOLEAN

\* page_map is in the BSS: PAGE_UNINIT and order 0 everywhere.
BuddyInit ==
  /\ pageType  = [p \in Pages |-> "uninit"]
  /\ pageOrder = [p \in Pages |-> 0]
  /\ freeList  = [o \in Orders |-> <<>>]
  /\ handed = {} /\ unmarked = {} /\ added = 0
  /\ raced = FALSE /\ badDel = FALSE

-----------------------------------------------------------------------------

\* The block of order o a page lies in, and the other half of the next one up.
Start(p, o) == (p \div 2^o) * 2^o
find_buddy(p, o) == IF (p \div 2^o) % 2 = 0 THEN p + 2^o ELSE p - 2^o

\* Mutant: the order of the buddy is not compared.
check_buddy_any(b, o) == b \in Pages /\ pageType[b] = "free"
check_buddy(b, o) == b \in Pages /\ pageType[b] = "free" /\ pageOrder[b] = o

\* buddy_smallest and buddy_division: the first page of the smallest order
\* that has one; at every order passed the upper half goes back.
buddy_smallest(order, nd) ==
  /\ nd >= order /\ freeList[nd] # <<>>
  /\ \A o \in order .. nd - 1 : freeList[o] = <<>>
  /\ LET p == Head(freeList[nd])
     IN /\ freeList' = [o \in Orders |->
                          IF o = nd THEN Tail(freeList[o])
                          ELSE IF o \in order .. nd - 1 THEN Append(freeList[o], p + 2^o)
                          ELSE freeList[o]]
        /\ pageOrder' = [q \in Pages |->
                           IF q = p THEN order
                           ELSE IF \E o \in order .. nd - 1 : q = p + 2^o
                           THEN CHOOSE o \in order .. nd - 1 : q = p + 2^o
                           ELSE pageOrder[q]]
        /\ handed' = handed \cup {p} /\ unmarked' = unmarked \cup {p}

\* The order buddy_merge ends at, from a block of order o.  Mutant: one merge
\* and no more.
MergeEnds_once(p, o, m) ==
  /\ m \in o .. OrderMax
  /\ m = IF o < OrderMax /\ check_buddy(find_buddy(p, o), o) THEN o + 1 ELSE o
MergeEnds(p, o, m) ==
  /\ m \in o .. OrderMax
  /\ m = OrderMax \/ ~check_buddy(find_buddy(Start(p, m), m), m)
  /\ \A k \in o .. m - 1 : check_buddy(find_buddy(Start(p, k), k), k)

\* buddy_merge: the buddies leave their lists and the block made of them joins
\* one, its first page alone being marked.
buddy_merge(p, o) ==
  \E m \in Orders :
    /\ MergeEnds(p, o, m)
    /\ LET gone(k) == find_buddy(Start(p, k), k)
           head    == Start(p, m)
           left    == [k \in Orders |-> IF k \in o .. m - 1
                                        THEN RemoveFirst(freeList[k], gone(k))
                                        ELSE freeList[k]]
       IN /\ badDel' = (badDel \/ \E k \in o .. m - 1 : ~Contains(freeList[k], gone(k)))
          /\ freeList'  = [left EXCEPT ![m] = Append(@, head)]
          /\ pageType'  = [pageType EXCEPT ![head] = "free"]
          /\ pageOrder' = [pageOrder EXCEPT ![head] = m]

-----------------------------------------------------------------------------

\* region_block_add: page after page at boot.
page_add ==
  /\ added < PageNr
  /\ buddy_merge(added, 0)
  /\ added' = added + 1
  /\ UNCHANGED <<handed, unmarked, raced>>

\* page_alloc: the part under the lock, and the mark.
page_alloc(order) ==
  /\ added = PageNr
  /\ \E nd \in Orders : buddy_smallest(order, nd)
  /\ UNCHANGED <<pageType, added, raced, badDel>>

page_mark(p) ==
  /\ p \in unmarked
  /\ pageType' = [pageType EXCEPT ![p] = "used"]
  /\ unmarked' = unmarked \ {p}
  /\ UNCHANGED <<pageOrder, freeList, handed, added, raced, badDel>>

page_free(p) ==
  /\ p \in handed \ unmarked
  /\ buddy_merge(p, pageOrder[p])
  /\ handed' = handed \ {p}
  /\ raced' = (raced \/ unmarked # {})
  /\ UNCHANGED <<unmarked, added>>

\* The model stops at the first list_del that finds no entry: the lists are
\* broken behind it.
BuddyNext ==
  /\ ~badDel
  /\ \/ page_add
     \/ \E order \in Orders : page_alloc(order)
     \/ \E p \in Pages : page_mark(p) \/ page_free(p)

BuddySpec == BuddyInit /\ [][BuddyNext]_buddyVars

-----------------------------------------------------------------------------
(* Properties *)

Block(p, o)  == p .. p + 2^o - 1
FreeBlocks   == {b \in Pages \X Orders : Contains(freeList[b[2]], b[1])}
HandedBlocks == {<<p, pageOrder[p]>> : p \in handed}

\* As long as no block is released while another is still unmarked, every page
\* added is in exactly one block, free or handed out, whatever the splits and
\* merges and the stale marks they leave inside the blocks.
EachPageOnce ==
  ~raced => \A p \in 0 .. added - 1 :
              Cardinality({b \in FreeBlocks \cup HandedBlocks : p \in Block(b[1], b[2])}) = 1

\* A free block never stands beside a free buddy that is marked as such: what
\* is left unmerged is left by a mark that a split did not renew.
MarkedPairsMerge ==
  ~raced => \A b \in FreeBlocks :
     b[2] < OrderMax /\ pageType[b[1]] = "free"
       => LET y == find_buddy(b[1], b[2])
          IN ~(<<y, b[2]>> \in FreeBlocks /\ check_buddy(y, b[2]))

\* list_del corruption (lib/list-debug.c:36): a page taken off a free list is
\* on it.
BuddyOnItsList == ~badDel

=============================================================================
