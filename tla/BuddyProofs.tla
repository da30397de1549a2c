----------------------------- MODULE BuddyProofs -----------------------------
(***************************************************************************)
(* Proofs about Buddy for every number of pages and of orders.  As long as *)
(* every list_del finds its entry, the free and the held blocks divide the *)
(* pages; and the marks that dividing leaves behind stay inside blocks, so *)
(* that without a release before a mark every list_del finds it.           *)
(***************************************************************************)
EXTENDS Buddy, ListFacts
-----------------------------------------------------------------------------
(* The inductive invariant *)

\* Page p is the first of a block of order o that is free, that a caller holds, or
\* either.
PageFree(p, o) == p \in ToSet(freeList[o])
PageHeld(p, o) == p \in handed /\ pageOrder[p] = o
IsBlock(p, o)  == PageFree(p, o) \/ PageHeld(p, o)

\* Each list has an entry once.
ListsOnce == \A o \in Orders : IsInjective(freeList[o])

\* A block of order o begins at a multiple of 2^o and ends within what was added.
BlocksAligned ==
  \A p \in Pages, o \in Orders : IsBlock(p, o) => p % 2^o = 0 /\ p + 2^o <= added

\* Two blocks that share a page are the same block, either free or held.
BlocksApart ==
  /\ \A p, q \in Pages, o, n \in Orders :
       IsBlock(p, o) /\ IsBlock(q, n) /\ Block(p, o) \cap Block(q, n) # {} => p = q /\ o = n
  /\ \A p \in Pages, o \in Orders : ~(PageFree(p, o) /\ PageHeld(p, o))

BlocksCover ==
  \A x \in 0 .. added - 1 : \E p \in Pages, o \in Orders : IsBlock(p, o) /\ x \in Block(p, o)

\* page->order is right for the first page of a block, and never more than the
\* page's number allows.
OrdersRight ==
  /\ \A p \in Pages, o \in Orders : PageFree(p, o) => pageOrder[p] = o
  /\ \A p \in Pages : p % 2^pageOrder[p] = 0

\* No two free buddies are both marked.
PairsMerged ==
  \A p, q \in Pages, o \in Orders :
    o < OrderMax /\ PageFree(p, o) /\ PageFree(q, o) /\ q = find_buddy(p, o)
      => ~(pageType[p] = "free" /\ pageType[q] = "free")

BuddyWhole ==
  /\ ListsOnce /\ BlocksAligned /\ BlocksApart /\ BlocksCover /\ OrdersRight /\ PairsMerged
  /\ added < PageNr => handed = {}

\* A page marked free is the first of a free block, or of one not marked yet, or the
\* mark is stale and inside a block.
MarksInside ==
  \A q \in Pages : pageType[q] = "free" =>
    \/ PageFree(q, pageOrder[q])
    \/ q \in unmarked
    \/ \E p \in Pages, o \in Orders : IsBlock(p, o) /\ q \in Block(p, o) /\ q # p

BuddyInv ==
  /\ BuddyTypeOK
  /\ ~badDel => BuddyWhole
  /\ ~raced => ~badDel /\ MarksInside

-----------------------------------------------------------------------------
(* Blocks and their halves *)

\* Powers of two, one after the other.
LEMMA PowerStep ==
  ASSUME NEW k \in Nat
  PROVE  2^k \in Nat \ {0} /\ 2^(k + 1) = 2^k + 2^k
  <1>1. 2^k \in Nat \ {0} /\ 2^1 \in Nat
    BY PowerOfTwo
  <1>2. 2^1 = 2
    <2>1. 2^1 = Cardinality(SUBSET (1 .. 1))
      BY PowerOfTwo
    <2>2. SUBSET (1 .. 1) = {{}, {1}} /\ {} # {1}
      <3>1. 1 .. 1 = {1}
        OBVIOUS
      <3> QED BY <3>1
    <2>3. Cardinality({{}, {1}}) = 2
      <3>1. {{}, {1}} = {{}} \cup {{1}} /\ {1} \notin {{}}
        BY <2>2
      <3>2. IsFiniteSet({{}}) /\ Cardinality({{}}) = 1
        BY FS_Singleton
      <3> DEFINE S == {{}}
                 e == {1}
      <3>3. IsFiniteSet(S) /\ Cardinality(S) = 1 /\ e \notin S
        BY <3>1, <3>2
      <3> HIDE DEF S, e
      <3>4. Cardinality(S \cup {e}) = 2
        BY <3>3, FS_AddElement
      <3> QED BY <3>1, <3>4 DEF S, e
    <2> QED BY <2>1, <2>2, <2>3
  <1>3. 2^(k + 1) = 2^k * 2^1
    BY PowerSum
  <1> QED BY <1>1, <1>2, <1>3

LEMMA PowerDivides ==
  ASSUME NEW j \in Nat, NEW k \in Nat, j <= k
  PROVE  \E c \in Nat \ {0} : 2^k = c * 2^j
  <1>1. k - j \in Nat /\ k = (k - j) + j
    OBVIOUS
  <1>2. 2^k = 2^(k - j) * 2^j
    BY <1>1, PowerSum
  <1> QED BY <1>1, <1>2, PowerOfTwo

LEMMA PowerMonotone ==
  ASSUME NEW j \in Nat, NEW k \in Nat, j < k
  PROVE  2^j + 2^j <= 2^k
  <1>1. PICK c \in Nat \ {0} : 2^k = c * 2^(j + 1)
    <2>1. j + 1 \in Nat /\ j + 1 <= k
      OBVIOUS
    <2> QED BY <2>1, PowerDivides
  <1>2. 2^(j + 1) = 2^j + 2^j /\ 2^j \in Nat
    BY PowerStep
  <1> DEFINE a == 2^(j + 1)
             b == 2^k
  <1>3. a \in Nat /\ b = c * a
    BY <1>1, <1>2
  <1> HIDE DEF a, b
  <1>4. b >= a
    BY <1>3
  <1> QED BY <1>2, <1>4 DEF a, b

\* Being a multiple of 2^k, spelled out.
LEMMA Multiple ==
  ASSUME NEW x \in Nat, NEW k \in Nat
  PROVE  x % 2^k = 0 <=> \E n \in Nat : x = n * 2^k
  <1> DEFINE g == 2^k
  <1>1. g \in Nat \ {0}
    BY PowerOfTwo
  <1> HIDE DEF g
  <1>2. ASSUME x % g = 0 PROVE \E n \in Nat : x = n * g
    <2>1. x \div g \in Nat /\ x = g * (x \div g) + (x % g)
      BY <1>1, DivMod
    <2> DEFINE n == x \div g
    <2>2. n \in Nat /\ x = g * n
      BY <2>1, <1>2, <1>1
    <2> HIDE DEF n
    <2>3. x = n * g
      BY <1>1, <2>2
    <2> QED BY <2>2, <2>3
  <1>3. ASSUME NEW n \in Nat, x = n * g PROVE x % g = 0
    <2>1. x = g * n + 0 /\ n \in Int /\ 0 \in 0 .. g - 1
      BY <1>1, <1>3
    <2> QED BY <1>1, <2>1, DivUnique
  <1> QED BY <1>2, <1>3 DEF g

\* A multiple of 2^k is one of every smaller power.
LEMMA MultipleDown ==
  ASSUME NEW x \in Nat, NEW j \in Nat, NEW k \in Nat, j <= k, x % 2^k = 0
  PROVE  x % 2^j = 0
  <1>1. PICK n \in Nat : x = n * 2^k
    BY Multiple
  <1>2. PICK c \in Nat \ {0} : 2^k = c * 2^j
    BY PowerDivides
  <1>3. 2^j \in Nat
    BY PowerOfTwo
  <1>4. x = (n * c) * 2^j /\ n * c \in Nat
    BY <1>1, <1>2, <1>3
  <1> QED BY <1>4, Multiple

\* Two multiples of g that are less than g apart are the same.
LEMMA MultiplesApart ==
  ASSUME NEW a \in Nat, NEW b \in Nat, NEW g \in Nat \ {0}, a * g < b * g + g, b * g < a * g + g
  PROVE  a = b
  <1>1. CASE a > b
    <2>1. a * g >= (b + 1) * g /\ (b + 1) * g = b * g + g
      BY <1>1
    <2>2. a * g \in Nat /\ b * g \in Nat
      OBVIOUS
    <2> QED BY <2>1, <2>2
  <1>2. CASE a < b
    <2>1. b * g >= (a + 1) * g /\ (a + 1) * g = a * g + g
      BY <1>2
    <2>2. a * g \in Nat /\ b * g \in Nat
      OBVIOUS
    <2> QED BY <2>1, <2>2
  <1> QED BY <1>1, <1>2

\* The block of order k a page lies in, and no other.
LEMMA StartIs ==
  ASSUME NEW x \in Nat, NEW k \in Nat
  PROVE  /\ Start(x, k) \in Nat /\ Start(x, k) % 2^k = 0
         /\ x \in Block(Start(x, k), k)
         /\ \A s \in Nat : s % 2^k = 0 /\ x \in Block(s, k) => s = Start(x, k)
  <1> DEFINE g == 2^k
             n == x \div g
             r == x % g
  <1>1. g \in Nat \ {0}
    BY PowerOfTwo
  <1>2. Start(x, k) = n * g
    BY DEF Start
  <1> HIDE DEF g
  <1>3. n \in Nat /\ r \in 0 .. g - 1 /\ x = g * n + r
    BY <1>1
  <1> HIDE DEF n, r
  <1>4. n * g \in Nat /\ n * g <= x /\ x < n * g + g
    BY <1>1, <1>3
  <1>5. (n * g) % 2^k = 0
    BY <1>3, <1>4, Multiple DEF g
  <1>6. x \in Block(n * g, k)
    BY <1>1, <1>4 DEF Block, g
  <1>7. ASSUME NEW s \in Nat, s % 2^k = 0, x \in Block(s, k)
        PROVE  s = n * g
    <2>1. PICK i \in Nat : s = i * g
      BY <1>7, Multiple DEF g
    <2>2. s <= x /\ x < s + g
      BY <1>1, <1>7 DEF Block, g
    <2>3. i * g < n * g + g /\ n * g < i * g + g
      BY <1>1, <1>3, <1>4, <2>1, <2>2
    <2>4. i = n
      BY <1>1, <1>3, <2>3, MultiplesApart
    <2> QED BY <2>1, <2>4
  <1> QED BY <1>2, <1>4, <1>5, <1>6, <1>7

\* The buddy of an aligned block is the other half of the block around both.
LEMMA BuddyIsOther ==
  ASSUME NEW s \in Nat, NEW k \in Nat, s % 2^k = 0
  PROVE  \E w \in Nat :
           /\ w % 2^(k + 1) = 0
           /\ \/ s = w /\ find_buddy(s, k) = w + 2^k
              \/ s = w + 2^k /\ find_buddy(s, k) = w
  <1> DEFINE g == 2^k
  <1>1. g \in Nat \ {0} /\ 2^(k + 1) = g + g /\ k + 1 \in Nat
    BY PowerStep
  <1>2. PICK n \in Nat : s = n * g
    BY Multiple
  <1>3. s \div g = n
    <2> HIDE DEF g
    <2>1. s = g * n + 0 /\ 0 \in 0 .. g - 1
      BY <1>1, <1>2
    <2> QED BY <1>1, <2>1, DivUnique
  <1>4. find_buddy(s, k) = IF n % 2 = 0 THEN s + g ELSE s - g
    BY <1>3 DEF find_buddy
  <1> DEFINE h == n \div 2
  <1>5. h \in Nat /\ ((n = h + h /\ n % 2 = 0) \/ (n = h + h + 1 /\ n % 2 # 0))
    OBVIOUS
  <1> HIDE DEF g, h
  <1> DEFINE w == h * (g + g)
  <1>6. w \in Nat
    BY <1>1, <1>5
  <1>7. w % 2^(k + 1) = 0
    <2>1. w = h * 2^(k + 1)
      BY <1>1
    <2> HIDE DEF w
    <2> QED BY <1>1, <1>5, <1>6, <2>1, Multiple
  <1>8. CASE n = h + h /\ n % 2 = 0
    <2>1. s = w /\ find_buddy(s, k) = w + g
      BY <1>1, <1>2, <1>4, <1>5, <1>8
    <2> HIDE DEF w
    <2> QED BY <1>6, <1>7, <2>1 DEF g
  <1>9. CASE n = h + h + 1 /\ n % 2 # 0
    <2>1. s = w + g /\ find_buddy(s, k) = s - g
      BY <1>1, <1>2, <1>4, <1>5, <1>9
    <2> HIDE DEF w
    <2>2. find_buddy(s, k) = w
      BY <1>1, <1>6, <2>1
    <2> QED BY <1>6, <1>7, <2>1, <2>2 DEF g
  <1> QED BY <1>5, <1>8, <1>9

\* The block around a page's block of order k is that of order k + 1: one half is
\* the page's, the other the buddy.
LEMMA Halves ==
  ASSUME NEW x \in Nat, NEW k \in Nat
  PROVE  LET s == Start(x, k)
             w == Start(x, k + 1)
         IN  \/ s = w /\ find_buddy(s, k) = w + 2^k
             \/ s = w + 2^k /\ find_buddy(s, k) = w
  <1> DEFINE s == Start(x, k)
             g == 2^k
  <1>1. g \in Nat \ {0} /\ 2^(k + 1) = g + g /\ k + 1 \in Nat
    BY PowerStep
  <1>2. s \in Nat /\ s % g = 0 /\ x \in Block(s, k)
    BY StartIs
  <1> HIDE DEF s
  <1>3. PICK w \in Nat : /\ w % 2^(k + 1) = 0
                         /\ \/ s = w /\ find_buddy(s, k) = w + g
                            \/ s = w + g /\ find_buddy(s, k) = w
    BY <1>2, BuddyIsOther
  <1>4. x \in Block(w, k + 1)
    <2>1. s <= x /\ x < s + g
      BY <1>1, <1>2 DEF Block
    <2>2. w <= x /\ x < w + (g + g)
      <3> HIDE DEF g
      <3> QED BY <1>1, <1>2, <1>3, <2>1
    <2> HIDE DEF g
    <2> QED BY <1>1, <2>2 DEF Block
  <1>5. w = Start(x, k + 1)
    BY <1>1, <1>3, <1>4, StartIs
  <1> QED BY <1>3, <1>5 DEF s

\* A page's block lies within its block of every higher order.
LEMMA Nested ==
  ASSUME NEW x \in Nat, NEW j \in Nat, NEW k \in Nat, j <= k
  PROVE  Block(Start(x, j), j) \subseteq Block(Start(x, k), k)
  <1> DEFINE g == 2^j
             s == Start(x, j)
             w == Start(x, k)
  <1>1. g \in Nat \ {0}
    BY PowerOfTwo
  <1>2. PICK c \in Nat \ {0} : 2^k = c * g
    BY PowerDivides
  <1>3. s \in Nat /\ s % g = 0 /\ x \in Block(s, j) /\ w \in Nat /\ w % 2^k = 0
        /\ x \in Block(w, k)
    BY StartIs
  <1> HIDE DEF s, w
  <1>4. PICK a \in Nat : s = a * g
    BY <1>3, Multiple
  <1>5. PICK b \in Nat : w = b * g
    BY <1>3, MultipleDown, Multiple
  <1>6. s <= x /\ x < s + g /\ w <= x /\ x < w + c * g
    BY <1>1, <1>2, <1>3 DEF Block
  <1> HIDE DEF g
  <1>7. b <= a
    <2> SUFFICES ASSUME b >= a + 1 PROVE FALSE
      OBVIOUS
    <2>1. b * g >= (a + 1) * g /\ (a + 1) * g = a * g + g
      BY <1>1
    <2> QED BY <1>1, <1>3, <1>4, <1>5, <1>6, <2>1
  <1>8. a + 1 <= b + c
    <2> SUFFICES ASSUME a >= b + c PROVE FALSE
      OBVIOUS
    <2>1. a * g >= (b + c) * g /\ (b + c) * g = b * g + c * g
      BY <1>1
    <2> QED BY <1>1, <1>3, <1>4, <1>5, <1>6, <2>1
  <1>9. w <= s /\ s + g <= w + c * g
    <2>1. b * g <= a * g
      BY <1>1, <1>7
    <2>2. (a + 1) * g <= (b + c) * g /\ (a + 1) * g = a * g + g /\ (b + c) * g = b * g + c * g
      BY <1>1, <1>8
    <2> QED BY <1>4, <1>5, <2>1, <2>2
  <1>10. \A y \in s .. s + g - 1 : y \in w .. w + c * g - 1
    <2>1. c * g \in Nat
      BY <1>1
    <2> QED BY <1>1, <1>3, <1>9, <2>1
  <1> QED BY <1>2, <1>10 DEF Block, g, s, w

\* find_buddy is its own inverse.
LEMMA BuddyOfBuddy ==
  ASSUME NEW s \in Nat, NEW k \in Nat, s % 2^k = 0
  PROVE  /\ find_buddy(s, k) \in Nat /\ find_buddy(s, k) # s
         /\ find_buddy(s, k) % 2^k = 0
         /\ find_buddy(find_buddy(s, k), k) = s
  <1> DEFINE g == 2^k
             y == find_buddy(s, k)
  <1>1. g \in Nat \ {0} /\ 2^(k + 1) = g + g /\ k + 1 \in Nat
    BY PowerStep
  <1>2. PICK w \in Nat : /\ w % 2^(k + 1) = 0
                         /\ \/ s = w /\ y = w + g
                            \/ s = w + g /\ y = w
    BY BuddyIsOther
  <1>3. y \in Nat /\ y # s
    <2> HIDE DEF y, g
    <2> QED BY <1>1, <1>2
  <1>4. y % g = 0
    <2>1. w % g = 0
      BY <1>1, <1>2, MultipleDown
    <2>2. PICK n \in Nat : w = n * g
      BY <2>1, Multiple
    <2>3. w + g = (n + 1) * g
      <3> HIDE DEF g
      <3> QED BY <1>1, <2>2
    <2>4. (w + g) % g = 0
      <3>1. w + g \in Nat /\ n + 1 \in Nat
        BY <1>1
      <3> QED BY <2>3, <3>1, Multiple
    <2> QED BY <1>2, <2>1, <2>4
  <1> HIDE DEF y
  <1>5. PICK v \in Nat : /\ v % 2^(k + 1) = 0
                         /\ \/ y = v /\ find_buddy(y, k) = v + g
                            \/ y = v + g /\ find_buddy(y, k) = v
    BY <1>3, <1>4, BuddyIsOther
  <1>6. v = w
    <2>1. PICK a \in Nat : v = a * 2^(k + 1)
      BY <1>1, <1>5, Multiple
    <2>2. PICK b \in Nat : w = b * 2^(k + 1)
      BY <1>1, <1>2, Multiple
    <2>3. v < w + (g + g) /\ w < v + (g + g)
      <3> HIDE DEF g
      <3> QED BY <1>1, <1>2, <1>5
    <2>4. a = b
      BY <1>1, <2>1, <2>2, <2>3, MultiplesApart
    <2> QED BY <2>1, <2>2, <2>4
  <1>7. find_buddy(y, k) = s
    <2> HIDE DEF g
    <2> QED BY <1>1, <1>2, <1>5, <1>6
  <1> QED BY <1>3, <1>4, <1>7 DEF y

\* The buddies buddy_merge takes, from the block of order o that page p begins.
Gone(p, k) == find_buddy(Start(p, k), k)

\* They and the block itself are what the merged block consists of.
LEMMA MergedIs ==
  ASSUME NEW p \in Nat, NEW o \in Nat, NEW m \in Nat, o <= m, p % 2^o = 0
  PROVE  /\ Start(p, o) = p
         /\ Block(p, o) \subseteq Block(Start(p, m), m)
         /\ \A k \in o .. m - 1 : /\ Gone(p, k) \in Nat /\ Gone(p, k) # p
                                  /\ Block(Gone(p, k), k) \subseteq Block(Start(p, m), m)
         /\ \A x \in Block(Start(p, m), m) :
              x \in Block(p, o) \/ \E k \in o .. m - 1 : x \in Block(Gone(p, k), k)
  <1>1. p \in Block(p, o)
    <2>1. 2^o \in Nat \ {0}
      BY PowerOfTwo
    <2> QED BY <2>1 DEF Block
  <1>2. Start(p, o) = p
    BY <1>1, StartIs
  <1>3. Block(p, o) \subseteq Block(Start(p, m), m)
    BY <1>2, Nested
  <1>4. ASSUME NEW k \in o .. m - 1
        PROVE  /\ Gone(p, k) \in Nat /\ Gone(p, k) # p
               /\ Block(Gone(p, k), k) \subseteq Block(Start(p, m), m)
    <2> DEFINE g == 2^k
               w == Start(p, k + 1)
               y == Gone(p, k)
    <2>1. k \in Nat /\ k + 1 \in Nat /\ k + 1 <= m
      OBVIOUS
    <2>2. g \in Nat \ {0} /\ 2^(k + 1) = g + g
      BY <2>1, PowerStep
    <2>3. w \in Nat
      BY <2>1, StartIs
    <2>4. \/ Start(p, k) = w /\ y = w + g
          \/ Start(p, k) = w + g /\ y = w
      BY <2>1, Halves DEF Gone
    <2>5. y \in Nat /\ y # Start(p, k) /\ y % g = 0
      <3>1. Start(p, k) \in Nat /\ Start(p, k) % g = 0
        BY <2>1, StartIs
      <3> QED BY <2>1, <3>1, BuddyOfBuddy DEF Gone
    <2>6. y # p
      <3>1. SUFFICES ASSUME y = p PROVE FALSE
        OBVIOUS
      <3>2. p \in Block(p, k)
        BY <2>2 DEF Block
      <3>3. p = Start(p, k)
        BY <2>1, <2>5, <3>1, <3>2, StartIs
      <3> QED BY <2>5, <3>1, <3>3
    <2>7. Block(y, k) \subseteq Block(w, k + 1)
      <3> HIDE DEF y, w, g
      <3>1. \A x \in y .. y + g - 1 : x \in w .. w + (g + g) - 1
        BY <2>2, <2>3, <2>4, <2>5
      <3> QED BY <2>2, <3>1 DEF Block, g
    <2>8. Block(w, k + 1) \subseteq Block(Start(p, m), m)
      BY <2>1, Nested
    <2> QED BY <2>5, <2>6, <2>7, <2>8
  <1>5. ASSUME NEW x \in Block(Start(p, m), m)
        PROVE  x \in Block(p, o) \/ \E k \in o .. m - 1 : x \in Block(Gone(p, k), k)
    <2> DEFINE K == {k \in o .. m : Start(x, k) = Start(p, k)}
               j == Min(K)
    <2>1. x \in Nat
      <3>1. Start(p, m) \in Nat /\ 2^m \in Nat
        BY StartIs, PowerOfTwo
      <3> QED BY <3>1 DEF Block
    <2>2. Start(x, m) = Start(p, m)
      BY <2>1, StartIs
    <2>3. m \in K /\ K \in SUBSET Nat
      BY <2>2
    <2>4. j \in K /\ \A k \in K : j <= k
      <3> HIDE DEF K
      <3> QED BY <2>3, MinNat
    <2> HIDE DEF j
    <2>5. j \in o .. m /\ Start(x, j) = Start(p, j)
      BY <2>4
    <2>6. CASE j = o
      BY <1>2, <2>1, <2>5, <2>6, StartIs
    <2>7. CASE j # o
      <3> DEFINE k == j - 1
      <3>1. k \in o .. m - 1 /\ k \in Nat /\ k + 1 = j
        BY <2>5, <2>7
      <3>2. Start(x, k) # Start(p, k)
        <4>1. k \notin K
          BY <2>4, <3>1
        <4> HIDE DEF k
        <4> QED BY <3>1, <4>1
      <3> HIDE DEF k
      <3>3. \/ Start(x, k) = Start(x, j) /\ find_buddy(Start(x, k), k) = Start(x, j) + 2^k
            \/ Start(x, k) = Start(x, j) + 2^k /\ find_buddy(Start(x, k), k) = Start(x, j)
        BY <2>1, <3>1, Halves
      <3>4. \/ Start(p, k) = Start(p, j) /\ Gone(p, k) = Start(p, j) + 2^k
            \/ Start(p, k) = Start(p, j) + 2^k /\ Gone(p, k) = Start(p, j)
        BY <3>1, Halves DEF Gone
      <3>5. Start(x, k) = Gone(p, k)
        BY <2>5, <3>2, <3>3, <3>4
      <3>6. x \in Block(Gone(p, k), k)
        BY <2>1, <3>1, <3>5, StartIs
      <3> QED BY <3>1, <3>6
    <2> QED BY <2>6, <2>7
  <1> QED BY <1>2, <1>3, <1>4, <1>5

\* page.c, buddy_merge: the loop ends, at one order: the first whose buddy cannot be
\* merged, or the last.
LEMMA MergeComesToAnEnd ==
  ASSUME NEW p \in Pages, NEW o \in Orders
  PROVE  /\ \E m \in Orders : MergeEnds(p, o, m)
         /\ \A m, n \in Orders : MergeEnds(p, o, m) /\ MergeEnds(p, o, n) => m = n
  <1> DEFINE Ok(k) == check_buddy(find_buddy(Start(p, k), k), k)
             K == {k \in o .. OrderMax : k = OrderMax \/ ~Ok(k)}
             m == Min(K)
  <1>1. OrderMax \in Nat /\ o \in Nat /\ o <= OrderMax
    BY BuddyAssumption DEF Orders
  <1> HIDE DEF Ok
  <1>2. K \in SUBSET Nat /\ OrderMax \in K
    BY <1>1
  <1>3. m \in K /\ \A k \in K : m <= k
    <2> HIDE DEF K
    <2> QED BY <1>2, MinNat
  <1> HIDE DEF m
  <1>4. m \in o .. OrderMax /\ m \in Orders /\ (m = OrderMax \/ ~Ok(m))
    BY <1>1, <1>3 DEF Orders
  <1>5. \A k \in o .. m - 1 : Ok(k)
    BY <1>1, <1>3, <1>4
  <1>6. MergeEnds(p, o, m)
    BY <1>4, <1>5 DEF MergeEnds, Ok
  <1>7. ASSUME NEW i \in Orders, NEW j \in Orders, MergeEnds(p, o, i), MergeEnds(p, o, j), i < j
        PROVE  FALSE
    <2>1. i \in o .. j - 1 /\ i # OrderMax
      BY <1>1, <1>7 DEF MergeEnds, Orders
    <2>2. Ok(i) /\ ~Ok(i)
      BY <1>7, <2>1 DEF MergeEnds, Ok
    <2> QED BY <2>2
  <1>8. \A i, j \in Orders : i < j \/ i = j \/ j < i
    BY <1>1 DEF Orders
  <1> QED BY <1>4, <1>6, <1>7, <1>8

-----------------------------------------------------------------------------
(* Merging *)

LEMMA BlockFacts ==
  ASSUME NEW p \in Nat, NEW o \in Nat
  PROVE  p \in Block(p, o) /\ Block(p, o) \subseteq Nat /\ 2^o \in Nat \ {0}
         /\ p + 2^o - 1 \in Block(p, o)
  <1>1. 2^o \in Nat \ {0}
    BY PowerOfTwo
  <1> DEFINE g == 2^o
  <1> HIDE DEF g
  <1>2. g \in Nat \ {0} => p \in p .. p + g - 1 /\ p .. p + g - 1 \subseteq Nat
                           /\ p + g - 1 \in p .. p + g - 1
    OBVIOUS
  <1> QED BY <1>1, <1>2 DEF Block, g

\* What buddy_merge does to the lists, the marks and the orders.
LEMMA MergeEffect ==
  ASSUME BuddyTypeOK, ListsOnce, NEW p \in Pages, NEW o \in Orders, buddy_merge(p, o)
  PROVE  \E m \in Orders :
           /\ o <= m /\ MergeEnds(p, o, m)
           /\ Start(p, m) \in Pages
           /\ badDel' \in BOOLEAN
           /\ freeList' \in [Orders -> Seq(Pages)]
           /\ pageType' = [pageType EXCEPT ![Start(p, m)] = "free"]
           /\ pageOrder' = [pageOrder EXCEPT ![Start(p, m)] = m]
           /\ badDel \/ (badDel' <=> \E k \in o .. m - 1 : ~PageFree(Gone(p, k), k))
           /\ ~PageFree(Start(p, m), m) => ListsOnce'
           /\ \A q \in Pages, n \in Orders :
                PageFree(q, n)' <=> \/ q = Start(p, m) /\ n = m
                                    \/ PageFree(q, n) /\ ~(n \in o .. m - 1 /\ q = Gone(p, n))
  <1> DEFINE left(m) == [k \in Orders |-> IF k \in o .. m - 1
                                          THEN RemoveFirst(freeList[k], Gone(p, k))
                                          ELSE freeList[k]]
  <1>1. PICK m \in Orders :
          /\ MergeEnds(p, o, m)
          /\ badDel' = (badDel \/ \E k \in o .. m - 1 : ~Contains(freeList[k], Gone(p, k)))
          /\ freeList' = [left(m) EXCEPT ![m] = Append(@, Start(p, m))]
          /\ pageType' = [pageType EXCEPT ![Start(p, m)] = "free"]
          /\ pageOrder' = [pageOrder EXCEPT ![Start(p, m)] = m]
    BY DEF buddy_merge, Gone
  <1> DEFINE head == Start(p, m)
             l    == left(m)
  <1>2. m \in o .. OrderMax /\ o \in Nat /\ m \in Nat /\ o <= m /\ OrderMax \in Nat
    BY <1>1, BuddyAssumption DEF MergeEnds, Orders
  <1>3. head \in Pages
    <2>1. p \in Nat /\ p < PageNr /\ PageNr \in Nat
      BY BuddyAssumption DEF Pages
    <2>2. head \in Nat /\ p \in Block(head, m) /\ 2^m \in Nat
      BY <1>2, <2>1, StartIs, PowerOfTwo
    <2> HIDE DEF head
    <2>3. head <= p
      BY <2>1, <2>2 DEF Block
    <2> QED BY <2>1, <2>2, <2>3 DEF Pages
  <1>4. \A k \in Orders : freeList[k] \in Seq(Pages) /\ IsInjective(freeList[k])
    BY DEF BuddyTypeOK, ListsOnce
  <1>5. ASSUME NEW k \in Orders
        PROVE  /\ l[k] \in Seq(Pages) /\ IsInjective(l[k])
               /\ k \notin o .. m - 1 => ToSet(l[k]) = ToSet(freeList[k])
               /\ k \in o .. m - 1 => ToSet(l[k]) = ToSet(freeList[k]) \ {Gone(p, k)}
    <2>1. CASE k \in o .. m - 1 /\ Gone(p, k) \in ToSet(freeList[k])
      BY <1>4, <2>1, ListDel
    <2>2. CASE k \in o .. m - 1 /\ Gone(p, k) \notin ToSet(freeList[k])
      <3>1. l[k] = freeList[k]
        BY <1>4, <2>2, ListDelAbsent
      <3> QED BY <1>4, <2>2, <3>1
    <2>3. CASE k \notin o .. m - 1
      BY <1>4, <2>3
    <2> QED BY <2>1, <2>2, <2>3
  <1>6. l \in [Orders -> Seq(Pages)]
    <2>1. l = [k \in Orders |-> l[k]]
      OBVIOUS
    <2> HIDE DEF l
    <2> QED BY <1>5, <2>1
  <1> HIDE DEF l, head
  <1>7. freeList' = [l EXCEPT ![m] = Append(@, head)]
    BY <1>1 DEF l, head
  <1>8. /\ Append(l[m], head) \in Seq(Pages)
        /\ ToSet(Append(l[m], head)) = ToSet(l[m]) \cup {head}
        /\ head \notin ToSet(l[m]) => IsInjective(Append(l[m], head))
    BY <1>3, <1>5, ListAddPrev
  <1>9. \A k \in Orders : freeList'[k] = IF k = m THEN Append(l[m], head) ELSE l[k]
    BY <1>6, <1>7
  <1>10. freeList' \in [Orders -> Seq(Pages)]
    BY <1>6, <1>7, <1>8
  <1>11. m \notin o .. m - 1
    BY <1>2
  <1>12. ~PageFree(head, m) => ListsOnce'
    BY <1>5, <1>8, <1>9, <1>11 DEF ListsOnce, PageFree
  <1>13. ASSUME NEW q \in Pages, NEW n \in Orders
         PROVE  PageFree(q, n)' <=> \/ q = head /\ n = m
                                    \/ PageFree(q, n) /\ ~(n \in o .. m - 1 /\ q = Gone(p, n))
    <2>1. CASE n = m
      BY <1>5, <1>8, <1>9, <1>11, <2>1 DEF PageFree
    <2>2. CASE n # m
      BY <1>5, <1>9, <2>2 DEF PageFree
    <2> QED BY <2>1, <2>2
  <1>14. \A k \in o .. m - 1 : k \in Orders
    BY <1>2 DEF Orders
  <1>15. ASSUME NEW k \in o .. m - 1
         PROVE  Contains(freeList[k], Gone(p, k)) <=> PageFree(Gone(p, k), k)
    BY <1>4, <1>14 DEF Contains, PageFree, ToSet
  <1>16. badDel \/ (badDel' <=> \E k \in o .. m - 1 : ~PageFree(Gone(p, k), k))
    BY <1>1, <1>15
  <1>17. badDel' \in BOOLEAN
    BY <1>1
  <1> QED BY <1>1, <1>2, <1>3, <1>10, <1>12, <1>13, <1>16, <1>17 DEF head

\* A merge leaves the pages divided into blocks: of those of the merged block there
\* is nothing left, and nothing else is touched.
LEMMA MergeKeeps ==
  ASSUME BuddyTypeOK, ~badDel, BuddyWhole, NEW p \in Pages, NEW o \in Orders,
         buddy_merge(p, o), p % 2^o = 0, ~PageFree(p, o),
         \A q \in Pages, n \in Orders :
           IsBlock(q, n) /\ Block(q, n) \cap Block(p, o) # {} => q = p /\ n = o,
         handed' = handed \ {p}, added' \in Nat, added' >= added,
         \A x \in Nat : x < added' <=> x < added \/ x \in Block(p, o)
  PROVE  /\ ~badDel' => BuddyWhole'
         /\ MarksInside /\ unmarked = {} => ~badDel' /\ (unmarked' = {} => MarksInside')
  <1>0. ListsOnce /\ BlocksAligned /\ BlocksApart /\ BlocksCover /\ OrdersRight /\ PairsMerged
        /\ (added < PageNr => handed = {})
    BY DEF BuddyWhole
  <1>1. PICK m \in Orders :
          /\ o <= m /\ MergeEnds(p, o, m)
          /\ Start(p, m) \in Pages
          /\ pageType' = [pageType EXCEPT ![Start(p, m)] = "free"]
          /\ pageOrder' = [pageOrder EXCEPT ![Start(p, m)] = m]
          /\ (badDel' <=> \E k \in o .. m - 1 : ~PageFree(Gone(p, k), k))
          /\ ~PageFree(Start(p, m), m) => ListsOnce'
          /\ \A q \in Pages, n \in Orders :
               PageFree(q, n)' <=> \/ q = Start(p, m) /\ n = m
                                   \/ PageFree(q, n) /\ ~(n \in o .. m - 1 /\ q = Gone(p, n))
    BY <1>0, MergeEffect
  <1> DEFINE head == Start(p, m)
             Stays(q, n) == \/ PageFree(q, n) /\ ~(n \in o .. m - 1 /\ q = Gone(p, n))
                            \/ PageHeld(q, n) /\ q # p
  <1>2. /\ p \in Nat /\ o \in Nat /\ m \in Nat /\ OrderMax \in Nat
        /\ Pages \subseteq Nat /\ Orders \subseteq Nat /\ head \in Pages /\ head \in Nat
        /\ added \in Nat /\ added <= PageNr /\ PageNr \in Nat
    BY <1>1, BuddyAssumption DEF Pages, Orders, BuddyTypeOK
  <1>3. /\ Block(p, o) \subseteq Block(head, m)
        /\ \A k \in o .. m - 1 : /\ Gone(p, k) \in Nat /\ Gone(p, k) # p
                                 /\ Block(Gone(p, k), k) \subseteq Block(head, m)
        /\ \A x \in Block(head, m) :
             x \in Block(p, o) \/ \E k \in o .. m - 1 : x \in Block(Gone(p, k), k)
    BY <1>1, <1>2, MergedIs
  <1>4. head % 2^m = 0 /\ p \in Block(head, m)
    BY <1>2, StartIs
  <1>5. \A k \in o .. m - 1 : k \in Orders /\ k \in Nat
    BY <1>2 DEF Orders
  <1>6. pageType \in [Pages -> {"uninit", "free", "used"}] /\ pageOrder \in [Pages -> Orders]
    BY DEF BuddyTypeOK
  <1>7. /\ pageType'[head] = "free" /\ pageOrder'[head] = m
        /\ \A q \in Pages : q # head => pageType'[q] = pageType[q] /\ pageOrder'[q] = pageOrder[q]
    BY <1>1, <1>6
  <1>8. ASSUME MarksInside, unmarked = {} PROVE ~badDel'
    <2> SUFFICES ASSUME NEW k \in o .. m - 1 PROVE PageFree(Gone(p, k), k)
      BY <1>1
    <2> DEFINE y == Gone(p, k)
    <2>1. y \in Pages /\ pageType[y] = "free" /\ pageOrder[y] = k
      BY <1>1 DEF MergeEnds, check_buddy, Gone
    <2>2. y % 2^k = 0
      BY <1>0, <2>1 DEF OrdersRight
    <2> SUFFICES ASSUME ~PageFree(y, k) PROVE FALSE
      OBVIOUS
    <2>3. PICK q \in Pages, n \in Orders : IsBlock(q, n) /\ y \in Block(q, n) /\ y # q
      BY <1>8, <2>1 DEF MarksInside
    <2>4. q \in Nat /\ n \in Nat /\ y \in Nat /\ q % 2^n = 0 /\ k \in Nat
      BY <1>0, <1>2, <1>5, <2>1, <2>3 DEF BlocksAligned
    <2> HIDE DEF y
    <2>5. q = Start(y, n)
      BY <2>3, <2>4, StartIs
    <2>6. n >= k + 1
      <3> SUFFICES ASSUME n <= k PROVE FALSE
        BY <2>4
      <3>1. y % 2^n = 0
        BY <2>2, <2>4, MultipleDown
      <3>2. y \in Block(y, n)
        BY <2>4, BlockFacts
      <3>3. y = Start(y, n)
        BY <2>4, <3>1, <3>2, StartIs
      <3> QED BY <2>3, <2>5, <3>3
    <2>7. Start(y, k + 1) = Start(p, k + 1)
      <3>1. k + 1 \in Nat
        BY <2>4
      <3>2. /\ Block(Gone(p, k), k) \subseteq Block(Start(p, k + 1), k + 1)
        <4>1. k \in o .. (k + 1) - 1 /\ o <= k + 1
          BY <1>2, <2>4
        <4> QED BY <1>2, <3>1, <4>1, MergedIs
      <3>3. y \in Block(y, k)
        BY <2>4, BlockFacts
      <3>4. Start(p, k + 1) \in Nat /\ Start(p, k + 1) % 2^(k + 1) = 0
        BY <1>2, <3>1, StartIs
      <3>5. y \in Block(Start(p, k + 1), k + 1)
        BY <3>2, <3>3 DEF y
      <3> QED BY <2>4, <3>1, <3>4, <3>5, StartIs
    <2>8. p \in Block(q, n)
      <3>1. k + 1 \in Nat
        BY <2>4
      <3>2. p \in Block(Start(p, k + 1), k + 1)
        BY <1>2, <3>1, StartIs
      <3>3. Block(Start(y, k + 1), k + 1) \subseteq Block(Start(y, n), n)
        BY <2>4, <2>6, <3>1, Nested
      <3> QED BY <2>5, <2>7, <3>2, <3>3
    <2>9. p \in Block(p, o)
      BY <1>2, BlockFacts
    <2>10. n = o
      BY <2>3, <2>8, <2>9
    <2> QED BY <1>2, <2>4, <2>6, <2>10
  <1> HIDE DEF head, Stays
  <1>10. ASSUME ~badDel' PROVE BuddyWhole' /\ (MarksInside /\ unmarked = {} /\ unmarked' = {} => MarksInside')
    <2>1. \A k \in o .. m - 1 : PageFree(Gone(p, k), k)
      BY <1>1, <1>10
    <2>2. \A k \in o .. m - 1 : Gone(p, k) \in Pages
      BY <1>5, <2>1, ListElems DEF PageFree, BuddyTypeOK
    <2>3. ASSUME NEW q \in Pages, NEW n \in Orders, Stays(q, n)
          PROVE  IsBlock(q, n) /\ Block(q, n) \cap Block(head, m) = {}
      <3>1. IsBlock(q, n)
        BY <2>3 DEF Stays, IsBlock
      <3>2. Block(q, n) \cap Block(p, o) = {}
        BY <2>3, <3>1 DEF Stays
      <3>3. ASSUME NEW k \in o .. m - 1, Block(q, n) \cap Block(Gone(p, k), k) # {}
            PROVE  FALSE
        <4>1. q = Gone(p, k) /\ n = k
          BY <1>0, <1>5, <2>1, <2>2, <3>1, <3>3 DEF BlocksApart, IsBlock
        <4> QED BY <1>0, <2>1, <2>3, <4>1 DEF Stays, BlocksApart
      <3> QED BY <1>3, <3>1, <3>2, <3>3 DEF head
    <2>4. \A q \in Pages, n \in Orders : Stays(q, n) => q # head
      <3>1. \A q \in Pages, n \in Orders : q \in Block(q, n)
        BY <1>2, BlockFacts
      <3> QED BY <1>2, <2>3, <3>1
    <2>5. \A q \in handed : q # p => q # head
      <3>1. handed \subseteq Pages
        BY DEF BuddyTypeOK
      <3> SUFFICES ASSUME NEW q \in handed, q # p PROVE q # head
        OBVIOUS
      <3>2. pageOrder[q] \in Orders /\ q \in Pages
        BY <1>6, <3>1
      <3>3. Stays(q, pageOrder[q])
        BY DEF Stays, PageHeld
      <3> QED BY <2>4, <3>2, <3>3
    <2>6. ASSUME NEW q \in Pages, NEW n \in Orders
          PROVE  /\ PageHeld(q, n)' <=> PageHeld(q, n) /\ q # p
                 /\ IsBlock(q, n)' <=> (q = head /\ n = m) \/ Stays(q, n)
      <3>1. PageHeld(q, n)' <=> PageHeld(q, n) /\ q # p
        BY <1>7, <2>5 DEF PageHeld
      <3> QED BY <1>1, <3>1 DEF IsBlock, Stays, head
    <2>7. ListsOnce'
      <3>1. ~PageFree(head, m)
        <4>1. p \in Block(p, o)
          BY <1>2, BlockFacts
        <4> QED BY <1>2, <1>4, <4>1 DEF IsBlock
      <3> QED BY <1>1, <3>1 DEF head
    <2>8. \A x \in Block(head, m) : x \in Nat /\ x < added'
      <3> SUFFICES ASSUME NEW x \in Block(head, m) PROVE x \in Nat /\ x < added'
        OBVIOUS
      <3>1. x \in Nat
        BY <1>2, BlockFacts
      <3>2. CASE x \in Block(p, o)
        BY <3>1, <3>2
      <3>3. ASSUME NEW k \in o .. m - 1, x \in Block(Gone(p, k), k) PROVE x < added'
        <4> DEFINE y == Gone(p, k)
        <4>1. y \in Pages /\ IsBlock(y, k)
          BY <2>1, <2>2 DEF IsBlock
        <4>2. y + 2^k <= added /\ y \in Nat /\ 2^k \in Nat
          BY <1>0, <1>2, <1>5, <4>1, BlockFacts DEF BlocksAligned
        <4>3. x < y + 2^k
          <5> HIDE DEF y
          <5> QED BY <3>1, <3>3, <4>2 DEF Block, y
        <4> HIDE DEF y
        <4>4. x < added
          BY <1>2, <3>1, <4>2, <4>3
        <4> QED BY <3>1, <4>4
      <3> QED BY <1>3, <3>1, <3>2, <3>3 DEF head
    <2>9. BlocksAligned'
      <3> SUFFICES ASSUME NEW q \in Pages, NEW n \in Orders, IsBlock(q, n)'
                   PROVE  q % 2^n = 0 /\ q + 2^n <= added'
        BY DEF BlocksAligned
      <3>1. CASE q = head /\ n = m
        <4>1. head + 2^m - 1 \in Block(head, m) /\ 2^m \in Nat
          BY <1>2, BlockFacts
        <4>2. head + 2^m - 1 < added'
          BY <2>8, <4>1
        <4> QED BY <1>2, <1>4, <3>1, <4>1, <4>2 DEF head
      <3>2. CASE Stays(q, n)
        <4>1. q % 2^n = 0 /\ q + 2^n <= added
          BY <1>0, <2>3, <3>2 DEF BlocksAligned
        <4>2. q + 2^n \in Nat
          BY <1>2, BlockFacts
        <4> QED BY <1>2, <4>1, <4>2
      <3> QED BY <2>6, <3>1, <3>2
    <2>10. BlocksApart'
      <3>1. ASSUME NEW q \in Pages, NEW r \in Pages, NEW n \in Orders, NEW i \in Orders,
                   IsBlock(q, n)', IsBlock(r, i)', Block(q, n) \cap Block(r, i) # {}
            PROVE  q = r /\ n = i
        <4>1. CASE q = head /\ n = m
          BY <2>3, <2>6, <3>1, <4>1
        <4>2. CASE Stays(q, n) /\ r = head /\ i = m
          BY <2>3, <3>1, <4>2
        <4>3. CASE Stays(q, n) /\ Stays(r, i)
          BY <1>0, <2>3, <3>1, <4>3 DEF BlocksApart
        <4> QED BY <2>6, <3>1, <4>1, <4>2, <4>3
      <3>2. ASSUME NEW q \in Pages, NEW n \in Orders, PageFree(q, n)', PageHeld(q, n)'
            PROVE  FALSE
        <4>1. PageHeld(q, n) /\ q # p
          BY <2>6, <3>2
        <4>2. q # head
          BY <2>4, <4>1 DEF Stays
        <4>3. PageFree(q, n)
          BY <1>1, <3>2, <4>2 DEF head
        <4> QED BY <1>0, <4>1, <4>3 DEF BlocksApart
      <3>3. \A q, r \in Pages, n, i \in Orders :
              IsBlock(q, n)' /\ IsBlock(r, i)' /\ Block(q, n) \cap Block(r, i) # {} => q = r /\ n = i
        BY <3>1
      <3> QED BY <3>2, <3>3 DEF BlocksApart, Block
    <2>11. BlocksCover'
      <3> SUFFICES ASSUME NEW x \in 0 .. added' - 1
                   PROVE  \E q \in Pages, n \in Orders : IsBlock(q, n)' /\ x \in Block(q, n)
        BY DEF BlocksCover, Block
      <3>1. CASE x \in Block(head, m)
        BY <1>2, <2>6, <3>1
      <3>2. CASE x \notin Block(head, m)
        <4>1. x \in 0 .. added - 1 /\ x \notin Block(p, o)
          <5>1. x \in Nat /\ x < added' /\ x \notin Block(p, o)
            <6>1. \A a \in Nat : \A y \in 0 .. a - 1 : y \in Nat /\ y < a
              OBVIOUS
            <6>2. x \notin Block(p, o)
              BY <1>3, <3>2 DEF head
            <6> QED BY <6>1, <6>2
          <5>2. x < added
            BY <5>1
          <5> QED BY <1>2, <5>1, <5>2
        <4>2. PICK q \in Pages, n \in Orders : IsBlock(q, n) /\ x \in Block(q, n)
          BY <1>0, <4>1 DEF BlocksCover
        <4>3. Stays(q, n)
          <5>1. CASE PageFree(q, n)
            BY <1>3, <3>2, <4>2, <5>1 DEF Stays, head
          <5>2. CASE PageHeld(q, n)
            <6>1. q # p
              <7> SUFFICES ASSUME q = p PROVE FALSE
                OBVIOUS
              <7>1. p \in Block(p, n) /\ p \in Block(p, o)
                BY <1>2, BlockFacts
              <7>2. n = o
                BY <4>2, <7>1
              <7> QED BY <4>1, <4>2, <7>2
            <6> QED BY <5>2, <6>1 DEF Stays
          <5> QED BY <4>2, <5>1, <5>2 DEF IsBlock
        <4> QED BY <2>6, <4>2, <4>3
      <3> QED BY <3>1, <3>2
    <2>12. OrdersRight'
      <3>1. ASSUME NEW q \in Pages, NEW n \in Orders, PageFree(q, n)' PROVE pageOrder'[q] = n
        <4>1. CASE q = head /\ n = m
          BY <1>7, <4>1
        <4>2. CASE ~(q = head /\ n = m)
          <5>1. Stays(q, n) /\ PageFree(q, n)
            BY <1>1, <3>1, <4>2 DEF Stays, head
          <5> QED BY <1>0, <1>7, <2>4, <5>1 DEF OrdersRight
        <4> QED BY <4>1, <4>2
      <3>2. ASSUME NEW q \in Pages PROVE q % 2^(pageOrder'[q]) = 0
        <4>1. CASE q = head
          BY <1>4, <1>7, <4>1 DEF head
        <4>2. CASE q # head
          BY <1>0, <1>7, <4>2 DEF OrdersRight
        <4> QED BY <4>1, <4>2
      <3> QED BY <3>1, <3>2 DEF OrdersRight
    <2>13. PairsMerged'
      <3> SUFFICES ASSUME NEW q \in Pages, NEW r \in Pages, NEW n \in Orders, n < OrderMax,
                          PageFree(q, n)', PageFree(r, n)', r = find_buddy(q, n),
                          pageType'[q] = "free", pageType'[r] = "free"
                   PROVE  FALSE
        BY DEF PairsMerged, find_buddy
      <3>0. q \in Nat /\ r \in Nat /\ n \in Nat /\ q % 2^n = 0 /\ r % 2^n = 0
        BY <1>2, <2>9 DEF BlocksAligned, IsBlock
      <3>1. q = find_buddy(r, n) /\ q # r
        BY <3>0, BuddyOfBuddy
      <3>2. ASSUME NEW u \in Pages, PageFree(u, n)', u # head
            PROVE  PageFree(u, n) /\ pageType'[u] = pageType[u] /\ pageOrder[u] = n
        BY <1>0, <1>1, <1>7, <3>2 DEF OrdersRight, head
      <3>3. ASSUME NEW u \in Pages, PageFree(u, n)', u # head, u = find_buddy(head, n), n = m,
                   pageType'[u] = "free"
            PROVE  FALSE
        <4>1. check_buddy(u, m)
          BY <3>2, <3>3 DEF check_buddy
        <4>2. ~check_buddy(find_buddy(Start(p, m), m), m)
          BY <1>1, <3>3 DEF MergeEnds
        <4> QED BY <3>3, <4>1, <4>2 DEF head
      <3>4. PageFree(head, n)' => n = m
        BY <1>1, <1>2, <2>4 DEF Stays, head
      <3>5. CASE q = head
        BY <3>1, <3>3, <3>4, <3>5
      <3>6. CASE r = head
        BY <3>1, <3>3, <3>4, <3>6
      <3>7. CASE q # head /\ r # head
        BY <1>0, <3>2, <3>7 DEF PairsMerged
      <3> QED BY <3>5, <3>6, <3>7
    <2>14. added' < PageNr => handed' = {}
      BY <1>0, <1>2
    <2>15. ASSUME MarksInside, unmarked = {} PROVE MarksInside'
      <3> SUFFICES ASSUME NEW q \in Pages, pageType'[q] = "free"
                   PROVE  \/ q \in ToSet(freeList'[pageOrder'[q]])
                          \/ \E r \in Pages, n \in Orders : IsBlock(r, n)' /\ q \in Block(r, n) /\ q # r
        BY DEF MarksInside, Block, PageFree
      <3>1. CASE q = head
        <4>1. head \in ToSet(freeList'[m])
          BY <1>1, <1>2 DEF head, PageFree
        <4> QED BY <1>7, <3>1, <4>1
      <3>2. CASE q # head /\ q \in Block(head, m)
        BY <1>2, <2>6, <3>2
      <3>3. CASE q \notin Block(head, m)
        <4>1. head \in Block(head, m)
          BY <1>2, BlockFacts
        <4>2. pageType[q] = "free" /\ pageOrder'[q] = pageOrder[q] /\ pageOrder[q] \in Orders
          BY <1>6, <1>7, <3>3, <4>1
        <4>3. ASSUME NEW r \in Pages, NEW n \in Orders, IsBlock(r, n), q \in Block(r, n)
              PROVE  Stays(r, n)
          <5>1. q \notin Block(p, o) /\ \A k \in o .. m - 1 : q \notin Block(Gone(p, k), k)
            BY <1>3, <3>3 DEF head
          <5>2. r # p \/ n # o
            BY <4>3, <5>1
          <5>3. CASE PageFree(r, n)
            BY <4>3, <5>1, <5>3 DEF Stays
          <5>4. CASE PageHeld(r, n)
            <6>1. r # p
              <7> SUFFICES ASSUME r = p PROVE FALSE
                OBVIOUS
              <7>1. p \in Block(p, n) /\ p \in Block(p, o)
                BY <1>2, BlockFacts
              <7> QED BY <4>3, <5>2, <7>1
            <6> QED BY <5>4, <6>1 DEF Stays
          <5> QED BY <4>3, <5>3, <5>4 DEF IsBlock
        <4>4. CASE PageFree(q, pageOrder[q])
          <5>1. q \in Block(q, pageOrder[q])
            BY <1>2, <4>2, BlockFacts
          <5>2. Stays(q, pageOrder[q])
            BY <4>2, <4>3, <4>4, <5>1 DEF IsBlock
          <5>3. ~PageHeld(q, pageOrder[q])
            BY <1>0, <4>2, <4>4 DEF BlocksApart
          <5>4. q \in ToSet(freeList'[pageOrder[q]])
            <6> DEFINE i == pageOrder[q]
            <6>1. i \in Orders /\ PageFree(q, i) /\ ~(i \in o .. m - 1 /\ q = Gone(p, i))
              BY <4>2, <4>4, <5>2, <5>3 DEF Stays
            <6> HIDE DEF i
            <6>2. q \in ToSet(freeList'[i])
              BY <1>1, <6>1 DEF PageFree
            <6> QED BY <6>2 DEF i
          <5> QED BY <4>2, <5>4
        <4>5. CASE \E r \in Pages, n \in Orders : IsBlock(r, n) /\ q \in Block(r, n) /\ q # r
          BY <2>6, <4>3, <4>5
        <4> QED BY <2>15, <4>2, <4>4, <4>5 DEF MarksInside
      <3> QED BY <3>1, <3>2, <3>3
    <2> QED BY <2>7, <2>9, <2>10, <2>11, <2>12, <2>13, <2>14, <2>15 DEF BuddyWhole
  <1> QED BY <1>8, <1>10

-----------------------------------------------------------------------------
(* Dividing *)

\* The pieces a block of order n is divided into: one of order o at its start, and
\* one of each order between, at the distance of its own size.
Divided(s, o, n) ==
  /\ s % 2^o = 0 /\ Block(s, o) \subseteq Block(s, n)
  /\ \A k \in o .. n - 1 : /\ k \in Nat /\ s + 2^k \in Nat
                           /\ (s + 2^k) % 2^k = 0
                           /\ Block(s + 2^k, k) \subseteq Block(s, n)
                           /\ Block(s + 2^k, k) \cap Block(s, o) = {}
                           /\ find_buddy(s + 2^k, k) = s
  /\ \A k, j \in o .. n - 1 : /\ s + 2^k = s + 2^j => k = j
                              /\ k # j => Block(s + 2^k, k) \cap Block(s + 2^j, j) = {}
  /\ \A x \in Block(s, n) :
       x \in Block(s, o) \/ \E k \in o .. n - 1 : x \in Block(s + 2^k, k)

\* A block that starts on its own size divides that way.
LEMMA Pieces ==
  ASSUME NEW s \in Nat, NEW o \in Nat, NEW n \in Nat, o <= n, s % 2^n = 0
  PROVE  Divided(s, o, n)
  <1>1. s % 2^o = 0
    BY MultipleDown
  <1>2. \A k \in o .. n : k \in Nat /\ 2^k \in Nat \ {0}
    <2>1. \A k \in o .. n : k \in Nat
      OBVIOUS
    <2> QED BY <2>1, PowerOfTwo
  <1>3. \A k, j \in o .. n : k < j => 2^k + 2^k <= 2^j
    BY <1>2, PowerMonotone
  <1>4. o \in o .. n /\ n \in o .. n /\ \A k \in o .. n - 1 : k \in o .. n /\ k < n
    OBVIOUS
  <1> DEFINE P(k) == 2^k
  <1>5. \A k \in o .. n : P(k) \in Nat \ {0}
    BY <1>2
  <1>6. \A k, j \in o .. n : k < j => P(k) + P(k) <= P(j)
    BY <1>3
  <1> HIDE DEF P
  <1>7. \A x, k : x \in s .. s + P(k) - 1 <=> x \in Block(s, k)
    BY DEF P, Block
  <1>8. \A x, k : x \in s + P(k) .. (s + P(k)) + P(k) - 1 <=> x \in Block(s + 2^k, k)
    BY DEF P, Block
  <1>9. Block(s, o) \subseteq Block(s, n)
    <2>1. P(o) <= P(n)
      BY <1>4, <1>5, <1>6
    <2>2. \A x \in s .. s + P(o) - 1 : x \in s .. s + P(n) - 1
      BY <1>4, <1>5, <2>1
    <2> QED BY <1>7, <2>2
  <1>10. ASSUME NEW k \in o .. n - 1
         PROVE  /\ k \in Nat /\ s + 2^k \in Nat
                /\ (s + 2^k) % 2^k = 0
                /\ Block(s + 2^k, k) \subseteq Block(s, n)
                /\ Block(s + 2^k, k) \cap Block(s, o) = {}
                /\ find_buddy(s + 2^k, k) = s
    <2>1. k \in o .. n /\ k < n /\ k \in Nat /\ P(k) \in Nat \ {0} /\ P(k) + P(k) <= P(n)
          /\ P(o) \in Nat \ {0} /\ P(n) \in Nat \ {0} /\ P(o) <= P(k)
      BY <1>4, <1>5, <1>6
    <2>2. s % 2^(k + 1) = 0
      <3>1. k + 1 \in Nat /\ k + 1 <= n
        BY <2>1
      <3> QED BY <3>1, MultipleDown
    <2>3. s % 2^k = 0
      <3>1. k \in Nat /\ k <= n
        BY <2>1
      <3> QED BY <3>1, MultipleDown
    <2>4. find_buddy(s, k) = s + 2^k
      <3>1. PICK w \in Nat : /\ w % 2^(k + 1) = 0
                             /\ \/ s = w /\ find_buddy(s, k) = w + 2^k
                                \/ s = w + 2^k /\ find_buddy(s, k) = w
        BY <2>1, <2>3, BuddyIsOther
      <3>2. ASSUME s = w + 2^k PROVE FALSE
        <4>1. 2^(k + 1) = P(k) + P(k) /\ k + 1 \in Nat
          BY <2>1, PowerStep DEF P
        <4>2. s \in s .. s + (P(k) + P(k)) - 1 /\ s \in w .. w + (P(k) + P(k)) - 1
          BY <2>1, <3>2 DEF P
        <4>3. s \in Block(s, k + 1) /\ s \in Block(w, k + 1)
          BY <4>1, <4>2 DEF Block
        <4>4. s = w
          BY <2>2, <3>1, <4>1, <4>3, StartIs
        <4> QED BY <2>1, <3>2, <4>4 DEF P
      <3> QED BY <3>1, <3>2
    <2>5. /\ find_buddy(s, k) \in Nat /\ find_buddy(s, k) % 2^k = 0
          /\ find_buddy(find_buddy(s, k), k) = s
      BY <2>1, <2>3, BuddyOfBuddy
    <2>6. \A x \in s + P(k) .. (s + P(k)) + P(k) - 1 : x \in s .. s + P(n) - 1
      BY <2>1
    <2>7. \A x \in s + P(k) .. (s + P(k)) + P(k) - 1 : x \notin s .. s + P(o) - 1
      BY <2>1
    <2> QED BY <1>7, <1>8, <2>1, <2>4, <2>5, <2>6, <2>7
  <1>11. ASSUME NEW k \in o .. n - 1, NEW j \in o .. n - 1, k < j
         PROVE  s + 2^k # s + 2^j /\ Block(s + 2^k, k) \cap Block(s + 2^j, j) = {}
    <2>1. P(k) \in Nat \ {0} /\ P(j) \in Nat \ {0} /\ P(k) + P(k) <= P(j)
      BY <1>4, <1>5, <1>6, <1>11
    <2>2. s + P(k) # s + P(j)
      BY <2>1
    <2>3. \A x \in s + P(k) .. (s + P(k)) + P(k) - 1 : x \notin s + P(j) .. (s + P(j)) + P(j) - 1
      BY <2>1
    <2>4. s + 2^k # s + 2^j
      BY <2>2 DEF P
    <2> QED BY <1>8, <2>3, <2>4
  <1>12. ASSUME NEW k \in o .. n - 1, NEW j \in o .. n - 1
         PROVE  /\ s + 2^k = s + 2^j => k = j
                /\ k # j => Block(s + 2^k, k) \cap Block(s + 2^j, j) = {}
    <2>1. k < j \/ j < k \/ k = j
      OBVIOUS
    <2>2. j < k => s + 2^k # s + 2^j /\ Block(s + 2^j, j) \cap Block(s + 2^k, k) = {}
      BY <1>11
    <2> QED BY <1>11, <2>1, <2>2
  <1>13. ASSUME NEW x \in Block(s, n)
         PROVE  x \in Block(s, o) \/ \E k \in o .. n - 1 : x \in Block(s + 2^k, k)
    <2>1. x \in s .. s + P(n) - 1
      BY <1>7
    <2>2. x \in Nat /\ x >= s /\ x < s + P(n)
      BY <1>4, <1>5, <2>1
    <2> DEFINE K == {k \in o .. n : x < s + P(k)}
               j == Min(K)
    <2>3. n \in K /\ K \in SUBSET Nat
      BY <1>4, <2>2
    <2>4. j \in K /\ \A k \in K : j <= k
      <3> HIDE DEF K
      <3> QED BY <2>3, MinNat
    <2> HIDE DEF j
    <2>5. j \in o .. n /\ x < s + P(j)
      BY <2>4
    <2>6. CASE j = o
      <3>1. x \in s .. s + P(o) - 1
        BY <1>4, <1>5, <2>2, <2>5, <2>6
      <3> QED BY <1>7, <3>1
    <2>7. CASE j # o
      <3> DEFINE k == j - 1
      <3>1. k \in o .. n - 1 /\ k \in o .. n /\ k + 1 = j /\ k < j /\ k \in Nat
        BY <2>5, <2>7
      <3>2. ~(x < s + P(k))
        <4>1. k \notin K
          BY <2>4, <3>1
        <4> HIDE DEF k
        <4> QED BY <3>1, <4>1
      <3> HIDE DEF k
      <3>3. P(j) = P(k) + P(k)
        BY <3>1, PowerStep DEF P
      <3>4. P(k) \in Nat \ {0}
        BY <1>5, <3>1
      <3>5. x \in s + P(k) .. (s + P(k)) + P(k) - 1
        BY <2>2, <2>5, <3>2, <3>3, <3>4
      <3> QED BY <1>8, <3>1, <3>5
    <2> QED BY <2>6, <2>7
  <1> QED BY <1>1, <1>9, <1>10, <1>12, <1>13 DEF Divided

\* What buddy_smallest does to the lists and the orders.
LEMMA DivideEffect ==
  ASSUME BuddyTypeOK, BuddyWhole, NEW order \in Orders, NEW nd \in Orders,
         buddy_smallest(order, nd)
  PROVE  \E p \in Pages :
           /\ order <= nd /\ PageFree(p, nd)
           /\ handed' = handed \cup {p} /\ unmarked' = unmarked \cup {p}
           /\ \A k \in order .. nd - 1 : k \in Orders /\ p + 2^k \in Pages
           /\ freeList' \in [Orders -> Seq(Pages)] /\ pageOrder' \in [Pages -> Orders]
           /\ pageOrder'[p] = order
           /\ \A k \in order .. nd - 1 : pageOrder'[p + 2^k] = k
           /\ \A q \in Pages : \/ q = p
                               \/ \E k \in order .. nd - 1 : q = p + 2^k
                               \/ pageOrder'[q] = pageOrder[q]
           /\ ListsOnce'
           /\ \A q \in Pages, n \in Orders :
                PageFree(q, n)' <=> \/ PageFree(q, n) /\ ~(q = p /\ n = nd)
                                    \/ n \in order .. nd - 1 /\ q = p + 2^n
  <1> DEFINE p == Head(freeList[nd])
             L(o) == IF o = nd THEN Tail(freeList[o])
                     ELSE IF o \in order .. nd - 1 THEN Append(freeList[o], p + 2^o)
                     ELSE freeList[o]
             G(q) == IF q = p THEN order
                     ELSE IF \E o \in order .. nd - 1 : q = p + 2^o
                     THEN CHOOSE o \in order .. nd - 1 : q = p + 2^o
                     ELSE pageOrder[q]
  <1>1. /\ nd >= order /\ freeList[nd] # <<>>
        /\ \A o \in order .. nd - 1 : freeList[o] = <<>>
        /\ freeList' = [o \in Orders |-> L(o)]
        /\ pageOrder' = [q \in Pages |-> G(q)]
        /\ handed' = handed \cup {p} /\ unmarked' = unmarked \cup {p}
    BY DEF buddy_smallest
  <1>2. \A o \in Orders : freeList[o] \in Seq(Pages) /\ IsInjective(freeList[o])
    BY DEF BuddyTypeOK, BuddyWhole, ListsOnce
  <1>3. p \in Pages /\ PageFree(p, nd)
    BY <1>1, <1>2, ListFirst DEF PageFree
  <1>4. p \in Nat /\ order \in Nat /\ nd \in Nat /\ order <= nd /\ OrderMax \in Nat /\ nd <= OrderMax
        /\ PageNr \in Nat /\ added \in Nat /\ added <= PageNr /\ p \in Pages
    BY <1>1, <1>3, BuddyAssumption DEF Pages, Orders, BuddyTypeOK
  <1>5. p % 2^nd = 0 /\ p + 2^nd <= added
    BY <1>3 DEF BuddyWhole, BlocksAligned, IsBlock
  <1> HIDE DEF p
  <1>6. \A k \in order .. nd - 1 : k \in Nat /\ k \in Orders /\ k # nd
    BY <1>4 DEF Orders
  <1>7. ASSUME NEW k \in order .. nd - 1
        PROVE  p + 2^k \in Pages /\ p + 2^k # p
    <2>1. k \in Nat /\ k < nd
      BY <1>4
    <2> DEFINE a == 2^k
               b == 2^nd
    <2>2. a + a <= b /\ a \in Nat \ {0} /\ b \in Nat
      BY <1>4, <2>1, PowerMonotone, PowerOfTwo
    <2>3. p + b <= added
      BY <1>5
    <2> HIDE DEF a, b
    <2>4. p + a \in 0 .. PageNr - 1 /\ p + a # p
      BY <1>4, <2>2, <2>3
    <2> QED BY <2>4 DEF a, Pages
  <1>8. \A k, j \in order .. nd - 1 : p + 2^k = p + 2^j => k = j
    <2>1. Divided(p, order, nd)
      BY <1>4, <1>5, Pieces
    <2> QED BY <2>1 DEF Divided
  <1>9. ASSUME NEW o \in Orders
        PROVE  /\ L(o) \in Seq(Pages) /\ IsInjective(L(o))
               /\ o = nd => ToSet(L(o)) = ToSet(freeList[o]) \ {p}
               /\ o \in order .. nd - 1 => ToSet(L(o)) = ToSet(freeList[o]) \cup {p + 2^o}
               /\ o # nd /\ o \notin order .. nd - 1 => ToSet(L(o)) = ToSet(freeList[o])
    <2>1. CASE o = nd
      <3>1. o \notin order .. nd - 1
        BY <1>6, <2>1
      <3>2. /\ Tail(freeList[o]) \in Seq(Pages) /\ IsInjective(Tail(freeList[o]))
            /\ ToSet(Tail(freeList[o])) = ToSet(freeList[o]) \ {p}
        BY <1>1, <1>2, <2>1, ListTail DEF p
      <3>3. L(o) = Tail(freeList[o])
        BY <2>1
      <3> HIDE DEF L
      <3> QED BY <2>1, <3>1, <3>2, <3>3
    <2>2. CASE o \in order .. nd - 1
      <3>1. o # nd
        BY <1>6, <2>2
      <3>2. p + 2^o \notin ToSet(freeList[o])
        BY <1>1, <1>2, <2>2, ListElems
      <3>3. /\ Append(freeList[o], p + 2^o) \in Seq(Pages)
            /\ IsInjective(Append(freeList[o], p + 2^o))
            /\ ToSet(Append(freeList[o], p + 2^o)) = ToSet(freeList[o]) \cup {p + 2^o}
        BY <1>2, <1>7, <2>2, <3>2, ListAddPrev
      <3>4. L(o) = Append(freeList[o], p + 2^o)
        BY <2>2, <3>1
      <3> HIDE DEF L
      <3> QED BY <2>2, <3>1, <3>3, <3>4
    <2>3. CASE o # nd /\ o \notin order .. nd - 1
      <3>1. L(o) = freeList[o]
        BY <2>3
      <3> HIDE DEF L
      <3> QED BY <1>2, <2>3, <3>1
    <2> QED BY <2>1, <2>2, <2>3
  <1>10. \A o \in Orders : freeList'[o] = L(o)
    BY <1>1
  <1> HIDE DEF L
  <1>11. freeList' \in [Orders -> Seq(Pages)] /\ ListsOnce'
    <2>1. freeList' \in [Orders -> Seq(Pages)]
      BY <1>1, <1>9
    <2>2. ListsOnce'
      BY <1>9, <1>10 DEF ListsOnce
    <2> QED BY <2>1, <2>2
  <1>12. ASSUME NEW q \in Pages, NEW n \in Orders
         PROVE  PageFree(q, n)' <=> \/ PageFree(q, n) /\ ~(q = p /\ n = nd)
                                    \/ n \in order .. nd - 1 /\ q = p + 2^n
    <2>1. n \in order .. nd - 1 => n # nd
      BY <1>6
    <2>2. q \in ToSet(freeList'[n]) <=> q \in ToSet(L(n))
      BY <1>10
    <2> QED BY <1>9, <2>1, <2>2 DEF PageFree
  <1>13. G(p) = order
    OBVIOUS
  <1>14. ASSUME NEW k \in order .. nd - 1 PROVE G(p + 2^k) = k
    <2> DEFINE q == p + 2^k
    <2>1. q # p /\ \A j \in order .. nd - 1 : q = p + 2^j => j = k
      BY <1>7, <1>8
    <2>2. q = p + 2^k
      OBVIOUS
    <2> HIDE DEF q
    <2>3. (CHOOSE o \in order .. nd - 1 : q = p + 2^o) \in order .. nd - 1
          /\ q = p + 2^(CHOOSE o \in order .. nd - 1 : q = p + 2^o)
      BY <2>2
    <2>4. (CHOOSE o \in order .. nd - 1 : q = p + 2^o) = k
      BY <2>1, <2>3
    <2>5. G(q) = k
      BY <2>1, <2>2, <2>4
    <2> QED BY <2>2, <2>5
  <1>15. ASSUME NEW q \in Pages, q # p, ~\E k \in order .. nd - 1 : q = p + 2^k
         PROVE  G(q) = pageOrder[q]
    BY <1>15
  <1> HIDE DEF G
  <1>16. \A q \in Pages : pageOrder'[q] = G(q)
    BY <1>1
  <1>17. pageOrder' \in [Pages -> Orders]
    <2>1. pageOrder \in [Pages -> Orders]
      BY DEF BuddyTypeOK
    <2>2. \A q \in Pages : G(q) \in Orders
      BY <1>6, <1>13, <1>14, <1>15, <2>1
    <2> QED BY <1>1, <2>2
  <1> QED BY <1>1, <1>3, <1>4, <1>6, <1>7, <1>11, <1>12, <1>13, <1>14, <1>15, <1>16, <1>17

\* Dividing a free block leaves the pages divided into blocks: its pieces take its
\* place, and the first is the caller's.
LEMMA DivideKeeps ==
  ASSUME BuddyTypeOK, BuddyWhole, NEW order \in Orders, NEW nd \in Orders,
         buddy_smallest(order, nd), added = PageNr, UNCHANGED <<pageType, added>>
  PROVE  /\ BuddyWhole' /\ (MarksInside => MarksInside')
         /\ freeList' \in [Orders -> Seq(Pages)] /\ pageOrder' \in [Pages -> Orders]
         /\ handed' \subseteq Pages /\ unmarked' \subseteq handed'
  <1>0. ListsOnce /\ BlocksAligned /\ BlocksApart /\ BlocksCover /\ OrdersRight /\ PairsMerged
        /\ handed \subseteq Pages /\ unmarked \subseteq handed
        /\ pageOrder \in [Pages -> Orders] /\ PageNr \in Nat
    BY BuddyAssumption DEF BuddyWhole, BuddyTypeOK
  <1>1. PICK p \in Pages :
           /\ order <= nd /\ PageFree(p, nd)
           /\ handed' = handed \cup {p} /\ unmarked' = unmarked \cup {p}
           /\ \A k \in order .. nd - 1 : k \in Orders /\ p + 2^k \in Pages
           /\ freeList' \in [Orders -> Seq(Pages)] /\ pageOrder' \in [Pages -> Orders]
           /\ pageOrder'[p] = order
           /\ \A k \in order .. nd - 1 : pageOrder'[p + 2^k] = k
           /\ \A q \in Pages : \/ q = p
                               \/ \E k \in order .. nd - 1 : q = p + 2^k
                               \/ pageOrder'[q] = pageOrder[q]
           /\ ListsOnce'
           /\ \A q \in Pages, n \in Orders :
                PageFree(q, n)' <=> \/ PageFree(q, n) /\ ~(q = p /\ n = nd)
                                    \/ n \in order .. nd - 1 /\ q = p + 2^n
    BY DivideEffect
  <1> DEFINE Stays(q, n) == IsBlock(q, n) /\ ~(q = p /\ n = nd)
             Piece(q, n) == \/ q = p /\ n = order
                            \/ n \in order .. nd - 1 /\ q = p + 2^n
  <1>2. /\ Pages \subseteq Nat /\ Orders \subseteq Nat /\ p \in Nat /\ order \in Nat /\ nd \in Nat
        /\ order <= nd
    BY <1>0, <1>1, BuddyAssumption DEF Pages, Orders
  <1>3. p % 2^nd = 0 /\ p + 2^nd <= added
    BY <1>0, <1>1 DEF BlocksAligned, IsBlock
  <1>4. /\ p % 2^order = 0 /\ Block(p, order) \subseteq Block(p, nd)
        /\ \A k \in order .. nd - 1 : /\ k \in Nat /\ p + 2^k \in Nat
                                      /\ (p + 2^k) % 2^k = 0
                                      /\ Block(p + 2^k, k) \subseteq Block(p, nd)
                                      /\ Block(p + 2^k, k) \cap Block(p, order) = {}
                                      /\ find_buddy(p + 2^k, k) = p
        /\ \A k, j \in order .. nd - 1 :
             k # j => Block(p + 2^k, k) \cap Block(p + 2^j, j) = {}
        /\ \A x \in Block(p, nd) :
             x \in Block(p, order) \/ \E k \in order .. nd - 1 : x \in Block(p + 2^k, k)
    <2>1. p \in Nat /\ order \in Nat /\ nd \in Nat /\ order <= nd /\ p % 2^nd = 0
      BY <1>2, <1>3
    <2>2. Divided(p, order, nd)
      BY <2>1, Pieces
    <2> QED BY <2>2 DEF Divided
  <1>5. \A q \in Pages, n \in Orders : q \in Block(q, n)
    BY <1>2, BlockFacts
  <1>6. ASSUME NEW q \in Pages, NEW n \in Orders, Stays(q, n)
        PROVE  Block(q, n) \cap Block(p, nd) = {}
    BY <1>0, <1>1, <1>6 DEF BlocksApart, IsBlock
  <1>7. ASSUME NEW q \in Pages, NEW n \in Orders, Piece(q, n)
        PROVE  /\ q % 2^n = 0 /\ Block(q, n) \subseteq Block(p, nd) /\ q \in Block(p, nd)
               /\ pageOrder'[q] = n
    <2>1. q % 2^n = 0 /\ Block(q, n) \subseteq Block(p, nd) /\ pageOrder'[q] = n
      BY <1>1, <1>4, <1>7
    <2> QED BY <1>5, <2>1
  <1>8. \A q \in Pages : q \notin Block(p, nd) => q # p /\ pageOrder'[q] = pageOrder[q]
    <2> SUFFICES ASSUME NEW q \in Pages, q \notin Block(p, nd)
                 PROVE  q # p /\ pageOrder'[q] = pageOrder[q]
      OBVIOUS
    <2>1. q # p
      BY <1>5
    <2>2. \A k \in order .. nd - 1 : q # p + 2^k
      BY <1>1, <1>4, <1>5
    <2> QED BY <1>1, <2>1, <2>2
  <1>9. p \notin handed
    <2> SUFFICES ASSUME p \in handed PROVE FALSE
      OBVIOUS
    <2>1. PageHeld(p, pageOrder[p]) /\ pageOrder[p] = nd
      BY <1>0, <1>1 DEF PageHeld, OrdersRight
    <2> QED BY <1>0, <1>1, <2>1 DEF BlocksApart
  <1>10. \A q \in handed : q \notin Block(p, nd)
    <2> SUFFICES ASSUME NEW q \in handed, q \in Block(p, nd) PROVE FALSE
      OBVIOUS
    <2>1. q \in Pages /\ pageOrder[q] \in Orders
      BY <1>0
    <2>2. Stays(q, pageOrder[q])
      BY <1>9 DEF IsBlock, PageHeld
    <2> QED BY <1>5, <1>6, <2>1, <2>2
  <1>11. ASSUME NEW q \in Pages, NEW n \in Orders
         PROVE  /\ PageHeld(q, n)' <=> PageHeld(q, n) \/ (q = p /\ n = order)
                /\ IsBlock(q, n)' <=> Stays(q, n) \/ Piece(q, n)
    <2>1. PageHeld(q, n)' <=> PageHeld(q, n) \/ (q = p /\ n = order)
      BY <1>1, <1>8, <1>9, <1>10 DEF PageHeld
    <2>2. PageHeld(q, n) => q # p
      BY <1>9 DEF PageHeld
    <2> QED BY <1>1, <2>1, <2>2 DEF IsBlock
  <1> HIDE DEF Stays, Piece
  <1>12. \A q \in Pages, n \in Orders : Stays(q, n) => q \notin Block(p, nd) /\ IsBlock(q, n)
    BY <1>5, <1>6 DEF Stays
  <1>13. BlocksAligned'
    <2> SUFFICES ASSUME NEW q \in Pages, NEW n \in Orders, IsBlock(q, n)'
                 PROVE  q % 2^n = 0 /\ q + 2^n <= added
      BY DEF BlocksAligned
    <2>1. CASE Stays(q, n)
      BY <1>0, <1>12, <2>1 DEF BlocksAligned
    <2>2. CASE Piece(q, n)
      <3>1. q % 2^n = 0
        BY <1>7, <2>2
      <3>2. q + 2^n - 1 \in Block(q, n) /\ q \in Nat /\ 2^n \in Nat
        BY <1>2, BlockFacts
      <3>3. q + 2^n - 1 \in Block(p, nd)
        BY <1>7, <2>2, <3>2
      <3>4. q + 2^n - 1 <= p + 2^nd - 1 /\ 2^nd \in Nat
        BY <1>2, <3>3, BlockFacts DEF Block
      <3> QED BY <1>0, <1>2, <1>3, <3>1, <3>2, <3>4
    <2> QED BY <1>11, <2>1, <2>2
  <1>14. BlocksApart'
    <2>1. ASSUME NEW q \in Pages, NEW r \in Pages, NEW n \in Orders, NEW i \in Orders,
                 IsBlock(q, n)', IsBlock(r, i)', Block(q, n) \cap Block(r, i) # {}
          PROVE  q = r /\ n = i
      <3>1. CASE Stays(q, n) /\ Stays(r, i)
        BY <1>0, <1>12, <2>1, <3>1 DEF BlocksApart
      <3>2. CASE Stays(q, n) /\ Piece(r, i)
        BY <1>6, <1>7, <2>1, <3>2
      <3>3. CASE Piece(q, n) /\ Stays(r, i)
        BY <1>6, <1>7, <2>1, <3>3
      <3>4. CASE Piece(q, n) /\ Piece(r, i)
        BY <1>4, <2>1, <3>4 DEF Piece
      <3> QED BY <1>11, <2>1, <3>1, <3>2, <3>3, <3>4
    <2>2. ASSUME NEW q \in Pages, NEW n \in Orders, PageFree(q, n)', PageHeld(q, n)'
          PROVE  FALSE
      <3>1. CASE q = p /\ n = order
        <4>1. PageFree(p, order) /\ order # nd
          <5>1. ~(order \in order .. nd - 1 /\ p = p + 2^order)
            BY <1>2, BlockFacts
          <5> QED BY <1>1, <2>2, <3>1, <5>1
        <4>2. Stays(p, order)
          BY <4>1 DEF Stays, IsBlock
        <4> QED BY <1>5, <1>12, <4>2
      <3>2. CASE PageHeld(q, n)
        <4>1. q \notin Block(p, nd)
          BY <1>10, <3>2 DEF PageHeld
        <4>2. PageFree(q, n)
          <5>1. ~(n \in order .. nd - 1 /\ q = p + 2^n)
            BY <1>7, <4>1 DEF Piece
          <5> QED BY <1>1, <2>2, <5>1
        <4> QED BY <1>0, <3>2, <4>2 DEF BlocksApart
      <3> QED BY <1>11, <2>2, <3>1, <3>2
    <2>3. \A q, r \in Pages, n, i \in Orders :
            IsBlock(q, n)' /\ IsBlock(r, i)' /\ Block(q, n) \cap Block(r, i) # {} => q = r /\ n = i
      BY <2>1
    <2> QED BY <2>2, <2>3 DEF BlocksApart, Block
  <1>15. ASSUME NEW x \in Block(p, nd)
         PROVE  \E q \in Pages, n \in Orders : Piece(q, n) /\ x \in Block(q, n)
    <2>1. CASE x \in Block(p, order)
      BY <2>1 DEF Piece
    <2>2. CASE \E k \in order .. nd - 1 : x \in Block(p + 2^k, k)
      BY <1>1, <2>2 DEF Piece
    <2> QED BY <1>4, <2>1, <2>2
  <1>16. BlocksCover'
    <2> SUFFICES ASSUME NEW x \in 0 .. added - 1
                 PROVE  \E q \in Pages, n \in Orders : IsBlock(q, n)' /\ x \in Block(q, n)
      BY DEF BlocksCover, Block
    <2>1. CASE x \in Block(p, nd)
      BY <1>11, <1>15, <2>1
    <2>2. CASE x \notin Block(p, nd)
      <3>1. PICK q \in Pages, n \in Orders : IsBlock(q, n) /\ x \in Block(q, n)
        BY <1>0 DEF BlocksCover
      <3>2. Stays(q, n)
        BY <2>2, <3>1 DEF Stays
      <3> QED BY <1>11, <3>1, <3>2
    <2> QED BY <2>1, <2>2
  <1>17. OrdersRight'
    <2>1. ASSUME NEW q \in Pages, NEW n \in Orders, PageFree(q, n)' PROVE pageOrder'[q] = n
      <3>1. CASE n \in order .. nd - 1 /\ q = p + 2^n
        BY <1>1, <3>1
      <3>2. CASE PageFree(q, n) /\ ~(q = p /\ n = nd)
        <4>1. q \notin Block(p, nd)
          BY <1>12, <3>2 DEF Stays, IsBlock
        <4> QED BY <1>0, <1>8, <3>2, <4>1 DEF OrdersRight
      <3> QED BY <1>1, <2>1, <3>1, <3>2
    <2>2. ASSUME NEW q \in Pages PROVE q % 2^(pageOrder'[q]) = 0
      <3>1. CASE q = p
        BY <1>1, <1>4, <3>1
      <3>2. CASE \E k \in order .. nd - 1 : q = p + 2^k
        BY <1>1, <1>4, <3>2
      <3>3. CASE pageOrder'[q] = pageOrder[q]
        BY <1>0, <3>3 DEF OrdersRight
      <3> QED BY <1>1, <3>1, <3>2, <3>3
    <2> QED BY <2>1, <2>2 DEF OrdersRight
  <1>18. ASSUME NEW n \in Orders PROVE ~PageFree(p, n)'
    <2> SUFFICES ASSUME PageFree(p, n)' PROVE FALSE
      OBVIOUS
    <2>1. ~(n \in order .. nd - 1 /\ p = p + 2^n)
      BY <1>2, BlockFacts
    <2>2. Stays(p, n)
      BY <1>1, <2>1 DEF Stays, IsBlock
    <2> QED BY <1>5, <1>12, <2>2
  <1>19. PairsMerged'
    <2> SUFFICES ASSUME NEW q \in Pages, NEW r \in Pages, NEW n \in Orders, n < OrderMax,
                        PageFree(q, n)', PageFree(r, n)', r = find_buddy(q, n),
                        pageType[q] = "free", pageType[r] = "free"
                 PROVE  FALSE
      BY DEF PairsMerged, find_buddy
    <2>1. q = find_buddy(r, n)
      <3>1. q \in Nat /\ n \in Nat /\ q % 2^n = 0
        BY <1>2, <1>13 DEF BlocksAligned, IsBlock
      <3> QED BY <3>1, BuddyOfBuddy
    <2>2. q # p /\ r # p
      BY <1>18
    <2>3. PageFree(q, n) /\ PageFree(r, n)
      <3>1. ~(n \in order .. nd - 1 /\ q = p + 2^n)
        BY <1>4, <2>2
      <3>2. ~(n \in order .. nd - 1 /\ r = p + 2^n)
        BY <1>4, <2>1, <2>2
      <3> QED BY <1>1, <3>1, <3>2
    <2> QED BY <1>0, <2>3 DEF PairsMerged
  <1>20. ASSUME MarksInside PROVE MarksInside'
    <2> SUFFICES ASSUME NEW q \in Pages, pageType[q] = "free"
                 PROVE  \/ q \in ToSet(freeList'[pageOrder'[q]])
                        \/ q \in unmarked'
                        \/ \E r \in Pages, n \in Orders : IsBlock(r, n)' /\ q \in Block(r, n) /\ q # r
      BY DEF MarksInside, Block, PageFree
    <2>1. CASE q \in unmarked \/ q = p
      BY <1>1, <2>1
    <2>2. CASE q \in Block(p, nd) /\ q # p
      <3>1. PICK r \in Pages, n \in Orders : Piece(r, n) /\ q \in Block(r, n)
        BY <1>15, <2>2
      <3>2. CASE q # r
        BY <1>11, <3>1, <3>2
      <3>3. CASE q = r
        <4>1. n \in order .. nd - 1 /\ q = p + 2^n /\ pageOrder'[q] = n
          BY <1>7, <2>2, <3>1, <3>3 DEF Piece
        <4>2. q \in ToSet(freeList'[n])
          BY <1>1, <4>1 DEF PageFree
        <4> QED BY <4>1, <4>2
      <3> QED BY <3>2, <3>3
    <2>3. CASE q \notin Block(p, nd)
      <3>1. q # p /\ pageOrder'[q] = pageOrder[q] /\ pageOrder[q] \in Orders
        BY <1>0, <1>8, <2>3
      <3>2. CASE PageFree(q, pageOrder[q])
        <4> DEFINE i == pageOrder[q]
        <4>1. i \in Orders /\ PageFree(q, i)
          BY <3>1, <3>2
        <4> HIDE DEF i
        <4>2. q \in ToSet(freeList'[i])
          BY <1>1, <3>1, <4>1 DEF PageFree
        <4> QED BY <3>1, <4>2 DEF i
      <3>3. CASE \E r \in Pages, n \in Orders : IsBlock(r, n) /\ q \in Block(r, n) /\ q # r
        <4>1. PICK r \in Pages, n \in Orders : IsBlock(r, n) /\ q \in Block(r, n) /\ q # r
          BY <3>3
        <4>2. Stays(r, n)
          BY <2>3, <4>1 DEF Stays
        <4> QED BY <1>11, <4>1, <4>2
      <3> QED BY <1>1, <1>20, <3>2, <3>3 DEF MarksInside
    <2> QED BY <2>1, <2>2, <2>3
  <1>21. added' < PageNr => handed' = {}
    BY <1>0
  <1>22. handed' \subseteq Pages /\ unmarked' \subseteq handed'
    BY <1>0, <1>1
  <1> QED BY <1>1, <1>13, <1>14, <1>16, <1>17, <1>19, <1>20, <1>21, <1>22 DEF BuddyWhole

-----------------------------------------------------------------------------
(* The page allocator's steps *)

LEMMA BuddyStarts == BuddyInit => BuddyInv
  <1> SUFFICES ASSUME BuddyInit PROVE BuddyInv
    OBVIOUS
  <1>1. /\ pageType = [p \in Pages |-> "uninit"] /\ pageOrder = [p \in Pages |-> 0]
        /\ freeList = [o \in Orders |-> <<>>]
        /\ handed = {} /\ unmarked = {} /\ added = 0 /\ raced = FALSE /\ badDel = FALSE
    BY DEF BuddyInit
  <1>2. PageNr \in Nat \ {0} /\ OrderMax \in Nat /\ 0 \in Orders /\ 0 \in 0 .. PageNr
        /\ Pages \subseteq Nat
    BY BuddyAssumption DEF Orders, Pages
  <1>3. BuddyTypeOK
    <2>1. <<>> \in Seq(Pages)
      OBVIOUS
    <2> QED BY <1>1, <1>2, <2>1 DEF BuddyTypeOK
  <1>4. \A p \in Pages, o \in Orders : ~PageFree(p, o) /\ ~PageHeld(p, o)
    BY <1>1 DEF PageFree, PageHeld, ToSet
  <1>5. ListsOnce
    BY <1>1 DEF ListsOnce, IsInjective
  <1>6. BlocksAligned /\ BlocksApart /\ PairsMerged
    BY <1>4 DEF BlocksAligned, BlocksApart, PairsMerged, IsBlock
  <1>7. BlocksCover
    BY <1>1 DEF BlocksCover
  <1>8. OrdersRight
    <2>1. \A p \in Pages : p % 2^0 = 0
      <3>1. \A p \in Pages : p \in Nat /\ p % 1 = 0
        BY <1>2
      <3> QED BY <3>1, PowerZero
    <2> QED BY <1>1, <1>4, <2>1 DEF OrdersRight
  <1>9. MarksInside
    BY <1>1 DEF MarksInside
  <1> QED BY <1>1, <1>3, <1>5, <1>6, <1>7, <1>8, <1>9 DEF BuddyInv, BuddyWhole

\* Types through a merge.
LEMMA MergeTypes ==
  ASSUME BuddyTypeOK, ListsOnce, NEW p \in Pages, NEW o \in Orders, buddy_merge(p, o)
  PROVE  /\ freeList' \in [Orders -> Seq(Pages)] /\ badDel' \in BOOLEAN
         /\ pageType' \in [Pages -> {"uninit", "free", "used"}]
         /\ pageOrder' \in [Pages -> Orders]
  <1>1. PICK m \in Orders :
          /\ badDel' \in BOOLEAN
          /\ freeList' \in [Orders -> Seq(Pages)]
          /\ pageType' = [pageType EXCEPT ![Start(p, m)] = "free"]
          /\ pageOrder' = [pageOrder EXCEPT ![Start(p, m)] = m]
    BY MergeEffect
  <1> QED BY <1>1 DEF BuddyTypeOK

LEMMA AddKeeps ==
  ASSUME BuddyInv, ~badDel, page_add
  PROVE  BuddyInv'
  <1>1. BuddyTypeOK /\ BuddyWhole /\ (~raced => MarksInside)
    BY DEF BuddyInv
  <1>2. /\ added < PageNr /\ buddy_merge(added, 0) /\ added' = added + 1
        /\ handed' = handed /\ unmarked' = unmarked /\ raced' = raced
    BY DEF page_add
  <1>3. /\ PageNr \in Nat /\ added \in Nat /\ added \in Pages /\ 0 \in Orders
        /\ added' \in 0 .. PageNr /\ added' \in Nat /\ added' >= added
    BY <1>1, <1>2, BuddyAssumption DEF BuddyTypeOK, Pages, Orders
  <1>4. handed = {} /\ unmarked = {}
    BY <1>1, <1>2 DEF BuddyWhole, BuddyTypeOK
  <1>5. \A x : x \in Block(added, 0) <=> x = added
    <2>1. Block(added, 0) = added .. added + 1 - 1
      BY PowerZero DEF Block
    <2> QED BY <1>3, <2>1
  <1>6. added % 2^0 = 0
    <2>1. added % 1 = 0
      BY <1>3
    <2> QED BY <2>1, PowerZero
  <1>7. ASSUME NEW q \in Pages, NEW n \in Orders, IsBlock(q, n), added \in Block(q, n)
        PROVE  FALSE
    <2>1. q + 2^n <= added
      BY <1>1, <1>7 DEF BuddyWhole, BlocksAligned
    <2>2. q \in Nat /\ n \in Nat
      BY DEF Pages, Orders
    <2>3. 2^n \in Nat
      BY <2>2, PowerOfTwo
    <2>4. added < q + 2^n
      BY <1>3, <1>7, <2>2, <2>3 DEF Block
    <2> QED BY <1>3, <2>1, <2>2, <2>3, <2>4
  <1>8. ~PageFree(added, 0)
    BY <1>3, <1>5, <1>7 DEF IsBlock
  <1>9. \A q \in Pages, n \in Orders :
          IsBlock(q, n) /\ Block(q, n) \cap Block(added, 0) # {} => q = added /\ n = 0
    BY <1>5, <1>7
  <1>10. \A x \in Nat : x < added' <=> x < added \/ x \in Block(added, 0)
    <2>1. \A x \in Nat : x < added + 1 <=> x < added \/ x = added
      BY <1>3
    <2> QED BY <1>2, <1>5, <2>1
  <1>11. handed' = handed \ {added}
    BY <1>2, <1>4
  <1>12. /\ ~badDel' => BuddyWhole'
         /\ MarksInside /\ unmarked = {} => ~badDel' /\ (unmarked' = {} => MarksInside')
    BY <1>1, <1>2, <1>3, <1>6, <1>8, <1>9, <1>10, <1>11, MergeKeeps
  <1>13. BuddyTypeOK'
    <2>1. ListsOnce
      BY <1>1 DEF BuddyWhole
    <2>2. /\ freeList' \in [Orders -> Seq(Pages)] /\ badDel' \in BOOLEAN
          /\ pageType' \in [Pages -> {"uninit", "free", "used"}]
          /\ pageOrder' \in [Pages -> Orders]
      BY <1>1, <1>2, <1>3, <2>1, MergeTypes
    <2> QED BY <1>1, <1>2, <1>3, <2>2 DEF BuddyTypeOK
  <1> QED BY <1>1, <1>2, <1>4, <1>12, <1>13 DEF BuddyInv

LEMMA FreeKeeps ==
  ASSUME BuddyInv, ~badDel, NEW p \in Pages, page_free(p)
  PROVE  BuddyInv'
  <1>1. BuddyTypeOK /\ BuddyWhole /\ (~raced => MarksInside)
    BY DEF BuddyInv
  <1> DEFINE o == pageOrder[p]
  <1>2. /\ p \in handed \ unmarked /\ buddy_merge(p, o) /\ handed' = handed \ {p}
        /\ raced' = (raced \/ unmarked # {}) /\ unmarked' = unmarked /\ added' = added
    BY DEF page_free
  <1>3. o \in Orders /\ PageHeld(p, o)
    BY <1>1, <1>2 DEF BuddyTypeOK, PageHeld
  <1> HIDE DEF o
  <1>4. PageNr \in Nat /\ added \in Nat /\ added' \in Nat /\ added' >= added
    BY <1>1, <1>2, BuddyAssumption DEF BuddyTypeOK
  <1>5. p % 2^o = 0 /\ p + 2^o <= added
    BY <1>1, <1>3 DEF BuddyWhole, BlocksAligned, IsBlock
  <1>6. ~PageFree(p, o)
    BY <1>1, <1>3 DEF BuddyWhole, BlocksApart
  <1>7. \A q \in Pages, n \in Orders :
          IsBlock(q, n) /\ Block(q, n) \cap Block(p, o) # {} => q = p /\ n = o
    BY <1>1, <1>3 DEF BuddyWhole, BlocksApart, IsBlock
  <1>8. \A x \in Nat : x < added' <=> x < added \/ x \in Block(p, o)
    <2>1. p \in Nat /\ o \in Nat
      BY <1>3 DEF Pages, Orders
    <2> DEFINE g == 2^o
    <2>2. g \in Nat
      BY <2>1, PowerOfTwo
    <2>3. p + g <= added
      BY <1>5
    <2> HIDE DEF g
    <2>4. \A x \in p .. p + g - 1 : x < added
      BY <1>4, <2>1, <2>2, <2>3
    <2> QED BY <1>2, <2>4 DEF g, Block
  <1>9. /\ ~badDel' => BuddyWhole'
        /\ MarksInside /\ unmarked = {} => ~badDel' /\ (unmarked' = {} => MarksInside')
    BY <1>1, <1>2, <1>3, <1>4, <1>5, <1>6, <1>7, <1>8, MergeKeeps
  <1>10. BuddyTypeOK'
    <2>1. ListsOnce
      BY <1>1 DEF BuddyWhole
    <2>2. /\ freeList' \in [Orders -> Seq(Pages)] /\ badDel' \in BOOLEAN
          /\ pageType' \in [Pages -> {"uninit", "free", "used"}]
          /\ pageOrder' \in [Pages -> Orders]
      BY <1>1, <1>2, <1>3, <2>1, MergeTypes
    <2> QED BY <1>1, <1>2, <2>2 DEF BuddyTypeOK
  <1> QED BY <1>1, <1>2, <1>9, <1>10 DEF BuddyInv

LEMMA AllocKeeps ==
  ASSUME BuddyInv, ~badDel, NEW order \in Orders, page_alloc(order)
  PROVE  BuddyInv'
  <1>1. BuddyTypeOK /\ BuddyWhole /\ (~raced => MarksInside)
    BY DEF BuddyInv
  <1>2. /\ added = PageNr /\ UNCHANGED <<pageType, added>>
        /\ raced' = raced /\ badDel' = badDel
    BY DEF page_alloc
  <1>3. PICK nd \in Orders : buddy_smallest(order, nd)
    BY DEF page_alloc
  <1>4. /\ BuddyWhole' /\ (MarksInside => MarksInside')
        /\ freeList' \in [Orders -> Seq(Pages)] /\ pageOrder' \in [Pages -> Orders]
        /\ handed' \subseteq Pages /\ unmarked' \subseteq handed'
    BY <1>1, <1>2, <1>3, DivideKeeps
  <1>5. BuddyTypeOK'
    BY <1>1, <1>2, <1>4 DEF BuddyTypeOK
  <1> QED BY <1>1, <1>2, <1>4, <1>5 DEF BuddyInv

LEMMA MarkKeeps ==
  ASSUME BuddyInv, ~badDel, NEW p \in Pages, page_mark(p)
  PROVE  BuddyInv'
  <1>1. BuddyTypeOK /\ BuddyWhole /\ (~raced => MarksInside)
    BY DEF BuddyInv
  <1>2. /\ p \in unmarked /\ pageType' = [pageType EXCEPT ![p] = "used"]
        /\ unmarked' = unmarked \ {p}
        /\ pageOrder' = pageOrder /\ freeList' = freeList /\ handed' = handed /\ added' = added
        /\ raced' = raced /\ badDel' = badDel
    BY DEF page_mark
  <1>3. BuddyTypeOK'
    BY <1>1, <1>2 DEF BuddyTypeOK
  <1>4. /\ pageType'[p] = "used"
        /\ \A q \in Pages : q # p => pageType'[q] = pageType[q]
    BY <1>1, <1>2 DEF BuddyTypeOK
  <1>5. /\ ListsOnce' /\ BlocksAligned' /\ BlocksApart' /\ BlocksCover' /\ OrdersRight'
        /\ (added' < PageNr => handed' = {})
    BY <1>1, <1>2 DEF BuddyWhole, ListsOnce, BlocksAligned, BlocksApart, BlocksCover,
                      OrdersRight, IsBlock, PageFree, PageHeld, Block
  <1>6. PairsMerged'
    <2>1. \A q, r \in Pages, o \in Orders :
            o < OrderMax /\ PageFree(q, o) /\ PageFree(r, o) /\ r = find_buddy(q, o)
              => ~(pageType'[q] = "free" /\ pageType'[r] = "free")
      BY <1>1, <1>4 DEF BuddyWhole, PairsMerged
    <2> QED BY <1>2, <2>1 DEF PairsMerged, PageFree, find_buddy
  <1>7. ASSUME MarksInside PROVE MarksInside'
    <2>1. \A q \in Pages : pageType'[q] = "free" =>
            \/ PageFree(q, pageOrder[q])
            \/ q \in unmarked'
            \/ \E r \in Pages, o \in Orders : IsBlock(r, o) /\ q \in Block(r, o) /\ q # r
      BY <1>2, <1>4, <1>7 DEF MarksInside
    <2> QED BY <1>2, <2>1 DEF MarksInside, IsBlock, PageFree, PageHeld, Block
  <1> QED BY <1>1, <1>2, <1>3, <1>5, <1>6, <1>7 DEF BuddyInv, BuddyWhole

LEMMA BuddyStep == BuddyInv /\ [BuddyNext]_buddyVars => BuddyInv'
  <1> SUFFICES ASSUME BuddyInv, [BuddyNext]_buddyVars PROVE BuddyInv'
    OBVIOUS
  <1>1. CASE ~badDel /\ page_add
    BY <1>1, AddKeeps
  <1>2. ASSUME ~badDel, NEW order \in Orders, page_alloc(order) PROVE BuddyInv'
    BY <1>2, AllocKeeps
  <1>3. ASSUME ~badDel, NEW p \in Pages, page_mark(p) PROVE BuddyInv'
    BY <1>3, MarkKeeps
  <1>4. ASSUME ~badDel, NEW p \in Pages, page_free(p) PROVE BuddyInv'
    BY <1>4, FreeKeeps
  <1>5. CASE UNCHANGED buddyVars
    <2>1. BuddyTypeOK' <=> BuddyTypeOK
      BY <1>5 DEF buddyVars, BuddyTypeOK
    <2>2. /\ ListsOnce' <=> ListsOnce
          /\ OrdersRight' <=> OrdersRight
      BY <1>5 DEF buddyVars, ListsOnce, OrdersRight, PageFree
    <2>3. /\ BlocksAligned' <=> BlocksAligned
          /\ BlocksCover' <=> BlocksCover
      BY <1>5 DEF buddyVars, BlocksAligned, BlocksCover, IsBlock, PageFree, PageHeld, Block
    <2>4. BlocksApart' <=> BlocksApart
      BY <1>5 DEF buddyVars, BlocksApart, IsBlock, PageFree, PageHeld, Block
    <2>5. PairsMerged' <=> PairsMerged
      BY <1>5 DEF buddyVars, PairsMerged, PageFree, find_buddy
    <2>6. MarksInside' <=> MarksInside
      BY <1>5 DEF buddyVars, MarksInside, IsBlock, PageFree, PageHeld, Block
    <2>7. badDel' = badDel /\ raced' = raced /\ added' = added /\ handed' = handed
      BY <1>5 DEF buddyVars
    <2>8. BuddyWhole' <=> BuddyWhole
      BY <2>2, <2>3, <2>4, <2>5, <2>7 DEF BuddyWhole
    <2> QED BY <2>1, <2>6, <2>7, <2>8 DEF BuddyInv
  <1> QED BY <1>1, <1>2, <1>3, <1>4, <1>5 DEF BuddyNext

LEMMA BuddyAlways == BuddySpec => []BuddyInv
  BY BuddyStarts, BuddyStep, PTL DEF BuddySpec

\* Every variable of the page allocator keeps its type through every split and
\* merge, the list_del that finds no entry included.
THEOREM BuddyTypesHold == BuddySpec => []BuddyTypeOK
  <1>1. BuddyInv => BuddyTypeOK
    BY DEF BuddyInv
  <1> QED BY <1>1, BuddyAlways, PTL

\* Whatever is allocated, marked and released in whatever order, list_del finds what
\* buddy_merge takes from a list as long as nothing is released while another block
\* is not yet marked.
THEOREM MergeFindsBuddies == BuddySpec => [](~raced => ~badDel)
  <1>1. BuddyInv => (~raced => ~badDel)
    BY DEF BuddyInv
  <1> QED BY <1>1, BuddyAlways, PTL

\* A page is in one block, free or held, and in no two.
LEMMA OneBlock ==
  ASSUME BuddyTypeOK, BuddyWhole
  PROVE  \A p \in 0 .. added - 1 :
           Cardinality({b \in FreeBlocks \cup HandedBlocks : p \in Block(b[1], b[2])}) = 1
  <1> SUFFICES ASSUME NEW p \in 0 .. added - 1
               PROVE  Cardinality({b \in FreeBlocks \cup HandedBlocks :
                                     p \in Block(b[1], b[2])}) = 1
    OBVIOUS
  <1> DEFINE B == FreeBlocks \cup HandedBlocks
  <1>1. ASSUME NEW q \in Pages, NEW o \in Orders PROVE <<q, o>> \in B <=> IsBlock(q, o)
    <2>1. Contains(freeList[o], q) <=> PageFree(q, o)
      BY DEF Contains, PageFree, ToSet, BuddyTypeOK
    <2>2. <<q, o>> \in FreeBlocks <=> PageFree(q, o)
      BY <2>1 DEF FreeBlocks
    <2>3. <<q, o>> \in HandedBlocks <=> PageHeld(q, o)
      BY DEF HandedBlocks, PageHeld
    <2> QED BY <2>2, <2>3 DEF IsBlock
  <1>2. \A b \in B : b \in Pages \X Orders
    BY DEF FreeBlocks, HandedBlocks, BuddyTypeOK
  <1>3. PICK q \in Pages, o \in Orders : IsBlock(q, o) /\ p \in Block(q, o)
    BY DEF BuddyWhole, BlocksCover
  <1>4. ASSUME NEW b \in B, p \in Block(b[1], b[2]) PROVE b = <<q, o>>
    <2>1. b[1] \in Pages /\ b[2] \in Orders /\ b = <<b[1], b[2]>>
      BY <1>2
    <2>2. IsBlock(b[1], b[2])
      BY <1>1, <2>1
    <2>3. b[1] = q /\ b[2] = o
      BY <1>3, <1>4, <2>1, <2>2 DEF BuddyWhole, BlocksApart
    <2> QED BY <2>1, <2>3
  <1>5. <<q, o>> \in B
    BY <1>1, <1>3
  <1>6. {b \in B : p \in Block(b[1], b[2])} = {<<q, o>>}
    BY <1>3, <1>4, <1>5
  <1> QED BY <1>6, FS_Singleton

\* As long as no block is released while another is unmarked, every page added is in
\* exactly one block, free or handed out, for every number of pages and of orders.
THEOREM PagesOnce == BuddySpec => []EachPageOnce
  <1>1. BuddyInv => EachPageOnce
    BY OneBlock DEF BuddyInv, EachPageOnce
  <1> QED BY <1>1, BuddyAlways, PTL

\* Two free buddies that are both marked free are never left apart.
THEOREM MarkedMerge == BuddySpec => []MarkedPairsMerge
  <1>1. BuddyInv => MarkedPairsMerge
    <2> SUFFICES ASSUME BuddyTypeOK, BuddyWhole, NEW b \in FreeBlocks, b[2] < OrderMax,
                        pageType[b[1]] = "free",
                        <<find_buddy(b[1], b[2]), b[2]>> \in FreeBlocks,
                        check_buddy(find_buddy(b[1], b[2]), b[2])
                 PROVE  FALSE
      BY DEF BuddyInv, MarkedPairsMerge
    <2> DEFINE p == b[1]
               o == b[2]
               q == find_buddy(p, o)
    <2>1. /\ p \in Pages /\ o \in Orders /\ q \in Pages
          /\ Contains(freeList[o], p) /\ Contains(freeList[o], q)
      BY DEF FreeBlocks
    <2>2. PageFree(p, o) /\ PageFree(q, o)
      BY <2>1 DEF Contains, PageFree, ToSet, BuddyTypeOK
    <2>3. pageType[q] = "free"
      BY DEF check_buddy
    <2> QED BY <2>1, <2>2, <2>3 DEF BuddyWhole, PairsMerged
  <1> QED BY <1>1, BuddyAlways, PTL

=============================================================================
