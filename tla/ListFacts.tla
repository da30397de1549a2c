------------------------------ MODULE ListFacts ------------------------------
(***************************************************************************)
(* Facts about struct list_head (include/list.h) seen as a sequence of     *)
(* entries without repetition: what list_del, list_add_prev and            *)
(* list_move_prev do to the entries and to their number.  At the end, the  *)
(* facts about numbers that more than one of the proofs needs.             *)
(***************************************************************************)
EXTENDS Integers, SequencesExt, SequenceTheorems, FiniteSetTheorems,
        WellFoundedInduction, TLAPS

\* RemoveAt, position by position.
LEMMA RemoveAtExplicit ==
  ASSUME NEW S, NEW s \in Seq(S), NEW k \in 1 .. Len(s)
  PROVE  /\ RemoveAt(s, k) \in Seq(S)
         /\ Len(RemoveAt(s, k)) = Len(s) - 1
         /\ \A i \in 1 .. (Len(s) - 1) :
              RemoveAt(s, k)[i] = IF i < k THEN s[i] ELSE s[i + 1]
<1>. DEFINE a == SubSeq(s, 1, k - 1)
            b == SubSeq(s, k + 1, Len(s))
<1>1. /\ a \in Seq(S) /\ Len(a) = k - 1
      /\ \A i \in 1 .. (k - 1) : a[i] = s[i]
  OBVIOUS
<1>2. /\ b \in Seq(S) /\ Len(b) = Len(s) - k
      /\ \A i \in 1 .. (Len(s) - k) : b[i] = s[k + i]
  OBVIOUS
<1>. HIDE DEF a, b
<1>3. /\ a \o b \in Seq(S) /\ Len(a \o b) = Len(s) - 1
      /\ \A i \in 1 .. (Len(s) - 1) : (a \o b)[i] = IF i < k THEN s[i] ELSE s[i + 1]
  <2>1. a \o b \in Seq(S) /\ Len(a \o b) = Len(s) - 1
    <3>1. a \o b \in Seq(S) /\ Len(a \o b) = Len(a) + Len(b)
      BY <1>1, <1>2, ConcatProperties
    <3>2. (k - 1) + (Len(s) - k) = Len(s) - 1
      OBVIOUS
    <3>. QED BY <1>1, <1>2, <3>1, <3>2
  <2>2. ASSUME NEW i \in 1 .. (Len(s) - 1), i < k
        PROVE  (a \o b)[i] = s[i]
    BY <1>1, <1>2, <2>2
  <2>3. ASSUME NEW i \in 1 .. (Len(s) - 1), ~(i < k)
        PROVE  (a \o b)[i] = s[i + 1]
    <3>1. (a \o b)[i] = b[i - (k - 1)]
      BY <1>1, <1>2, <2>3
    <3>2. i - (k - 1) \in 1 .. (Len(s) - k) /\ k + (i - (k - 1)) = i + 1
      BY <2>3
    <3>. QED BY <3>1, <3>2, <1>2
  <2>. QED BY <2>1, <2>2, <2>3
<1>4. RemoveAt(s, k) = a \o b
  BY DEF RemoveAt, a, b
<1>. QED BY <1>3, <1>4

\* InsertAt, position by position.
LEMMA InsertAtExplicit ==
  ASSUME NEW S, NEW s \in Seq(S), NEW x \in S, NEW p \in 1 .. (Len(s) + 1)
  PROVE  /\ InsertAt(s, p, x) \in Seq(S)
         /\ Len(InsertAt(s, p, x)) = Len(s) + 1
         /\ \A i \in 1 .. (Len(s) + 1) :
              InsertAt(s, p, x)[i] = IF i < p THEN s[i] ELSE IF i = p THEN x ELSE s[i - 1]
<1> DEFINE a == SubSeq(s, 1, p - 1)
           b == SubSeq(s, p, Len(s))
           c == a \o <<x>>
<1>1. a \in Seq(S) /\ Len(a) = p - 1 /\ \A i \in 1 .. (p - 1) : a[i] = s[i]
  OBVIOUS
<1>2. b \in Seq(S) /\ Len(b) = Len(s) - p + 1 /\ \A i \in 1 .. (Len(s) - p + 1) : b[i] = s[p + i - 1]
  OBVIOUS
<1> HIDE DEF a, b
<1>3. /\ c \in Seq(S) /\ Len(c) = p
      /\ \A i \in 1 .. p : c[i] = IF i < p THEN s[i] ELSE x
  BY <1>1
<1> HIDE DEF c
<1>4. c \o b \in Seq(S) /\ Len(c \o b) = Len(s) + 1
  <2>1. c \o b \in Seq(S) /\ Len(c \o b) = Len(c) + Len(b)
    BY <1>2, <1>3, ConcatProperties
  <2>2. p + (Len(s) - p + 1) = Len(s) + 1
    OBVIOUS
  <2> QED BY <1>2, <1>3, <2>1, <2>2
<1>6. ASSUME NEW i \in 1 .. (Len(s) + 1), i <= p PROVE (c \o b)[i] = c[i]
  BY <1>2, <1>3, <1>6
<1>7. ASSUME NEW i \in 1 .. (Len(s) + 1), ~(i <= p) PROVE (c \o b)[i] = s[i - 1]
  <2>1. (c \o b)[i] = b[i - p]
    BY <1>2, <1>3, <1>7
  <2>2. i - p \in 1 .. (Len(s) - p + 1) /\ p + (i - p) - 1 = i - 1
    BY <1>7
  <2> QED BY <1>2, <2>1, <2>2
<1>5. InsertAt(s, p, x) = c \o b
  BY DEF InsertAt, a, b, c
<1> QED
  BY <1>3, <1>4, <1>5, <1>6, <1>7

\* In a list without repetition the first occurrence is the only one.
LEMMA RemoveFirstIsRemoveAt ==
  ASSUME NEW S, NEW s \in Seq(S), IsInjective(s), NEW t \in ToSet(s)
  PROVE  \E k \in 1 .. Len(s) : s[k] = t /\ RemoveFirst(s, t) = RemoveAt(s, k)
<1>1. PICK k \in 1 .. Len(s) : s[k] = t
  BY DEF ToSet
<1>. DEFINE I == {i \in 1 .. Len(s) : s[i] = t}
<1>2. I = {k}
  BY <1>1 DEF IsInjective
<1>3. Min(I) = k
  BY <1>2, <1>1 DEF Min
<1>4. SelectInSeq(s, LAMBDA v : v = t) = k
  BY <1>2, <1>3 DEF SelectInSeq
<1>. QED BY <1>1, <1>4 DEF RemoveFirst

\* list_del takes one entry out and keeps the others, each once.
LEMMA ListDel ==
  ASSUME NEW S, NEW s \in Seq(S), IsInjective(s), NEW t \in ToSet(s)
  PROVE  /\ RemoveFirst(s, t) \in Seq(S)
         /\ Len(RemoveFirst(s, t)) = Len(s) - 1
         /\ IsInjective(RemoveFirst(s, t))
         /\ ToSet(RemoveFirst(s, t)) = ToSet(s) \ {t}
<1>. DEFINE d == RemoveFirst(s, t)
<1>1. PICK k \in 1 .. Len(s) : s[k] = t /\ d = RemoveAt(s, k)
  BY RemoveFirstIsRemoveAt
<1>2. /\ d \in Seq(S) /\ Len(d) = Len(s) - 1
      /\ \A i \in 1 .. (Len(s) - 1) : d[i] = IF i < k THEN s[i] ELSE s[i + 1]
  BY <1>1, RemoveAtExplicit
<1>. HIDE DEF d
<1>3. IsInjective(d)
  <2>1. \A i, j \in 1 .. Len(s) : s[i] = s[j] => i = j
    BY DEF IsInjective
  <2>2. \A i, j \in 1 .. (Len(s) - 1) : d[i] = d[j] => i = j
    BY <2>1, <1>1, <1>2
  <2>3. DOMAIN d = 1 .. (Len(s) - 1)
    BY <1>2
  <2>. QED BY <2>2, <2>3 DEF IsInjective
<1>4. ToSet(d) \subseteq ToSet(s) \ {t}
  BY <1>1, <1>2 DEF ToSet, IsInjective
<1>5. ASSUME NEW u \in ToSet(s) \ {t}
      PROVE  u \in ToSet(d)
  <2>1. PICK i \in 1 .. Len(s) : s[i] = u /\ i # k
    BY <1>1 DEF ToSet
  <2>2. CASE i < k
    BY <2>1, <2>2, <1>1, <1>2 DEF ToSet
  <2>3. CASE i > k
    <3>1. i - 1 \in 1 .. (Len(s) - 1) /\ d[i - 1] = u
      BY <2>1, <2>3, <1>1, <1>2
    <3>. QED BY <3>1, <1>2 DEF ToSet
  <2>. QED BY <2>1, <2>2, <2>3, <1>1
<1>. QED BY <1>2, <1>3, <1>4, <1>5 DEF d

\* Deleting an entry that is not there (as list_debug_del_check makes it).
LEMMA ListDelAbsent ==
  ASSUME NEW S, NEW s \in Seq(S), NEW t, t \notin ToSet(s)
  PROVE  RemoveFirst(s, t) = s
BY DEF RemoveFirst, ToSet

\* list_add_prev on the head appends an entry.
LEMMA ListAddPrev ==
  ASSUME NEW S, NEW s \in Seq(S), NEW t \in S
  PROVE  /\ Append(s, t) \in Seq(S)
         /\ Len(Append(s, t)) = Len(s) + 1
         /\ ToSet(Append(s, t)) = ToSet(s) \cup {t}
         /\ Append(s, t) # <<>>
         /\ IsInjective(s) /\ t \notin ToSet(s) => IsInjective(Append(s, t))
<1>1. /\ Append(s, t) \in Seq(S) /\ Len(Append(s, t)) = Len(s) + 1
      /\ \A i \in 1 .. Len(s) : Append(s, t)[i] = s[i]
      /\ Append(s, t)[Len(s) + 1] = t
  OBVIOUS
<1>2. ToSet(Append(s, t)) = ToSet(s) \cup {t}
  BY <1>1 DEF ToSet
<1>3. ASSUME IsInjective(s), t \notin ToSet(s)
      PROVE  IsInjective(Append(s, t))
  BY <1>1, <1>3 DEF IsInjective, ToSet
<1>. QED BY <1>1, <1>2, <1>3

\* The first entry of a list that has one is one of its entries.
LEMMA ListFirst ==
  ASSUME NEW S, NEW s \in Seq(S), s # <<>>
  PROVE  Head(s) \in ToSet(s) /\ Head(s) \in S
BY DEF ToSet

\* What the head of a list without repetition leaves behind.
LEMMA ListTail ==
  ASSUME NEW S, NEW s \in Seq(S), s # <<>>, IsInjective(s)
  PROVE  /\ Tail(s) \in Seq(S) /\ IsInjective(Tail(s))
         /\ ToSet(Tail(s)) = ToSet(s) \ {Head(s)}
<1>1. /\ Tail(s) \in Seq(S) /\ Len(Tail(s)) = Len(s) - 1 /\ Head(s) = s[1]
      /\ \A i \in 1 .. (Len(s) - 1) : Tail(s)[i] = s[i + 1]
      /\ Len(s) \in Nat /\ Len(s) > 0
  OBVIOUS
<1>2. \A i, j \in 1 .. Len(s) : s[i] = s[j] => i = j
  BY DEF IsInjective
<1>3. \A i, j \in 1 .. (Len(s) - 1) : Tail(s)[i] = Tail(s)[j] => i = j
  <2>. SUFFICES ASSUME NEW i \in 1 .. (Len(s) - 1), NEW j \in 1 .. (Len(s) - 1),
                       Tail(s)[i] = Tail(s)[j]
                PROVE  i = j
    OBVIOUS
  <2>1. s[i + 1] = s[j + 1] /\ i + 1 \in 1 .. Len(s) /\ j + 1 \in 1 .. Len(s)
    BY <1>1
  <2>2. i + 1 = j + 1
    BY <2>1, <1>2
  <2>. QED BY <2>2
<1>4. IsInjective(Tail(s))
  BY <1>1, <1>3 DEF IsInjective
<1>5. ASSUME NEW u \in ToSet(Tail(s))
      PROVE  u \in ToSet(s) \ {Head(s)}
  <2>1. PICK i \in 1 .. (Len(s) - 1) : Tail(s)[i] = u
    BY <1>1 DEF ToSet
  <2>2. i + 1 \in 1 .. Len(s) /\ s[i + 1] = u /\ i + 1 # 1 /\ 1 \in 1 .. Len(s)
    BY <2>1, <1>1
  <2>. QED BY <2>2, <1>1, <1>2 DEF ToSet
<1>6. ASSUME NEW u \in ToSet(s) \ {Head(s)}
      PROVE  u \in ToSet(Tail(s))
  <2>1. PICK i \in 1 .. Len(s) : s[i] = u /\ i # 1
    BY <1>1 DEF ToSet
  <2>2. i - 1 \in 1 .. (Len(s) - 1) /\ Tail(s)[i - 1] = u
    BY <2>1, <1>1
  <2>3. i - 1 \in DOMAIN Tail(s)
    BY <2>2, <1>1
  <2>. QED BY <2>2, <2>3 DEF ToSet
<1>. QED BY <1>1, <1>4, <1>5, <1>6

LEMMA ListElems ==
  ASSUME NEW S, NEW s \in Seq(S)
  PROVE  /\ ToSet(s) \subseteq S
         /\ Len(s) \in Nat
         /\ s = <<>> <=> ToSet(s) = {}
         /\ s = <<>> <=> Len(s) = 0
<1>1. s # <<>> => s[1] \in ToSet(s)
  BY DEF ToSet
<1>. QED BY <1>1 DEF ToSet

\* A list without duplicates has as many elements as it is long.
LEMMA ListSize ==
  ASSUME NEW S, NEW s \in Seq(S), IsInjective(s)
  PROVE  IsFiniteSet(ToSet(s)) /\ Cardinality(ToSet(s)) = Len(s)
<1> DEFINE f == [i \in 1 .. Len(s) |-> s[i]]
<1>1. Len(s) \in Nat /\ DOMAIN s = 1 .. Len(s)
  OBVIOUS
<1>2. f \in Bijection(1 .. Len(s), ToSet(s))
  <2>1. \A i, j \in 1 .. Len(s) : f[i] = f[j] => i = j
    BY <1>1 DEF IsInjective
  <2>2. f \in [1 .. Len(s) -> ToSet(s)] /\ \A y \in ToSet(s) : \E i \in 1 .. Len(s) : f[i] = y
    BY <1>1 DEF ToSet
  <2>3. DOMAIN f = 1 .. Len(s)
    OBVIOUS
  <2> HIDE DEF f
  <2>4. IsInjective(f)
    BY <2>1, <2>3 DEF IsInjective
  <2> QED BY <2>2, <2>4, Zenon DEF Bijection, Injection, Surjection
<1>3. IsFiniteSet(1 .. Len(s)) /\ Cardinality(1 .. Len(s)) = Len(s)
  BY <1>1, FS_Interval
<1> HIDE DEF f
<1>4. ExistsBijection(1 .. Len(s), ToSet(s))
  BY <1>2, Zenon DEF ExistsBijection
<1> QED BY <1>3, <1>4, FS_Bijection

\* One list behind another that it shares no entry with.
LEMMA ListConcat ==
  ASSUME NEW S, NEW s \in Seq(S), NEW r \in Seq(S), IsInjective(s), IsInjective(r),
         ToSet(s) \cap ToSet(r) = {}
  PROVE  /\ s \o r \in Seq(S) /\ IsInjective(s \o r)
         /\ Len(s \o r) = Len(s) + Len(r)
         /\ ToSet(s \o r) = ToSet(s) \cup ToSet(r)
<1>1. /\ s \o r \in Seq(S) /\ Len(s \o r) = Len(s) + Len(r)
      /\ Len(s) \in Nat /\ Len(r) \in Nat
      /\ \A i \in 1 .. Len(s) + Len(r) :
           (s \o r)[i] = IF i <= Len(s) THEN s[i] ELSE r[i - Len(s)]
  OBVIOUS
<1>2. /\ \A i, j \in 1 .. Len(s) : s[i] = s[j] => i = j
      /\ \A i, j \in 1 .. Len(r) : r[i] = r[j] => i = j
      /\ \A i \in 1 .. Len(s), j \in 1 .. Len(r) : s[i] # r[j]
  BY DEF IsInjective, ToSet
<1>3. ASSUME NEW i \in 1 .. Len(s) + Len(r), NEW j \in 1 .. Len(s) + Len(r),
             (s \o r)[i] = (s \o r)[j]
      PROVE  i = j
  <2>1. i > Len(s) => i - Len(s) \in 1 .. Len(r)
    BY <1>1
  <2>2. j > Len(s) => j - Len(s) \in 1 .. Len(r)
    BY <1>1
  <2>3. CASE i <= Len(s) /\ j <= Len(s)
    BY <2>3, <1>1, <1>2, <1>3
  <2>4. CASE i > Len(s) /\ j > Len(s)
    <3>1. r[i - Len(s)] = r[j - Len(s)]
      BY <2>4, <1>1, <1>3
    <3>2. i - Len(s) = j - Len(s)
      BY <3>1, <2>1, <2>2, <2>4, <1>2
    <3>. QED BY <3>2, <1>1
  <2>5. CASE i <= Len(s) /\ j > Len(s)
    BY <2>5, <2>2, <1>1, <1>2, <1>3
  <2>6. CASE i > Len(s) /\ j <= Len(s)
    BY <2>6, <2>1, <1>1, <1>2, <1>3
  <2>. QED BY <1>1, <2>3, <2>4, <2>5, <2>6
<1>4. IsInjective(s \o r)
  BY <1>1, <1>3 DEF IsInjective
<1>5. ASSUME NEW u \in ToSet(s \o r) PROVE u \in ToSet(s) \cup ToSet(r)
  <2>1. PICK i \in 1 .. Len(s) + Len(r) : (s \o r)[i] = u
    BY <1>1 DEF ToSet
  <2>2. i > Len(s) => i - Len(s) \in 1 .. Len(r)
    BY <1>1
  <2>. QED BY <2>1, <2>2, <1>1 DEF ToSet
<1>6. ASSUME NEW u \in ToSet(s) PROVE u \in ToSet(s \o r)
  <2>1. PICK i \in 1 .. Len(s) : s[i] = u
    BY DEF ToSet
  <2>2. i \in DOMAIN (s \o r) /\ (s \o r)[i] = u
    BY <2>1, <1>1
  <2>. QED BY <2>2 DEF ToSet
<1>7. ASSUME NEW u \in ToSet(r) PROVE u \in ToSet(s \o r)
  <2>1. PICK i \in 1 .. Len(r) : r[i] = u
    BY DEF ToSet
  <2>2. Len(s) + i \in DOMAIN (s \o r) /\ (s \o r)[Len(s) + i] = u
    BY <2>1, <1>1
  <2>. QED BY <2>2 DEF ToSet
<1>. QED BY <1>1, <1>4, <1>5, <1>6, <1>7

-----------------------------------------------------------------------------
(* Numbers *)

\* Quotient and remainder, and the steps between multiples.
LEMMA DivMod ==
  ASSUME NEW a \in Int, NEW g \in Nat \ {0}
  PROVE  /\ a \div g \in Int /\ a % g \in 0 .. g - 1
         /\ a = g * (a \div g) + (a % g)
         /\ a >= 0 => a \div g \in Nat
OBVIOUS

\* The remainder is the only one that fits.
LEMMA ModUnique ==
  ASSUME NEW a \in Int, NEW b \in Nat, b > 0, NEW q \in Int, NEW r \in 0 .. b - 1, a = b * q + r
  PROVE  a % b = r
<1> DEFINE p == a \div b
           s == a % b
<1>1. p \in Int /\ s \in 0 .. b - 1 /\ a = b * p + s
  OBVIOUS
<1> HIDE DEF p, s
<1>2. b * (q - p) = s - r
  BY <1>1
<1>3. CASE q = p
  BY <1>2, <1>3, <1>1
<1>4. CASE q > p
  <2>1. b * (q - p) >= b
    BY <1>1, <1>4
  <2> QED BY <1>2, <2>1, <1>1
<1>5. CASE q < p
  <2>1. b * (p - q) >= b
    BY <1>1, <1>5
  <2>2. b * (p - q) = r - s
    BY <1>1
  <2> QED BY <2>1, <2>2, <1>1
<1> QED BY <1>1, <1>3, <1>4, <1>5 DEF s

\* And so is the quotient.
LEMMA DivUnique ==
  ASSUME NEW a \in Int, NEW b \in Nat \ {0}, NEW q \in Int, NEW r \in 0 .. b - 1, a = b * q + r
  PROVE  a \div b = q /\ a % b = r
<1> DEFINE p == a \div b
           s == a % b
<1>1. p \in Int /\ a = b * p + s
  BY DivMod
<1>2. s = r
  BY ModUnique
<1> HIDE DEF p, s
<1>3. b * p = b * q
  BY <1>1, <1>2
<1>4. b * (p - q) = 0
  BY <1>1, <1>3
<1>5. p = q
  BY <1>1, <1>4
<1> QED BY <1>2, <1>5 DEF p, s

\* Two numbers with the same remainder are a number of turns apart.
LEMMA SameMod ==
  ASSUME NEW a \in Int, NEW b \in Int, NEW g \in Nat \ {0}, a % g = b % g
  PROVE  \E k \in Int : a = b + g * k
<1> DEFINE k == (a \div g) - (b \div g)
<1>1. k \in Int /\ a = b + g * k
  <2> DEFINE p == a \div g
             q == b \div g
  <2>1. p \in Int /\ q \in Int /\ a = g * p + (a % g) /\ b = g * q + (b % g)
    BY DivMod
  <2>2. a % g \in Int
    BY DivMod
  <2> HIDE DEF p, q
  <2>3. g * (p - q) = g * p - g * q
    BY <2>1
  <2>4. a = b + g * (p - q)
    BY <2>1, <2>2, <2>3
  <2> QED BY <2>1, <2>4 DEF p, q
<1> QED BY <1>1

\* Turns do not change a remainder.
LEMMA ModTurns ==
  ASSUME NEW a \in Int, NEW g \in Nat \ {0}, NEW k \in Int
  PROVE  (a + g * k) % g = a % g
<1> DEFINE p == a \div g
           r == a % g
<1>1. p \in Int /\ r \in 0 .. g - 1 /\ a = g * p + r
  BY DivMod
<1> HIDE DEF p, r
<1> DEFINE x == a + g * k
           q == p + k
<1>2. x = g * q + r /\ q \in Int /\ x \in Int
  BY <1>1
<1> HIDE DEF x, q
<1>3. x % g = r
  BY <1>1, <1>2, ModUnique
<1> QED BY <1>3 DEF x, r

\* Every set of naturals has a least member, which Min picks.
LEMMA MinNat ==
  ASSUME NEW S \in SUBSET Nat, S # {}
  PROVE  Min(S) \in S /\ \A x \in S : Min(S) <= x
<1> DEFINE R == {ss \in Nat \X Nat : ss[1] < ss[2]}
<1>1. R = OpToRel(<, Nat)
  BY Zenon DEF OpToRel
<1>2. IsWellFoundedOn(R, Nat)
  BY <1>1, NatLessThanWellFounded, Zenon
<1>3. PICK m \in S : \A x \in S : <<x, m>> \notin R
  <2> HIDE DEF R
  <2> QED BY <1>2, WFMin, Zenon
<1>4. ASSUME NEW x \in S PROVE m <= x
  <2>1. m \in Nat /\ x \in Nat /\ (x < m => <<x, m>> \in R)
    OBVIOUS
  <2> HIDE DEF R
  <2> QED BY <1>3, <2>1
<1> QED BY <1>4 DEF Min

\* 1 << a
LEMMA PowerOfTwo ==
  ASSUME NEW a \in Nat
  PROVE  /\ IsFiniteSet(SUBSET (1 .. a))
         /\ 2 ^ a = Cardinality(SUBSET (1 .. a))
         /\ 2 ^ a \in Nat \ {0}
  <1>1. IsFiniteSet(1 .. a) /\ Cardinality(1 .. a) = a
    BY FS_Interval
  <1>2. IsFiniteSet(SUBSET (1 .. a)) /\ Cardinality(SUBSET (1 .. a)) = 2 ^ a
    BY <1>1, FS_SUBSET
  <1>3. Cardinality(SUBSET (1 .. a)) \in Nat
    BY <1>2, FS_CardinalityType
  <1>4. Cardinality(SUBSET (1 .. a)) # 0
    BY <1>2, FS_EmptySet
  <1> QED BY <1>2, <1>3, <1>4

LEMMA PowerZero == 2 ^ 0 = 1
  <1>1. IsFiniteSet({}) /\ Cardinality({}) = 0
    BY FS_EmptySet
  <1>2. Cardinality(SUBSET {}) = 2 ^ 0
    BY <1>1, FS_SUBSET
  <1>3. SUBSET {} = {{}}
    OBVIOUS
  <1> QED BY <1>2, <1>3, FS_Singleton

\* Shifts add up.
LEMMA PowerSum ==
  ASSUME NEW a \in Nat, NEW b \in Nat
  PROVE  2 ^ (a + b) = 2 ^ a * 2 ^ b
  <1> DEFINE A == 1 .. a
             B == a + 1 .. a + b
             C == 1 .. a + b
             P == SUBSET A
             Q == SUBSET B
             f == [p \in P \X Q |-> p[1] \cup p[2]]
  <1>1. IsFiniteSet(B) /\ Cardinality(B) = b
    BY FS_Interval
  <1>2. IsFiniteSet(Q) /\ Cardinality(Q) = 2 ^ b
    BY <1>1, FS_SUBSET
  <1>3. IsFiniteSet(P) /\ Cardinality(P) = 2 ^ a
    BY PowerOfTwo
  <1>4. IsFiniteSet(P \X Q) /\ Cardinality(P \X Q) = 2 ^ a * 2 ^ b
    <2> HIDE DEF P, Q
    <2> QED BY <1>2, <1>3, FS_Product
  <1>5. A \cap B = {} /\ A \cup B = C
    OBVIOUS
  <1>6. f \in Bijection(P \X Q, SUBSET C)
    <2> HIDE DEF A, B, C
    <2>1. ASSUME NEW x \in P, NEW y \in Q
          PROVE  /\ f[<<x, y>>] \in SUBSET C
                 /\ f[<<x, y>>] \cap A = x
                 /\ f[<<x, y>>] \cap B = y
      <3>1. <<x, y>> \in P \X Q /\ f[<<x, y>>] = x \cup y
        OBVIOUS
      <3>2. x \cup y \in SUBSET C /\ (x \cup y) \cap A = x /\ (x \cup y) \cap B = y
        BY <1>5
      <3> QED BY <3>1, <3>2
    <2>2. ASSUME NEW s \in SUBSET C
          PROVE  \E x \in P, y \in Q : f[<<x, y>>] = s
      <3>1. s \cap A \in P /\ s \cap B \in Q /\ s = (s \cap A) \cup (s \cap B)
        BY <1>5
      <3>2. f[<<s \cap A, s \cap B>>] = s
        BY <3>1
      <3> QED BY <3>1, <3>2
    <2>3. f = [p \in P \X Q |-> f[p]] /\ DOMAIN f = P \X Q
      OBVIOUS
    <2> HIDE DEF f, P, Q
    <2>4. \A p \in P \X Q : \E x \in P, y \in Q : p = <<x, y>>
      OBVIOUS
    <2>5. f \in [P \X Q -> SUBSET C]
      BY <2>1, <2>3, <2>4
    <2>6. ASSUME NEW p \in P \X Q, NEW q \in P \X Q, f[p] = f[q]
          PROVE  p = q
      <3>1. PICK x \in P, y \in Q : p = <<x, y>>
        BY <2>4
      <3>2. PICK u \in P, v \in Q : q = <<u, v>>
        BY <2>4
      <3>3. x = f[p] \cap A /\ y = f[p] \cap B
        BY <2>1, <3>1
      <3>4. u = f[q] \cap A /\ v = f[q] \cap B
        BY <2>1, <3>2
      <3> QED BY <2>6, <3>1, <3>2, <3>3, <3>4
    <2>7. f \in Surjection(P \X Q, SUBSET C)
      <3>1. \A s \in SUBSET C : \E p \in P \X Q : f[p] = s
        BY <2>2
      <3> QED BY <2>5, <3>1 DEF Surjection
    <2> QED BY <2>5, <2>6, <2>7 DEF Injection, IsInjective, Bijection
  <1>7. Cardinality(SUBSET C) = 2 ^ a * 2 ^ b
    <2> HIDE DEF P, Q, f, C
    <2> QED BY <1>4, <1>6, FS_Bijection DEF ExistsBijection
  <1>8. a + b \in Nat
    OBVIOUS
  <1>9. 2 ^ (a + b) = Cardinality(SUBSET C)
    BY <1>8, PowerOfTwo
  <1> QED BY <1>7, <1>9
=============================================================================
