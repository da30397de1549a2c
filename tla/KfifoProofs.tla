----------------------------- MODULE KfifoProofs -----------------------------
(***************************************************************************)
(* Proofs about Kfifo for every size, word, element set and length of a    *)
(* call: the two sides never meet in the buffer, and the unlocked ring     *)
(* implements AbsQueue.                                                    *)
(***************************************************************************)
EXTENDS Kfifo, ListFacts

USE FifoAssumption

-----------------------------------------------------------------------------
(* Arithmetic of slots *)

\* A step of less than the size moves on within the buffer, or around its end.
LEMMA SlotStep ==
  ASSUME NEW c \in Nat, NEW j \in 0 .. FifoSize - 1
  PROVE  (c + j) % FifoSize = IF (c % FifoSize) + j < FifoSize
                              THEN (c % FifoSize) + j ELSE (c % FifoSize) + j - FifoSize
<1> DEFINE q == c \div FifoSize
           r == c % FifoSize
<1>1. q \in Int /\ r \in Slots /\ c = FifoSize * q + r
  BY DEF Slots
<1> HIDE DEF q, r
<1>2. CASE r + j < FifoSize
  <2>1. /\ c + j \in Int /\ FifoSize > 0 /\ r + j \in 0 .. FifoSize - 1
        /\ c + j = FifoSize * q + (r + j)
    BY <1>1, <1>2 DEF Slots
  <2>2. (c + j) % FifoSize = r + j
    BY ONLY <2>1, <1>1, FifoAssumption, ModUnique
  <2> QED BY <2>2, <1>2 DEF r
<1>3. CASE ~(r + j < FifoSize)
  <2> DEFINE d == r + j - FifoSize
             e == q + 1
  <2>1. /\ c + j \in Int /\ FifoSize > 0 /\ d \in 0 .. FifoSize - 1 /\ e \in Int
        /\ c + j = FifoSize * e + d
    BY <1>1, <1>3 DEF Slots
  <2> HIDE DEF d, e
  <2>2. (c + j) % FifoSize = d
    BY ONLY <2>1, FifoAssumption, ModUnique
  <2> QED BY <2>2, <1>3 DEF r, d
<1> QED BY <1>2, <1>3

\* Less than the size apart is not the same slot.
LEMMA SlotsDiffer ==
  ASSUME NEW a \in Nat, NEW b \in Nat, a < b, b - a < FifoSize
  PROVE  a % FifoSize # b % FifoSize
<1>1. b = a + (b - a) /\ b - a \in 0 .. FifoSize - 1
  OBVIOUS
<1>2. b % FifoSize = IF (a % FifoSize) + (b - a) < FifoSize
                     THEN (a % FifoSize) + (b - a) ELSE (a % FifoSize) + (b - a) - FifoSize
  BY <1>1, SlotStep
<1>3. a % FifoSize \in Int
  OBVIOUS
<1> QED BY <1>2, <1>3

\* The word being a multiple of the size, a counter that wraps keeps its slot.
LEMMA SlotOfWrapped ==
  ASSUME NEW x \in Nat, x >= FifoWord
  PROVE  (x - FifoWord) % FifoSize = x % FifoSize
<1> DEFINE q == x \div FifoSize
           r == x % FifoSize
           w == FifoWord \div FifoSize
<1>1. q \in Int /\ r \in 0 .. FifoSize - 1 /\ x = FifoSize * q + r
  OBVIOUS
<1>2. w \in Int /\ FifoWord = FifoSize * w
  OBVIOUS
<1> HIDE DEF q, r, w
<1>3. x - FifoWord = FifoSize * (q - w) + r
  BY <1>1, <1>2
<1>4. (x - FifoWord) % FifoSize = r
  BY <1>1, <1>2, <1>3, ModUnique
<1> QED BY <1>4 DEF r

\* A counter moved on by n, then by k, is in the slot n + k further.
LEMMA SlotAdvance ==
  ASSUME NEW c \in 0 .. FifoWord - 1, NEW n \in Nat, n <= FifoSize, NEW k \in Nat
  PROVE  /\ Advance(c, n) \in 0 .. FifoWord - 1
         /\ (Advance(c, n) + k) % FifoSize = (c + n + k) % FifoSize
<1>1. CASE c + n >= FifoWord
  <2> DEFINE x == c + n + k
  <2>1. x \in Nat /\ x >= FifoWord
    BY <1>1
  <2>2. (x - FifoWord) % FifoSize = x % FifoSize
    BY <2>1, SlotOfWrapped
  <2>3. c + n - FifoWord + k = x - FifoWord
    OBVIOUS
  <2> QED BY <1>1, <2>2, <2>3 DEF Advance
<1>2. CASE ~(c + n >= FifoWord)
  BY <1>2 DEF Advance
<1> QED BY <1>1, <1>2

\* What a move of either counter does to the distance of the two.
LEMMA DistanceMoves ==
  ASSUME NEW a \in 0 .. FifoWord - 1, NEW b \in 0 .. FifoWord - 1, NEW n \in Nat
  PROVE  /\ Distance(a, b) \in 0 .. FifoWord - 1
         /\ Distance(a, b) + n <= FifoSize => Distance(Advance(a, n), b) = Distance(a, b) + n
         /\ n <= Distance(a, b) => Distance(a, Advance(b, n)) = Distance(a, b) - n
BY DEF Distance, Advance

\* The in counter is valid many slots behind the out counter.
LEMMA SlotOfIn ==
  ASSUME NEW a \in 0 .. FifoWord - 1, NEW b \in 0 .. FifoWord - 1, NEW k \in Nat
  PROVE  (a + k) % FifoSize = (b + Distance(a, b) + k) % FifoSize
<1>1. CASE a >= b
  BY <1>1 DEF Distance
<1>2. CASE ~(a >= b)
  <2> DEFINE x == b + Distance(a, b) + k
  <2>1. x \in Nat /\ x >= FifoWord /\ a + k = x - FifoWord
    BY <1>2 DEF Distance
  <2> HIDE DEF x
  <2>2. (x - FifoWord) % FifoSize = x % FifoSize
    BY <2>1, SlotOfWrapped
  <2> QED BY <2>1, <2>2 DEF x
<1> QED BY <1>1, <1>2

-----------------------------------------------------------------------------
(* The two copies *)

\* What is written: the elements in the slots from c on, the rest untouched.
LEMMA WrittenAt ==
  ASSUME fifoData \in [Slots -> FifoValues],
         NEW c \in 0 .. FifoWord - 1, NEW s \in Seq(FifoValues), Len(s) <= FifoSize
  PROVE  /\ Written(s, c) \in [Slots -> FifoValues]
         /\ \A j \in 0 .. Len(s) - 1 : Written(s, c)[(c + j) % FifoSize] = s[j + 1]
         /\ \A i \in Slots : (\A j \in 0 .. Len(s) - 1 : i # (c + j) % FifoSize)
                               => Written(s, c)[i] = fifoData[i]
<1> DEFINE off  == c % FifoSize
           llen == AtMost(Len(s), FifoSize - off)
<1>1. /\ off \in Slots /\ llen \in Nat /\ llen <= Len(s) /\ llen <= FifoSize - off
      /\ llen < Len(s) => llen = FifoSize - off
  BY DEF Slots, AtMost
<1>2. ASSUME NEW j \in 0 .. FifoSize - 1
      PROVE  (c + j) % FifoSize = IF off + j < FifoSize THEN off + j ELSE off + j - FifoSize
  <2>1. c \in Nat
    OBVIOUS
  <2> QED BY <2>1, SlotStep
<1>3. Written(s, c) = [i \in Slots |->
        IF i >= off /\ i - off < llen THEN s[i - off + 1]
        ELSE IF i < Len(s) - llen THEN s[llen + i + 1]
        ELSE fifoData[i]]
  BY DEF Written
<1> HIDE DEF off, llen
<1>4. ASSUME NEW i \in Slots
      PROVE  Written(s, c)[i] = IF i >= off /\ i - off < llen THEN s[i - off + 1]
                                ELSE IF i < Len(s) - llen THEN s[llen + i + 1]
                                ELSE fifoData[i]
  BY <1>3
<1>5. Written(s, c) \in [Slots -> FifoValues]
  BY <1>1, <1>3 DEF Slots
<1>6. ASSUME NEW j \in 0 .. Len(s) - 1
      PROVE  Written(s, c)[(c + j) % FifoSize] = s[j + 1]
  <2>1. j \in 0 .. FifoSize - 1
    OBVIOUS
  <2>2. CASE off + j < FifoSize
    <3>1. (c + j) % FifoSize = off + j /\ off + j \in Slots
      BY <2>1, <2>2, <1>1, <1>2 DEF Slots
    <3>2. j < llen
      BY <2>2, <1>1 DEF Slots
    <3>3. off + j >= off /\ (off + j) - off < llen /\ (off + j) - off + 1 = j + 1
      BY <3>2, <1>1 DEF Slots
    <3> QED BY <3>1, <3>3, <1>4
  <2>3. CASE ~(off + j < FifoSize)
    <3> DEFINE i == off + j - FifoSize
    <3>1. (c + j) % FifoSize = i
      BY <2>1, <2>3, <1>2
    <3>2. i \in Slots
      BY <2>1, <2>3, <1>1 DEF Slots
    <3>3. llen = FifoSize - off /\ i < off /\ i < Len(s) - llen /\ llen + i + 1 = j + 1
      BY <2>1, <2>3, <1>1 DEF Slots
    <3> HIDE DEF i
    <3>4. Written(s, c)[i] = s[llen + i + 1]
      BY <3>2, <3>3, <1>1, <1>4 DEF Slots
    <3> QED BY <3>1, <3>3, <3>4
  <2> QED BY <2>2, <2>3
<1>7. ASSUME NEW i \in Slots, \A j \in 0 .. Len(s) - 1 : i # (c + j) % FifoSize
      PROVE  Written(s, c)[i] = fifoData[i]
  <2>1. CASE i >= off /\ i - off < llen
    <3>1. i - off \in 0 .. Len(s) - 1 /\ i - off \in 0 .. FifoSize - 1
      BY <2>1, <1>1 DEF Slots
    <3> DEFINE j == i - off
    <3>2. off + j < FifoSize /\ off + j = i
      BY <2>1, <1>1 DEF Slots
    <3>3. (c + j) % FifoSize = off + j
      BY <3>1, <3>2, <1>2
    <3> QED BY <3>1, <3>2, <3>3, <1>7
  <2>2. CASE ~(i >= off /\ i - off < llen) /\ i < Len(s) - llen
    <3> DEFINE j == llen + i
    <3>1. j \in 0 .. Len(s) - 1 /\ j \in 0 .. FifoSize - 1 /\ off + j - FifoSize = i /\ ~(off + j < FifoSize)
      BY <2>2, <1>1 DEF Slots
    <3>2. (c + j) % FifoSize = i
      BY <3>1, <1>2
    <3> QED BY <3>1, <3>2, <1>7
  <2> QED BY <2>1, <2>2, <1>4
<1> QED BY <1>5, <1>6, <1>7

\* What is copied out: the elements in the slots from c on, in their order.
LEMMA CopiedAt ==
  ASSUME NEW c \in 0 .. FifoWord - 1, NEW n \in Nat, n <= FifoSize
  PROVE  Copied(n, c) = [k \in 1 .. n |-> fifoData[(c + k - 1) % FifoSize]]
<1> DEFINE off  == c % FifoSize
           llen == AtMost(n, FifoSize - off)
<1>1. off \in Slots /\ llen \in Nat /\ llen <= FifoSize - off /\ (llen < n => llen = FifoSize - off)
  BY DEF Slots, AtMost
<1>2. ASSUME NEW j \in 0 .. FifoSize - 1
      PROVE  (c + j) % FifoSize = IF off + j < FifoSize THEN off + j ELSE off + j - FifoSize
  <2>1. c \in Nat
    OBVIOUS
  <2> QED BY <2>1, SlotStep
<1>3. Copied(n, c) = [k \in 1 .. n |-> IF k <= llen THEN fifoData[off + k - 1] ELSE fifoData[k - llen - 1]]
  BY DEF Copied
<1> HIDE DEF off, llen
<1>4. ASSUME NEW k \in 1 .. n
      PROVE  (c + k - 1) % FifoSize = IF k <= llen THEN off + k - 1 ELSE k - llen - 1
  <2>1. k - 1 \in 0 .. FifoSize - 1 /\ c + (k - 1) = c + k - 1
    OBVIOUS
  <2>2. (c + k - 1) % FifoSize = IF off + (k - 1) < FifoSize THEN off + (k - 1) ELSE off + (k - 1) - FifoSize
    BY <2>1, <1>2
  <2> QED BY <2>2, <1>1 DEF Slots
<1> QED BY <1>3, <1>4

-----------------------------------------------------------------------------
(* The invariant *)

\* What the writer has copied is in its slots, what the reader has copied is
\* what the slots hold: between a side's copy and the move of its counter the
\* other side leaves those slots alone.
FifoInv ==
  /\ FifoTypeOK
  /\ FifoClipsHold
  /\ putStage = "no" => putting = <<>>
  /\ getStage = "no" => getting = 0
  /\ putStage = "step" =>
       \A j \in 0 .. Len(putting) - 1 : fifoData[(fifoIn + j) % FifoSize] = putting[j + 1]
  /\ getStage = "step" =>
       readBuf = [k \in 1 .. getting |-> fifoData[(fifoOut + k - 1) % FifoSize]]

\* The clips keep the two sides apart.
LEMMA ApartByClips ==
  ASSUME FifoTypeOK, FifoClipsHold
  PROVE  FifoSidesApart
<1> SUFFICES ASSUME NEW i \in 0 .. Len(putting) - 1, NEW j \in 0 .. kfifo_valid - 1
             PROVE  (fifoIn + i) % FifoSize # (fifoOut + j) % FifoSize
  BY DEF FifoSidesApart
<1> DEFINE a == fifoOut + j
           b == fifoOut + Distance(fifoIn, fifoOut) + i
<1>1. kfifo_valid \in Nat /\ Len(putting) \in Nat /\ kfifo_valid + Len(putting) <= FifoSize
  BY DistanceMoves DEF FifoTypeOK, FifoClipsHold, kfifo_valid
<1>2. a \in Nat /\ b \in Nat /\ a < b /\ b - a < FifoSize
  BY <1>1 DEF kfifo_valid, FifoTypeOK
<1>3. (fifoIn + i) % FifoSize = b % FifoSize
  BY SlotOfIn DEF FifoTypeOK
<1> HIDE DEF a, b
<1>4. a % FifoSize # b % FifoSize
  BY <1>2, SlotsDiffer
<1> QED BY <1>3, <1>4 DEF a

\* Numbers that all steps need.
LEMMA Lengths ==
  ASSUME FifoTypeOK, FifoClipsHold
  PROVE  /\ kfifo_valid \in Nat /\ kfifo_unused \in Nat /\ kfifo_valid + kfifo_unused = FifoSize
         /\ Len(putting) \in Nat /\ Len(putting) <= kfifo_unused
         /\ getting \in Nat /\ getting <= kfifo_valid
<1>1. kfifo_valid \in 0 .. FifoWord - 1 /\ Len(putting) \in Nat
  BY DistanceMoves DEF FifoTypeOK, kfifo_valid
<1> QED BY <1>1 DEF FifoTypeOK, FifoClipsHold, kfifo_unused

-----------------------------------------------------------------------------
(* One step *)

LEMMA FifoStarts == FifoInit => FifoInv
BY DEF FifoInit, FifoInv, FifoTypeOK, FifoClipsHold, kfifo_valid, Distance

LEMMA FifoStep == FifoInv /\ [FifoNext]_fifoVars => FifoInv'
<1> SUFFICES ASSUME FifoInv, [FifoNext]_fifoVars PROVE FifoInv'
  OBVIOUS
<1> USE DEF FifoInv
<1>0. /\ kfifo_valid \in Nat /\ kfifo_unused \in Nat /\ kfifo_valid + kfifo_unused = FifoSize
      /\ Len(putting) \in Nat /\ Len(putting) <= kfifo_unused
      /\ getting \in Nat /\ getting <= kfifo_valid
  BY Lengths
<1>a. FifoSidesApart
  BY ApartByClips
<1>1. ASSUME NEW s \in Payloads, InFlat(s) PROVE FifoInv'
  <2>1. s \in Seq(FifoValues) /\ Len(s) \in Nat
    BY DEF Payloads
  <2> DEFINE n == AtMost(Len(s), kfifo_unused)
  <2>2. n \in Nat /\ n <= Len(s) /\ n <= kfifo_unused
    BY <2>1, <1>0 DEF AtMost
  <2> HIDE DEF n
  <2>3. putting' = SubSeq(s, 1, n)
    BY <1>1 DEF InFlat, n
  <2>4. putting' \in Seq(FifoValues) /\ Len(putting') = n
    BY <2>1, <2>2, <2>3
  <2>5. FifoTypeOK'
    BY <1>1, <2>4 DEF InFlat, FifoTypeOK, getVars
  <2>6. FifoClipsHold'
    BY <1>1, <2>4, <2>2, <1>0 DEF InFlat, FifoClipsHold, getVars, kfifo_valid
  <2> QED BY <1>1, <2>5, <2>6 DEF InFlat, getVars
<1>2. ASSUME NEW v \in FifoValues, PutOne(v) PROVE FifoInv'
  <2>1. kfifo_valid + 1 <= FifoSize
    BY <1>2, <1>0 DEF PutOne
  <2>2. putting' = <<v>> /\ putting' \in Seq(FifoValues) /\ Len(putting') = 1
    BY <1>2 DEF PutOne
  <2>3. FifoTypeOK'
    BY <1>2, <2>2 DEF PutOne, FifoTypeOK, getVars
  <2>4. FifoClipsHold'
    BY <1>2, <2>1, <2>2, <1>0 DEF PutOne, FifoClipsHold, getVars, kfifo_valid
  <2> QED BY <1>2, <2>3, <2>4 DEF PutOne, getVars
<1>3. CASE InCopy
  <2> DEFINE new == Written(putting, fifoIn)
  <2>1. /\ new \in [Slots -> FifoValues]
        /\ \A j \in 0 .. Len(putting) - 1 : new[(fifoIn + j) % FifoSize] = putting[j + 1]
        /\ \A i \in Slots : (\A j \in 0 .. Len(putting) - 1 : i # (fifoIn + j) % FifoSize)
                               => new[i] = fifoData[i]
    BY WrittenAt, <1>0 DEF FifoTypeOK
  <2> HIDE DEF new
  <2>2. fifoData' = new /\ putStage' = "step" /\ UNCHANGED <<fifoIn, putting, getVars>>
    BY <1>3 DEF InCopy, new
  <2>3. FifoTypeOK'
    BY <2>1, <2>2 DEF FifoTypeOK, getVars
  <2>4. FifoClipsHold'
    BY <2>2 DEF FifoClipsHold, getVars, kfifo_valid
  <2>5. ASSUME getStage' = "step"
        PROVE  readBuf' = [k \in 1 .. getting' |-> fifoData'[(fifoOut' + k - 1) % FifoSize]]
    <3>1. ASSUME NEW k \in 1 .. getting
          PROVE  new[(fifoOut + k - 1) % FifoSize] = fifoData[(fifoOut + k - 1) % FifoSize]
      <4>1. k - 1 \in 0 .. kfifo_valid - 1 /\ fifoOut + (k - 1) = fifoOut + k - 1
        BY <1>0 DEF FifoTypeOK
      <4>2. (fifoOut + k - 1) % FifoSize \in Slots
        BY DEF FifoTypeOK, Slots
      <4> QED BY <4>1, <4>2, <2>1, <1>a DEF FifoSidesApart
    <3> QED BY <3>1, <2>2, <2>5 DEF getVars
  <2> QED BY <2>1, <2>2, <2>3, <2>4, <2>5 DEF getVars
<1>4. CASE InStep
  <2>1. /\ fifoIn' \in 0 .. FifoWord - 1
        /\ Distance(fifoIn', fifoOut) = kfifo_valid + Len(putting)
    <3>1. /\ fifoIn \in 0 .. FifoWord - 1 /\ fifoOut \in 0 .. FifoWord - 1
          /\ Len(putting) <= FifoSize /\ kfifo_valid + Len(putting) <= FifoSize
      BY <1>0 DEF FifoTypeOK
    <3>2. fifoIn' = Advance(fifoIn, Len(putting))
      BY <1>4 DEF InStep
    <3>3. fifoIn' \in 0 .. FifoWord - 1
      BY <3>1, <3>2, <1>0 DEF Advance
    <3>4. Distance(Advance(fifoIn, Len(putting)), fifoOut) = Distance(fifoIn, fifoOut) + Len(putting)
      BY <3>1, <1>0, DistanceMoves DEF kfifo_valid
    <3> QED BY <3>2, <3>3, <3>4 DEF kfifo_valid
  <2>2. FifoTypeOK'
    BY <1>4, <2>1 DEF InStep, FifoTypeOK, getVars
  <2>3. FifoClipsHold'
    BY <1>4, <2>1, <1>0 DEF InStep, FifoClipsHold, getVars, kfifo_valid
  <2> QED BY <1>4, <2>2, <2>3 DEF InStep, getVars
<1>5. ASSUME NEW len \in 0 .. FifoMaxLen, NEW stage \in {"peek", "copy"}, OutFlat(len, stage) PROVE FifoInv'
  <2>1. getting' \in Nat /\ getting' <= kfifo_valid
    BY <1>5, <1>0 DEF OutFlat, AtMost
  <2> QED BY <1>5, <2>1 DEF OutFlat, FifoTypeOK, FifoClipsHold, kfifo_valid, putVars
<1>6. ASSUME NEW stage \in {"peek", "copy"}, OutOne(stage) PROVE FifoInv'
  <2>1. 1 <= kfifo_valid
    BY <1>6 DEF OutOne, FifoTypeOK, kfifo_valid, Distance
  <2> QED BY <1>6, <2>1 DEF OutOne, FifoTypeOK, FifoClipsHold, kfifo_valid, putVars
<1>7. CASE OutCopy
  <2>1. readBuf' = [k \in 1 .. getting |-> fifoData[(fifoOut + k - 1) % FifoSize]]
    <3>1. fifoOut \in 0 .. FifoWord - 1 /\ getting <= FifoSize
      BY <1>0 DEF FifoTypeOK
    <3>2. Copied(getting, fifoOut) = [k \in 1 .. getting |-> fifoData[(fifoOut + k - 1) % FifoSize]]
      BY <3>1, <1>0, CopiedAt
    <3> QED BY <3>2, <1>7 DEF OutCopy
  <2>2. readBuf' \in Seq(FifoValues)
    <3>1. ASSUME NEW k \in 1 .. getting
          PROVE  fifoData[(fifoOut + k - 1) % FifoSize] \in FifoValues
      BY <1>0 DEF FifoTypeOK, Slots
    <3> QED BY <2>1, <3>1, <1>0
  <2> QED BY <1>7, <2>1, <2>2, <1>0 DEF OutCopy, FifoTypeOK, FifoClipsHold, kfifo_valid, putVars
<1>8. CASE OutStep
  <2>1. /\ fifoOut' \in 0 .. FifoWord - 1
        /\ Distance(fifoIn, fifoOut') = kfifo_valid - getting
    <3>1. /\ fifoIn \in 0 .. FifoWord - 1 /\ fifoOut \in 0 .. FifoWord - 1
          /\ getting <= FifoSize /\ getting <= kfifo_valid
      BY <1>0 DEF FifoTypeOK
    <3>2. fifoOut' = Advance(fifoOut, getting)
      BY <1>8 DEF OutStep
    <3>3. fifoOut' \in 0 .. FifoWord - 1
      BY <3>1, <3>2, <1>0 DEF Advance
    <3>4. Distance(fifoIn, Advance(fifoOut, getting)) = Distance(fifoIn, fifoOut) - getting
      BY <3>1, <1>0, DistanceMoves DEF kfifo_valid
    <3> QED BY <3>2, <3>3, <3>4 DEF kfifo_valid
  <2> QED BY <1>8, <2>1, <1>0 DEF OutStep, FifoTypeOK, FifoClipsHold, kfifo_valid, putVars
<1>9. CASE Homing
  BY <1>9, <1>0 DEF Homing, FifoTypeOK, FifoClipsHold, kfifo_valid, kfifo_unused, Distance, putVars
<1>10. CASE Reset
  BY <1>10, <1>0 DEF Reset, FifoTypeOK, FifoClipsHold, kfifo_valid, Distance
<1>11. CASE UNCHANGED fifoVars
  BY <1>11 DEF fifoVars, putVars, getVars, FifoTypeOK, FifoClipsHold, kfifo_valid
<1> QED BY <1>1, <1>2, <1>3, <1>4, <1>5, <1>6, <1>7, <1>8, <1>9, <1>10, <1>11 DEF FifoNext

LEMMA FifoInvariant == FifoSpec => []FifoInv
BY FifoStarts, FifoStep, PTL DEF FifoSpec

\* What a side clipped its length to still fits when it acts on it
\* (kfifo.c:110, kfifo.c:133), whatever the other side did since.
THEOREM ClipsAlwaysHold == FifoSpec => []FifoClipsHold
<1>1. FifoInv => FifoClipsHold
  BY DEF FifoInv
<1> QED BY <1>1, FifoInvariant, PTL

\* The two unlocked copies never meet in a slot.
THEOREM SidesAlwaysApart == FifoSpec => []FifoSidesApart
<1>1. FifoInv => FifoSidesApart
  BY ApartByClips DEF FifoInv
<1> QED BY <1>1, FifoInvariant, PTL

-----------------------------------------------------------------------------
(* The refinement *)

\* Two sequences are the same when they agree place by place.
LEMMA SamePlaces ==
  ASSUME NEW S, NEW s \in Seq(S), NEW t \in Seq(S), Len(s) = Len(t),
         \A k \in 1 .. Len(s) : s[k] = t[k]
  PROVE  s = t
OBVIOUS

\* The mapped queue is a sequence of elements, one for each valid slot.
LEMMA ContentsAre ==
  FifoInv => Contents \in Seq(FifoValues) /\ Len(Contents) = kfifo_valid
<1> SUFFICES ASSUME FifoTypeOK, FifoClipsHold
             PROVE  Contents \in Seq(FifoValues) /\ Len(Contents) = kfifo_valid
  BY DEF FifoInv
<1>1. kfifo_valid \in Nat
  BY Lengths
<1>2. ASSUME NEW k \in 1 .. kfifo_valid
      PROVE  fifoData[(fifoOut + k - 1) % FifoSize] \in FifoValues
  BY <1>1 DEF FifoTypeOK, Slots
<1> QED BY <1>1, <1>2 DEF Contents

LEMMA FifoMapsStart == FifoInit => FifoQueue!AbsQueueInit
BY DEF FifoInit, FifoQueue!AbsQueueInit, Contents, kfifo_valid, Distance

LEMMA FifoMapsStep ==
  FifoInv /\ [FifoNext]_fifoVars =>
    [FifoQueue!Offer \/ FifoQueue!Put \/ FifoQueue!Read \/ FifoQueue!Consume \/ FifoQueue!Discard]_(FifoQueue!queueAbsVars)
<1> SUFFICES ASSUME FifoInv, [FifoNext]_fifoVars
             PROVE  \/ FifoQueue!Offer \/ FifoQueue!Put \/ FifoQueue!Read \/ FifoQueue!Consume \/ FifoQueue!Discard
                    \/ UNCHANGED <<Contents, putting, readBuf>>
  BY DEF FifoQueue!queueAbsVars
<1>0. /\ kfifo_valid \in Nat /\ kfifo_unused \in Nat /\ kfifo_valid + kfifo_unused = FifoSize
      /\ Len(putting) \in Nat /\ Len(putting) <= kfifo_unused
      /\ getting \in Nat /\ getting <= kfifo_valid
  BY Lengths DEF FifoInv
<1>a. FifoSidesApart
  BY ApartByClips DEF FifoInv
<1>b. FifoInv'
  BY FifoStep
<1>c. /\ Contents \in Seq(FifoValues) /\ Len(Contents) = kfifo_valid
      /\ Contents' \in Seq(FifoValues) /\ Len(Contents') = kfifo_valid'
  <2>1. (FifoInv => Contents \in Seq(FifoValues) /\ Len(Contents) = kfifo_valid)'
    BY ContentsAre, PTL
  <2> QED BY <2>1, <1>b, ContentsAre
<1>d. UNCHANGED <<fifoIn, fifoOut, fifoData>> => UNCHANGED Contents
  BY DEF Contents, kfifo_valid
<1>e. /\ putting' \in Seq(FifoValues)
      /\ UNCHANGED Contents => Len(Contents) + Len(putting') <= FifoSize
  BY <1>b, <1>c DEF FifoInv, FifoTypeOK, FifoClipsHold
<1>1. ASSUME NEW s \in Payloads, InFlat(s) PROVE FifoQueue!Offer
  <2>1. putting = <<>> /\ UNCHANGED <<Contents, readBuf>>
    BY <1>1, <1>d DEF InFlat, getVars, FifoInv
  <2> HIDE DEF Contents
  <2> QED BY <2>1, <1>e DEF FifoQueue!Offer
<1>2. ASSUME NEW v \in FifoValues, PutOne(v) PROVE FifoQueue!Offer
  <2>1. putting = <<>> /\ UNCHANGED <<Contents, readBuf>>
    BY <1>2, <1>d DEF PutOne, getVars, FifoInv
  <2> HIDE DEF Contents
  <2> QED BY <2>1, <1>e DEF FifoQueue!Offer
<1>3. CASE InCopy
  <2> DEFINE new == Written(putting, fifoIn)
  <2>1. \A i \in Slots : (\A j \in 0 .. Len(putting) - 1 : i # (fifoIn + j) % FifoSize)
                            => new[i] = fifoData[i]
    BY WrittenAt, <1>0 DEF FifoInv, FifoTypeOK
  <2> HIDE DEF new
  <2>2. fifoData' = new /\ UNCHANGED <<fifoIn, fifoOut, putting, readBuf>>
    BY <1>3 DEF InCopy, new, getVars
  <2>3. ASSUME NEW k \in 1 .. kfifo_valid
        PROVE  new[(fifoOut + k - 1) % FifoSize] = fifoData[(fifoOut + k - 1) % FifoSize]
    <3>1. k - 1 \in 0 .. kfifo_valid - 1 /\ fifoOut + (k - 1) = fifoOut + k - 1
      BY <1>0 DEF FifoInv, FifoTypeOK
    <3>2. (fifoOut + k - 1) % FifoSize \in Slots
      BY DEF FifoInv, FifoTypeOK, Slots
    <3> QED BY <3>1, <3>2, <2>1, <1>a DEF FifoSidesApart
  <2> QED BY <2>2, <2>3 DEF Contents, kfifo_valid
<1>4. CASE InStep
  <2> DEFINE n == Len(putting)
  <2>1. /\ fifoIn \in 0 .. FifoWord - 1 /\ fifoOut \in 0 .. FifoWord - 1
        /\ n \in Nat /\ n <= FifoSize /\ kfifo_valid + n <= FifoSize
    BY <1>0 DEF FifoInv, FifoTypeOK
  <2>2. fifoIn' = Advance(fifoIn, n) /\ UNCHANGED <<fifoOut, fifoData, readBuf>>
    BY <1>4 DEF InStep, getVars
  <2>3. kfifo_valid' = kfifo_valid + n
    BY <2>1, <2>2, DistanceMoves DEF kfifo_valid
  <2>4. \A k \in 1 .. kfifo_valid : Contents'[k] = Contents[k]
    BY <2>1, <2>2, <2>3, <1>0 DEF Contents
  <2>5. ASSUME NEW k \in 1 .. n PROVE Contents'[kfifo_valid + k] = putting[k]
    <3>1. kfifo_valid + k \in 1 .. kfifo_valid' /\ k - 1 \in 0 .. n - 1
      BY <2>1, <2>3, <1>0
    <3>2. (fifoIn + (k - 1)) % FifoSize = (fifoOut + kfifo_valid + (k - 1)) % FifoSize
      BY <2>1, <3>1, SlotOfIn DEF kfifo_valid
    <3>3. fifoOut + kfifo_valid + (k - 1) = fifoOut + (kfifo_valid + k) - 1
      BY <2>1, <1>0
    <3>4. fifoData[(fifoIn + (k - 1)) % FifoSize] = putting[k]
      <4> DEFINE j == k - 1
      <4>1. \A i \in 0 .. n - 1 : fifoData[(fifoIn + i) % FifoSize] = putting[i + 1]
        BY <1>4 DEF InStep, FifoInv
      <4>2. j \in 0 .. n - 1 /\ j + 1 = k
        BY <3>1, <2>1
      <4> HIDE DEF j
      <4>3. fifoData[(fifoIn + j) % FifoSize] = putting[j + 1]
        BY <4>1, <4>2
      <4> QED BY <4>2, <4>3 DEF j
    <3> QED BY <3>1, <3>2, <3>3, <3>4, <2>2 DEF Contents
  <2>6. Contents' = Contents \o putting
    <3>1. Len(Contents \o putting) = Len(Contents')
      <4> DEFINE c == Contents
      <4>1. c \in Seq(FifoValues) /\ Len(c) = kfifo_valid /\ putting \in Seq(FifoValues)
        BY <1>c DEF FifoInv, FifoTypeOK
      <4> HIDE DEF c
      <4>2. Len(c \o putting) = kfifo_valid + n
        BY <4>1
      <4> QED BY <4>2, <2>3, <1>c DEF c
    <3>2. ASSUME NEW k \in 1 .. Len(Contents') PROVE Contents'[k] = (Contents \o putting)[k]
      <4>1. CASE k <= kfifo_valid
        BY <4>1, <2>1, <2>4, <1>c, <1>0 DEF FifoInv, FifoTypeOK
      <4>2. CASE k > kfifo_valid
        <5>1. k - kfifo_valid \in 1 .. n /\ kfifo_valid + (k - kfifo_valid) = k
          BY <4>2, <2>1, <2>3, <1>c, <1>0
        <5>2. Contents'[k] = putting[k - kfifo_valid]
          BY <5>1, <2>5
        <5> HIDE DEF Contents
        <5> QED BY <5>1, <5>2, <4>2, <2>1, <1>c, <1>0 DEF FifoInv, FifoTypeOK
      <4> QED BY <4>1, <4>2, <1>c, <1>0, <2>3, <2>1
    <3>3. Contents \o putting \in Seq(FifoValues)
      BY <1>c DEF FifoInv, FifoTypeOK
    <3> DEFINE after == Contents'
               both  == Contents \o putting
    <3>4. /\ after \in Seq(FifoValues) /\ both \in Seq(FifoValues) /\ Len(after) = Len(both)
          /\ \A k \in 1 .. Len(after) : after[k] = both[k]
      BY <3>1, <3>2, <3>3, <1>c
    <3> HIDE DEF after, both
    <3>5. after = both
      BY ONLY <3>4, SamePlaces
    <3> QED BY <3>5 DEF after, both
  <2>7. FifoQueue!Put
    BY <2>2, <2>6, <1>4 DEF InStep, FifoQueue!Put
  <2> QED BY <2>7
<1>5. ASSUME NEW len \in 0 .. FifoMaxLen, NEW stage \in {"peek", "copy"}, OutFlat(len, stage)
      PROVE  UNCHANGED <<Contents, putting, readBuf>>
  BY <1>5, <1>d DEF OutFlat, putVars
<1>6. ASSUME NEW stage \in {"peek", "copy"}, OutOne(stage) PROVE UNCHANGED <<Contents, putting, readBuf>>
  BY <1>6, <1>d DEF OutOne, putVars
<1>7. CASE OutCopy
  <2>1. fifoOut \in 0 .. FifoWord - 1 /\ getting <= FifoSize
    BY <1>0 DEF FifoInv, FifoTypeOK
  <2>2. readBuf' = [k \in 1 .. getting |-> fifoData[(fifoOut + k - 1) % FifoSize]]
    BY <2>1, <1>0, <1>7, CopiedAt DEF OutCopy
  <2>3. readBuf' = [k \in 1 .. getting |-> Contents[k]]
    BY <2>2, <1>0 DEF Contents
  <2>4. SubSeq(Contents, 1, getting) = [k \in 1 .. getting |-> Contents[k]]
    BY <1>0, <1>c
  <2>5. UNCHANGED <<Contents, putting>>
    BY <1>7, <1>d DEF OutCopy, putVars
  <2>6. getting \in 0 .. Len(Contents) /\ readBuf' = SubSeq(Contents, 1, getting)
    BY <2>3, <2>4, <1>0, <1>c
  <2> HIDE DEF Contents
  <2>7. FifoQueue!Read
    BY <2>5, <2>6 DEF FifoQueue!Read
  <2> QED BY <2>7
<1>8. CASE OutStep
  <2>1. /\ fifoIn \in 0 .. FifoWord - 1 /\ fifoOut \in 0 .. FifoWord - 1
        /\ getting <= FifoSize /\ getting <= kfifo_valid
    BY <1>0 DEF FifoInv, FifoTypeOK
  <2>2. fifoOut' = Advance(fifoOut, getting) /\ UNCHANGED <<fifoIn, fifoData, putting, readBuf>>
    BY <1>8 DEF OutStep, putVars
  <2>3. kfifo_valid' = kfifo_valid - getting
    BY <2>1, <2>2, <1>0, DistanceMoves DEF kfifo_valid
  <2>4. readBuf = [k \in 1 .. getting |-> fifoData[(fifoOut + k - 1) % FifoSize]]
    BY <1>8 DEF OutStep, FifoInv
  <2>5. readBuf = SubSeq(Contents, 1, getting) /\ Len(readBuf) = getting
    <3>1. readBuf = [k \in 1 .. getting |-> Contents[k]]
      BY <2>4, <1>0 DEF Contents
    <3>2. SubSeq(Contents, 1, getting) = [k \in 1 .. getting |-> Contents[k]]
      BY <1>0, <1>c
    <3>3. Len(readBuf) = getting
      BY <3>1, <1>0
    <3> QED BY <3>1, <3>2, <3>3
  <2>6. ASSUME NEW k \in 1 .. kfifo_valid - getting PROVE Contents'[k] = Contents[getting + k]
    <3>1. k - 1 \in Nat /\ k \in 1 .. kfifo_valid' /\ getting + k \in 1 .. kfifo_valid
      BY <2>3, <1>0
    <3>2. (Advance(fifoOut, getting) + (k - 1)) % FifoSize = (fifoOut + getting + (k - 1)) % FifoSize
      BY <2>1, <1>0, <3>1, SlotAdvance
    <3>3. /\ Advance(fifoOut, getting) + (k - 1) = fifoOut' + k - 1
          /\ fifoOut + getting + (k - 1) = fifoOut + (getting + k) - 1
      BY <2>1, <2>2, <1>0 DEF Advance
    <3> QED BY <3>1, <3>2, <3>3, <2>2 DEF Contents
  <2>7. Contents' = SubSeq(Contents, getting + 1, Len(Contents))
    <3>1. SubSeq(Contents, getting + 1, Len(Contents)) \in Seq(FifoValues)
      BY <1>c, <1>0
    <3>2. Len(SubSeq(Contents, getting + 1, Len(Contents))) = kfifo_valid - getting
      BY <1>c, <1>0
    <3>3. \A k \in 1 .. kfifo_valid - getting :
            SubSeq(Contents, getting + 1, Len(Contents))[k] = Contents[getting + k]
      BY <1>c, <1>0
    <3> QED BY <3>1, <3>2, <3>3, <2>3, <2>6, <1>c
  <2> QED BY <2>2, <2>5, <2>7, <1>0, <1>c, <2>1 DEF FifoQueue!Consume
<1>9. CASE Homing
  <2>1. kfifo_valid' = 0
    BY <1>9 DEF Homing, kfifo_valid, Distance, FifoInv, FifoTypeOK, putVars
  <2>2. Contents' = <<>>
    BY <2>1, <1>c
  <2> QED BY <1>9, <2>2 DEF Homing, FifoQueue!Discard, putVars
<1>10. CASE Reset
  <2>1. kfifo_valid' = 0
    BY <1>10 DEF Reset, kfifo_valid, Distance
  <2>2. Contents' = <<>>
    BY <2>1, <1>c
  <2> QED BY <1>10, <2>2 DEF Reset, FifoQueue!Discard
<1>11. CASE UNCHANGED fifoVars
  BY <1>11, <1>d DEF fifoVars, putVars, getVars
<1> QED BY <1>1, <1>2, <1>3, <1>4, <1>5, <1>6, <1>7, <1>8, <1>9, <1>10, <1>11 DEF FifoNext

\* The ring that two sides use without a lock is a bounded queue, for every
\* size, word length, and interleaving: kfifo_in, kfifo_out, put, get, peek.
THEOREM FifoImplementsQueue == FifoSpec => FifoIsQueue
BY FifoMapsStart, FifoMapsStep, FifoInvariant, PTL
   DEF FifoSpec, FifoIsQueue, FifoQueue!AbsQueueSpec

=============================================================================
