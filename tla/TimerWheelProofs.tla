-------------------------- MODULE TimerWheelProofs ---------------------------
(***************************************************************************)
(* What TimerWheel keeps for any set of timers, any deltas and any shape   *)
(* of the wheel: no bucket is overlooked and no timer missed.  The         *)
(* inductive invariant is WheelInv; its core is that every linked timer's  *)
(* bucket comes by, counted in turns of its level, between recent_timer    *)
(* and the end of the bucket behind the timer's expiry.                    *)
(***************************************************************************)
EXTENDS TimerWheel, ListFacts

\* A timer is linked at one place at most.
LinkedOnce ==
  \A t \in Timers :
    /\ \A b, c \in Buckets : t \in wheels[b] /\ t \in wheels[c] => b = c
    /\ \A d, e \in Levels : t \in heads[d] /\ t \in heads[e] => d = e
    /\ \A b \in Buckets, d \in Levels : ~(t \in wheels[b] /\ t \in heads[d])

\* The variables' types.
WheelTypes ==
  /\ ticktime \in 0 .. MaxTime /\ current \in Nat /\ recent_timer \in Nat
  /\ next_recalc \in BOOLEAN /\ timers_pending \in BOOLEAN /\ locked \in BOOLEAN
  /\ pending_map \subseteq Buckets
  /\ wheels \in [Buckets -> SUBSET Timers]
  /\ heads \in [Levels -> SUBSET Timers]
  /\ delta \in [Timers -> Deltas]
  /\ expires \in [Timers -> Nat]
  /\ softirq \in {"off", "raised", "on", "again"}

\* The wheel's clock, the next expiry and the present: the clock is at most one
\* ahead, and while the softirq is not wanted nothing is due.
ClocksInv ==
  /\ current <= ticktime + 1
  /\ current <= recent_timer
  /\ softirq = "off" => ticktime < recent_timer

\* Bucket b is looked at when recent_timer is x.
DueAt(b, x) == Level(b) \in DueLevels(x) /\ DueBucket(x, Level(b)) = b

\* Every timer's bucket is looked at between recent_timer and the end of the bucket
\* behind the timer's expiry.
ReachedInv ==
  \A b \in Buckets : \A t \in wheels[b] :
    \E x \in recent_timer .. expires[t] + Gain(Level(b)) : DueAt(b, x)

\* When there is a next expiry, recent_timer is the time of a marked bucket.
AimInv == timers_pending /\ ~next_recalc => \E b \in pending_map : DueAt(b, recent_timer)

WheelInv == WheelTypes /\ BucketsMarked /\ LinkedOnce /\ ClocksInv /\ ReachedInv /\ AimInv

-----------------------------------------------------------------------------
(* Levels, buckets and times *)

LEMMA GainIsPositive ==
  ASSUME NEW d \in Nat
  PROVE  Gain(d) \in Nat \ {0}
  <1>1. ClockShift * d \in Nat
    BY WheelAssumption
  <1> QED BY <1>1, PowerOfTwo DEF Gain

\* The buckets of level 0 hold a tick; those of the next level CLOCK_DIV times as
\* many as those of this one.
LEMMA GainGrows ==
  /\ Gain(0) = 1
  /\ ClockDiv \in Nat \ {0}
  /\ \A d \in Nat : Gain(d + 1) = ClockDiv * Gain(d)
  <1>1. Gain(0) = 1
    <2>1. ClockShift * 0 = 0
      BY WheelAssumption
    <2> QED BY <2>1, PowerZero DEF Gain
  <1>2. ClockDiv \in Nat \ {0}
    BY WheelAssumption, PowerOfTwo DEF ClockDiv
  <1>3. ASSUME NEW d \in Nat PROVE Gain(d + 1) = ClockDiv * Gain(d)
    <2>1. ClockShift * d \in Nat /\ ClockShift \in Nat
          /\ ClockShift * (d + 1) = ClockShift + ClockShift * d
      BY WheelAssumption
    <2>2. 2 ^ (ClockShift + ClockShift * d) = 2 ^ ClockShift * 2 ^ (ClockShift * d)
      BY <2>1, PowerSum
    <2> QED BY <2>1, <2>2 DEF Gain, ClockDiv
  <1> QED BY <1>1, <1>2, <1>3

\* So the end of a bucket is the end of one of every lower level.
LEMMA GainDivides ==
  ASSUME NEW d \in Nat, NEW e \in Nat, e <= d
  PROVE  \E k \in Nat : Gain(d) = k * Gain(e)
  <1> DEFINE c == d - e
             a == ClockShift * c
             b == ClockShift * e
  <1>1. c \in Nat /\ a \in Nat /\ b \in Nat /\ ClockShift * d = a + b
    BY WheelAssumption
  <1>2. 2 ^ (a + b) = 2 ^ a * 2 ^ b /\ 2 ^ a \in Nat
    <2> HIDE DEF a, b
    <2> QED BY <1>1, PowerSum, PowerOfTwo
  <1> QED BY <1>1, <1>2 DEF Gain

\* The r-th bucket of level d is of level d.
LEMMA BucketOfLevel ==
  ASSUME NEW d \in Levels, NEW r \in 0 .. LevelSize - 1
  PROVE  /\ LevelSize * d + r \in Buckets
         /\ Level(LevelSize * d + r) = d
         /\ (LevelSize * d + r) % LevelSize = r
  <1>1. LevelSize \in Nat \ {0} /\ Depth \in Nat /\ d \in Nat /\ d <= Depth - 1
    BY WheelAssumption DEF Levels
  <1>2. LevelSize * d <= LevelSize * (Depth - 1) /\ LevelSize * (Depth - 1) = LevelSize * Depth - LevelSize
    BY <1>1
  <1>3. LevelSize * d \in Nat /\ LevelSize * Depth \in Nat
    BY <1>1
  <1>4. LevelSize * d + r \in Buckets
    BY <1>1, <1>2, <1>3 DEF Buckets
  <1> DEFINE x == LevelSize * d + r
  <1>5. x \in Int /\ x = LevelSize * d + r
    BY <1>1, <1>3
  <1> HIDE DEF x
  <1>6. x \div LevelSize = d /\ x % LevelSize = r
    BY <1>1, <1>5, DivUnique
  <1> QED BY <1>4, <1>6 DEF Level, x

\* Every bucket is the so-many-th one of its level.
LEMMA LevelOfBucket ==
  ASSUME NEW b \in Buckets
  PROVE  /\ Level(b) \in Levels
         /\ b % LevelSize \in 0 .. LevelSize - 1
         /\ b = LevelSize * Level(b) + (b % LevelSize)
  <1>1. LevelSize \in Nat \ {0} /\ Depth \in Nat \ {0} /\ LevelSize * Depth \in Nat
        /\ b \in Nat /\ b < LevelSize * Depth
    BY WheelAssumption DEF Buckets
  <1> DEFINE d == b \div LevelSize
             r == b % LevelSize
  <1>2. d \in Nat /\ r \in 0 .. LevelSize - 1 /\ b = LevelSize * d + r
    BY <1>1
  <1> HIDE DEF d, r
  <1>3. d <= Depth - 1
    <2> SUFFICES ASSUME d >= Depth PROVE FALSE
      BY <1>1, <1>2
    <2>1. LevelSize * d >= LevelSize * Depth
      BY <1>1, <1>2
    <2> QED BY <1>1, <1>2, <2>1
  <1> QED BY <1>1, <1>2, <1>3 DEF Level, Levels, d, r

\* Bucket b is looked at every turn of its level.
LEMMA DueAtTurn ==
  ASSUME NEW b \in Buckets, NEW n \in Nat, n % LevelSize = b % LevelSize
  PROVE  DueAt(b, n * Gain(Level(b))) /\ n * Gain(Level(b)) \in Nat
  <1> DEFINE d == Level(b)
             g == Gain(d)
             x == n * g
  <1>1. d \in Levels /\ d \in Nat /\ b = LevelSize * d + (b % LevelSize)
    BY LevelOfBucket, WheelAssumption DEF Levels
  <1>2. g \in Nat \ {0}
    BY <1>1, GainIsPositive
  <1> HIDE DEF g
  <1>3. x \in Nat /\ x = g * n + 0
    BY <1>2
  <1> HIDE DEF x, d
  <1>4. x \div g = n /\ x % g = 0
    BY <1>2, <1>3, DivUnique
  <1>5. d \in DueLevels(x) /\ DueBucket(x, d) = b
    BY <1>1, <1>4 DEF DueLevels, DueBucket, g
  <1> QED BY <1>3, <1>5 DEF DueAt, d, g, x

\* And at no other time.
LEMMA TurnOfDue ==
  ASSUME NEW b \in Buckets, NEW x \in Nat, DueAt(b, x)
  PROVE  \E n \in Nat : x = n * Gain(Level(b)) /\ n % LevelSize = b % LevelSize
  <1> DEFINE d == Level(b)
             g == Gain(d)
             n == x \div g
  <1>1. d \in Levels /\ d \in Nat /\ b = LevelSize * d + (b % LevelSize)
        /\ b % LevelSize \in Int /\ LevelSize \in Nat \ {0}
    BY LevelOfBucket, WheelAssumption DEF Levels
  <1>2. g \in Nat \ {0}
    BY <1>1, GainIsPositive
  <1>3. x % g = 0 /\ LevelSize * d + (n % LevelSize) = b
    BY DEF DueAt, DueLevels, DueBucket
  <1> HIDE DEF g, d
  <1>4. n \in Nat /\ x = g * n + (x % g)
    BY <1>2
  <1>5. x = n * g
    BY <1>2, <1>3, <1>4
  <1>6. n % LevelSize = b % LevelSize
    <2> HIDE DEF n
    <2>1. n % LevelSize \in Int /\ LevelSize * d \in Int
      BY <1>1, <1>4
    <2> QED BY <1>1, <1>3, <2>1
  <1> QED BY <1>4, <1>5, <1>6 DEF g, d

\* At one time one bucket of a level is looked at.
LEMMA DueBucketOfLevel ==
  ASSUME NEW x \in Nat, NEW d \in Levels
  PROVE  DueBucket(x, d) \in Buckets /\ Level(DueBucket(x, d)) = d
  <1>1. d \in Nat /\ LevelSize \in Nat \ {0}
    BY WheelAssumption DEF Levels
  <1>2. Gain(d) \in Nat \ {0}
    BY <1>1, GainIsPositive
  <1> DEFINE n == x \div Gain(d)
             r == n % LevelSize
  <1>3. n \in Nat
    BY <1>2, DivMod
  <1> HIDE DEF n
  <1>4. r \in 0 .. LevelSize - 1
    BY <1>1, <1>3
  <1> HIDE DEF r
  <1> QED BY <1>4, BucketOfLevel DEF DueBucket, n, r

-----------------------------------------------------------------------------
(* Insertion *)

\* The end of a bucket: clac_index rounds to the one behind exp.
LEMMA SlotAt ==
  ASSUME NEW d \in Levels, NEW exp \in Nat
  PROVE  /\ Slot(d, exp).bucket \in Buckets
         /\ Level(Slot(d, exp).bucket) = d
         /\ Slot(d, exp).expiry \in Nat
         /\ exp < Slot(d, exp).expiry
         /\ Slot(d, exp).expiry <= exp + Gain(d)
         /\ DueAt(Slot(d, exp).bucket, Slot(d, exp).expiry)
  <1> DEFINE g == Gain(d)
             a == exp + g
             n == a \div g
             s == a % g
             r == n % LevelSize
             b == LevelSize * d + r
  <1>1. d \in Nat /\ LevelSize \in Nat \ {0}
    BY WheelAssumption DEF Levels
  <1>2. g \in Nat \ {0}
    BY <1>1, GainIsPositive
  <1>3. Slot(d, exp) = [bucket |-> b, expiry |-> n * g]
    BY DEF Slot
  <1> HIDE DEF g
  <1>4. a \in Nat /\ a = exp + g
    BY <1>2
  <1> HIDE DEF a
  <1>5. n \in Nat /\ s \in 0 .. g - 1 /\ a = g * n + s
    BY <1>2, <1>4
  <1> HIDE DEF n, s
  <1>6. r \in 0 .. LevelSize - 1
    BY <1>1, <1>5
  <1>7. b \in Buckets /\ Level(b) = d /\ b % LevelSize = r
    <2> HIDE DEF r
    <2> QED BY <1>6, BucketOfLevel
  <1>8. DueAt(b, n * g) /\ n * g \in Nat
    <2> HIDE DEF b
    <2>1. DueAt(b, n * Gain(Level(b))) /\ n * Gain(Level(b)) \in Nat
      BY <1>5, <1>7, DueAtTurn DEF r
    <2> QED BY <2>1, <1>7 DEF g
  <1>9. exp < n * g /\ n * g <= exp + g
    BY <1>2, <1>4, <1>5
  <1> HIDE DEF b
  <1> QED BY <1>3, <1>7, <1>8, <1>9 DEF g

\* clac_wheel: wherever the timer goes, the bucket is looked at neither before the
\* wheel's clock nor after the end of the bucket behind exp, and later than any
\* present that neither the clock nor the expiry is behind.
LEMMA ClacWheelAt ==
  ASSUME NEW cur \in Nat, NEW exp \in Nat, cur <= exp + 1
  PROVE  LET slot == clac_wheel(cur, exp)
         IN  /\ slot.bucket \in Buckets
             /\ slot.expiry \in Nat
             /\ DueAt(slot.bucket, slot.expiry)
             /\ cur <= slot.expiry
             /\ slot.expiry <= exp + Gain(Level(slot.bucket))
             /\ \A now \in Nat : now <= cur /\ now <= exp => now < slot.expiry
  <1> DEFINE fits == {d \in Levels : exp - cur < LevelEnd(d)}
  <1>0. Depth - 1 \in Levels /\ 0 \in Levels /\ LevelSize \in Nat \ {0}
        /\ Depth - 1 \in Nat
    BY WheelAssumption DEF Levels
  <1>1. CASE exp < cur
    <2> DEFINE r == cur % LevelSize
               b == LevelSize * 0 + r
    <2>1. clac_wheel(cur, exp) = [bucket |-> r, expiry |-> cur]
      BY <1>1 DEF clac_wheel
    <2>2. r \in 0 .. LevelSize - 1
      BY <1>0
    <2>3. b \in Buckets /\ Level(b) = 0 /\ b % LevelSize = r
      <3> HIDE DEF r
      <3> QED BY <1>0, <2>2, BucketOfLevel
    <2>4. b = r
      BY <1>0, <2>2
    <2> HIDE DEF b
    <2>5. DueAt(b, cur * Gain(Level(b)))
      BY <2>3, DueAtTurn DEF r
    <2>6. Gain(Level(b)) = 1
      BY <2>3, GainGrows
    <2> HIDE DEF r
    <2>7. DueAt(r, cur) /\ r \in Buckets /\ Gain(Level(r)) = 1
      BY <2>3, <2>4, <2>5, <2>6
    <2> QED BY <1>1, <2>1, <2>7
  <1>2. CASE exp >= cur /\ fits # {}
    <2>1. clac_wheel(cur, exp) = Slot(Min(fits), exp)
      BY <1>2 DEF clac_wheel
    <2>2. Min(fits) \in Levels
      <3>1. fits \in SUBSET Nat
        BY WheelAssumption DEF Levels
      <3> HIDE DEF fits
      <3>2. Min(fits) \in fits
        BY <3>1, <1>2, MinNat
      <3> QED BY <3>2 DEF fits
    <2> DEFINE d    == Min(fits)
               slot == Slot(d, exp)
    <2> HIDE DEF d, fits
    <2>3. /\ slot.bucket \in Buckets
          /\ Level(slot.bucket) = d
          /\ slot.expiry \in Nat
          /\ exp < slot.expiry
          /\ slot.expiry <= exp + Gain(d)
          /\ DueAt(slot.bucket, slot.expiry)
      BY <2>2, SlotAt DEF d
    <2> HIDE DEF slot
    <2> QED BY <1>2, <2>1, <2>3 DEF d, slot
  <1>3. CASE exp >= cur /\ fits = {}
    <2> DEFINE g == Gain(Depth - 1)
    <2>1. g \in Nat \ {0}
      BY <1>0, GainIsPositive
    <2>2. ~(exp - cur < LevelSize * g)
      BY <1>0, <1>3 DEF LevelEnd
    <2>3. TimeoutMax = LevelSize * g - g
      BY DEF TimeoutMax, TimeoutCut, LevelEnd
    <2>4. clac_wheel(cur, exp) = Slot(Depth - 1, cur + TimeoutMax)
      BY <1>3 DEF clac_wheel
    <2> HIDE DEF g
    <2>5. LevelSize * g \in Nat /\ LevelSize * g >= g
      BY <1>0, <2>1
    <2>6. TimeoutMax \in Nat /\ cur + TimeoutMax \in Nat
          /\ cur + TimeoutMax + g <= exp
      BY <2>1, <2>2, <2>3, <2>5
    <2> DEFINE slot == Slot(Depth - 1, cur + TimeoutMax)
    <2>7. /\ slot.bucket \in Buckets
          /\ Level(slot.bucket) = Depth - 1
          /\ slot.expiry \in Nat
          /\ cur + TimeoutMax < slot.expiry
          /\ slot.expiry <= cur + TimeoutMax + g
          /\ DueAt(slot.bucket, slot.expiry)
      BY <1>0, <2>6, SlotAt DEF g
    <2> HIDE DEF slot
    <2>8. Gain(Level(slot.bucket)) = g
      BY <2>7 DEF g
    <2>9. cur < slot.expiry /\ slot.expiry <= exp + g
      BY <2>1, <2>6, <2>7
    <2> QED BY <2>4, <2>7, <2>8, <2>9 DEF slot
  <1> QED BY <1>1, <1>2, <1>3

\* timer_forward does not take the clock past what is due, nor past the present by
\* more than it was.
LEMMA ForwardStays ==
  ASSUME WheelTypes, ClocksInv
  PROVE  /\ timer_forward \in Nat
         /\ timer_forward <= recent_timer
         /\ timer_forward <= ticktime + 1
         /\ softirq = "off" => ticktime <= timer_forward
  BY WheelAssumption DEF WheelTypes, ClocksInv, timer_forward

\* Where a timer goes when it is inserted.
InsertSlot(t) == clac_wheel(timer_forward, ticktime + delta[t])

LEMMA InsertSlotAt ==
  ASSUME NEW t \in Timers, WheelTypes, ClocksInv
  PROVE  /\ ticktime + delta[t] \in Nat
         /\ InsertSlot(t).bucket \in Buckets
         /\ InsertSlot(t).expiry \in Nat
         /\ DueAt(InsertSlot(t).bucket, InsertSlot(t).expiry)
         /\ timer_forward <= InsertSlot(t).expiry
         /\ InsertSlot(t).expiry <= ticktime + delta[t] + Gain(Level(InsertSlot(t).bucket))
         /\ softirq = "off" => ticktime < InsertSlot(t).expiry
  <1>1. ticktime \in Nat /\ delta[t] \in Nat
    <2>1. ticktime \in 0 .. MaxTime /\ delta[t] \in Deltas
      BY DEF WheelTypes
    <2>2. MaxTime \in Nat /\ Deltas \subseteq Nat
      BY WheelAssumption
    <2>3. ticktime \in Nat
      BY <2>1, <2>2
    <2>4. \A x \in Deltas : x \in Nat
      BY <2>2
    <2> QED BY <2>1, <2>3, <2>4
  <1>2. timer_forward \in Nat /\ timer_forward <= ticktime + 1
        /\ (softirq = "off" => ticktime <= timer_forward)
    BY ForwardStays
  <1> DEFINE exp == ticktime + delta[t]
  <1>3. exp \in Nat /\ timer_forward <= exp + 1 /\ ticktime <= exp
    BY <1>1, <1>2
  <1> HIDE DEF exp
  <1> QED BY <1>1, <1>2, <1>3, ClacWheelAt DEF InsertSlot, exp

-----------------------------------------------------------------------------
(* The steps *)

\* Inserting a timer that is in no bucket.
LEMMA InsertKeeps ==
  ASSUME NEW t \in Timers, WheelTypes, ClocksInv, ReachedInv, AimInv,
         \A b \in Buckets : t \notin wheels[b],
         forward_insert(t), UNCHANGED <<ticktime, delta, softirq>>
  PROVE  /\ \E b \in Buckets : wheels' = [wheels EXCEPT ![b] = @ \cup {t}]
         /\ current' \in Nat /\ recent_timer' \in Nat
         /\ next_recalc' \in BOOLEAN /\ timers_pending' \in BOOLEAN
         /\ pending_map' \subseteq Buckets
         /\ wheels' \in [Buckets -> SUBSET Timers]
         /\ expires' \in [Timers -> Nat]
         /\ ClocksInv' /\ ReachedInv' /\ AimInv'
  <1> DEFINE bk  == InsertSlot(t).bucket
             at  == InsertSlot(t).expiry
             exp == ticktime + delta[t]
  <1>1. /\ exp \in Nat /\ bk \in Buckets /\ at \in Nat
        /\ DueAt(bk, at)
        /\ timer_forward <= at
        /\ at <= exp + Gain(Level(bk))
        /\ softirq = "off" => ticktime < at
    BY InsertSlotAt
  <1>2. timer_forward \in Nat /\ timer_forward <= recent_timer /\ timer_forward <= ticktime + 1
    BY ForwardStays
  <1>3. /\ current' = timer_forward
        /\ expires' = [expires EXCEPT ![t] = exp]
        /\ wheels' = [wheels EXCEPT ![bk] = @ \cup {t}]
        /\ pending_map' = pending_map \cup {bk}
        /\ recent_timer' = IF at < recent_timer THEN at ELSE recent_timer
        /\ timers_pending' = ((at < recent_timer) \/ timers_pending)
        /\ next_recalc' = (~(at < recent_timer) /\ next_recalc)
    BY Zenon DEF forward_insert, InsertSlot
  <1> HIDE DEF bk, at, exp
  <1>4. /\ recent_timer \in Nat /\ ticktime \in Int /\ next_recalc \in BOOLEAN
        /\ timers_pending \in BOOLEAN /\ pending_map \subseteq Buckets
        /\ wheels \in [Buckets -> SUBSET Timers] /\ expires \in [Timers -> Nat]
    BY WheelAssumption DEF WheelTypes
  <1>5. /\ \E b \in Buckets : wheels' = [wheels EXCEPT ![b] = @ \cup {t}]
        /\ current' \in Nat /\ pending_map' \subseteq Buckets
        /\ wheels' \in [Buckets -> SUBSET Timers] /\ expires' \in [Timers -> Nat]
    BY <1>1, <1>2, <1>3, <1>4
  <1>6. recent_timer' \in Nat /\ recent_timer' <= recent_timer /\ recent_timer' <= at
    BY <1>1, <1>3, <1>4
  <1>7. next_recalc' \in BOOLEAN /\ timers_pending' \in BOOLEAN
    BY <1>3, <1>4
  <1>8. ClocksInv'
    <2>1. current' <= ticktime' + 1 /\ current' <= recent_timer'
      BY <1>1, <1>2, <1>3
    <2>2. softirq' = "off" => ticktime' < recent_timer'
      BY <1>1, <1>3 DEF ClocksInv
    <2> QED BY <2>1, <2>2 DEF ClocksInv
  <1>9. ReachedInv'
    <2> SUFFICES ASSUME NEW b \in Buckets, NEW u \in wheels'[b]
                 PROVE  \E x \in recent_timer' .. expires'[u] + Gain(Level(b)) : DueAt(b, x)
      BY DEF ReachedInv, DueAt, DueLevels, DueBucket, Level
    <2>1. Gain(Level(b)) \in Nat
      BY LevelOfBucket, GainIsPositive, WheelAssumption DEF Levels
    <2>2. u \in Timers
      BY <1>5
    <2>3. CASE u = t
      <3>1. b = bk
        BY <1>3, <1>4, <2>3
      <3>2. expires'[u] = exp
        BY <1>3, <1>4, <2>3
      <3>3. at \in recent_timer' .. expires'[u] + Gain(Level(b))
        BY <1>1, <1>6, <2>1, <3>1, <3>2
      <3> QED BY <1>1, <3>1, <3>3
    <2>4. CASE u # t
      <3>1. u \in wheels[b] /\ expires'[u] = expires[u] /\ expires[u] \in Nat
        BY <1>3, <1>4, <2>2, <2>4
      <3>2. PICK x \in recent_timer .. expires[u] + Gain(Level(b)) : DueAt(b, x)
        BY <3>1 DEF ReachedInv
      <3>3. x \in recent_timer' .. expires'[u] + Gain(Level(b))
        BY <1>4, <1>6, <2>1, <3>1
      <3> QED BY <3>2, <3>3
    <2> QED BY <2>3, <2>4
  <1>10. AimInv'
    <2> SUFFICES ASSUME timers_pending', ~next_recalc'
                 PROVE  \E b \in pending_map' : DueAt(b, recent_timer')
      BY DEF AimInv, DueAt, DueLevels, DueBucket, Level
    <2>1. CASE at < recent_timer
      BY <1>1, <1>3, <2>1
    <2>2. CASE ~(at < recent_timer)
      <3>1. timers_pending /\ ~next_recalc /\ recent_timer' = recent_timer
        BY <1>3, <2>2
      <3>2. PICK b \in pending_map : DueAt(b, recent_timer)
        BY <3>1 DEF AimInv
      <3> QED BY <1>3, <3>1, <3>2
    <2> QED BY <2>1, <2>2
  <1> QED BY <1>5, <1>6, <1>7, <1>8, <1>9, <1>10

\* And then it is linked there only, when it has left the list it was on.
LEMMA InsertLinksOnce ==
  ASSUME NEW t \in Timers, LinkedOnce, wheels \in [Buckets -> SUBSET Timers],
         \A c \in Buckets : t \notin wheels[c],
         NEW b \in Buckets, wheels' = [wheels EXCEPT ![b] = @ \cup {t}],
         \A d \in Levels : t \notin heads'[d] /\ heads'[d] \subseteq heads[d]
  PROVE  LinkedOnce'
  <1>1. \A c \in Buckets : wheels'[c] = IF c = b THEN wheels[c] \cup {t} ELSE wheels[c]
    OBVIOUS
  <1> SUFFICES ASSUME NEW u \in Timers
               PROVE  /\ \A c, e \in Buckets : u \in wheels'[c] /\ u \in wheels'[e] => c = e
                      /\ \A d, e \in Levels : u \in heads'[d] /\ u \in heads'[e] => d = e
                      /\ \A c \in Buckets, d \in Levels : ~(u \in wheels'[c] /\ u \in heads'[d])
    BY DEF LinkedOnce
  <1>2. CASE u = t
    BY <1>1, <1>2
  <1>3. CASE u # t
    BY <1>1, <1>3 DEF LinkedOnce
  <1> QED BY <1>2, <1>3

-----------------------------------------------------------------------------
(* The next expiry *)

\* Rounding up to the time of a level.
LEMMA AtIsCeiling ==
  ASSUME NEW now \in Nat, NEW d \in Nat
  PROVE  /\ At(now, d) \in Nat
         /\ now <= At(now, d) * Gain(d)
         /\ \A n \in Nat : now <= n * Gain(d) => At(now, d) <= n
  <1> DEFINE g == Gain(d)
             a == now + g - 1
             q == a \div g
             s == a % g
  <1>1. g \in Nat \ {0}
    BY GainIsPositive
  <1>2. At(now, d) = q
    BY DEF At
  <1> HIDE DEF g
  <1>3. a \in Nat /\ a = now + g - 1
    BY <1>1
  <1> HIDE DEF a
  <1>4. q \in Nat /\ s \in 0 .. g - 1 /\ a = g * q + s
    BY <1>1, <1>3
  <1> HIDE DEF q, s
  <1>5. now <= q * g
    BY <1>1, <1>3, <1>4
  <1>6. ASSUME NEW n \in Nat, now <= n * g PROVE q <= n
    <2> SUFFICES ASSUME q >= n + 1 PROVE FALSE
      BY <1>4
    <2>1. g * q >= g * (n + 1) /\ g * (n + 1) = n * g + g
      BY <1>1, <1>4
    <2> QED BY <1>1, <1>3, <1>4, <1>6, <2>1
  <1> QED BY <1>2, <1>4, <1>5, <1>6 DEF g

\* The first marked bucket of a level, from the level's time on: its next turn is
\* that many buckets on, and no marked bucket of the level has an earlier turn.
LEMMA FirstIsNearest ==
  ASSUME NEW now \in Nat, NEW m \in SUBSET Buckets, NEW d \in Levels, Marked(m, d) # {}
  PROVE  /\ First(now, m, d) \in Nat
         /\ \E b \in Marked(m, d) :
              (At(now, d) + First(now, m, d)) % LevelSize = b % LevelSize
         /\ \A b \in Marked(m, d), n \in Nat :
              n >= At(now, d) /\ n % LevelSize = b % LevelSize
                => At(now, d) + First(now, m, d) <= n
  <1> DEFINE a == At(now, d)
             M == Marked(m, d)
             D == {(b - a) % LevelSize : b \in M}
  <1>1. a \in Nat /\ LevelSize \in Nat \ {0}
    <2>1. d \in Nat /\ LevelSize \in Nat \ {0}
      BY WheelAssumption DEF Levels
    <2> QED BY <2>1, AtIsCeiling
  <1>2. M \subseteq Nat /\ M # {}
    <2>1. M \subseteq m /\ M # {}
      BY DEF Marked
    <2>2. \A b \in Buckets : b \in Nat
      BY DEF Buckets
    <2> QED BY <2>1, <2>2
  <1>3. First(now, m, d) = Min(D)
    BY DEF First
  <1> HIDE DEF a, M
  <1>4. D \in SUBSET Nat /\ D # {}
    <2>1. \A b \in M : (b - a) % LevelSize \in Nat
      BY <1>1, <1>2
    <2> QED BY <1>2, <2>1
  <1> DEFINE f == Min(D)
  <1>5. f \in D /\ \A x \in D : f <= x
    <2> HIDE DEF D
    <2> QED BY <1>4, MinNat
  <1> HIDE DEF f
  <1>6. f \in Nat
    BY <1>4, <1>5
  <1>7. \E b \in M : (a + f) % LevelSize = b % LevelSize
    <2>1. PICK b \in M : f = (b - a) % LevelSize
      BY <1>5
    <2> DEFINE x == b - a
               q == x \div LevelSize
    <2>2. x \in Int /\ b \in Int
      BY <1>1, <1>2
    <2> HIDE DEF x
    <2>3. q \in Int /\ x = LevelSize * q + f
      BY <1>1, <2>1, <2>2, DivMod DEF x
    <2> HIDE DEF q
    <2>4. b = a + f + LevelSize * q
      BY <1>1, <1>6, <2>2, <2>3 DEF x
    <2>5. a + f \in Int
      BY <1>1, <1>6
    <2>6. (a + f + LevelSize * q) % LevelSize = (a + f) % LevelSize
      BY <1>1, <2>3, <2>5, ModTurns
    <2> QED BY <2>4, <2>6
  <1>8. ASSUME NEW b \in M, NEW n \in Nat, n >= a, n % LevelSize = b % LevelSize
        PROVE  a + f <= n
    <2>1. PICK k \in Int : n = b + LevelSize * k
      <3>1. b \in Int /\ n \in Int /\ n % LevelSize = b % LevelSize
        BY <1>2, <1>8
      <3> QED BY <1>1, <3>1, SameMod
    <2> DEFINE x == b - a
               y == n - a
    <2>2. x \in Int /\ y \in Nat /\ y = x + LevelSize * k
      BY <1>1, <1>2, <1>8, <2>1
    <2>3. f <= x % LevelSize
      BY <1>5
    <2> HIDE DEF x, y
    <2>4. y % LevelSize = x % LevelSize
      BY <1>1, <2>2, ModTurns
    <2>5. y % LevelSize <= y
      BY <1>1, <2>2
    <2>6. y % LevelSize \in Int
      BY <1>1, <2>2
    <2>7. f <= y
      BY <1>6, <2>2, <2>3, <2>4, <2>5, <2>6
    <2> QED BY <1>1, <1>6, <2>7 DEF y
  <1> QED BY <1>3, <1>6, <1>7, <1>8 DEF a, M, f

\* Where the search stops, the first marked bucket of the level comes no later than
\* any time of the levels above.
LEMMA StopIsEarlier ==
  ASSUME NEW now \in Nat, NEW m \in SUBSET Buckets, NEW f \in Levels, Stops(now, m, f),
         NEW d \in Levels, f < d,
         NEW n \in Nat, now <= n * Gain(d)
  PROVE  (At(now, f) + First(now, m, f)) * Gain(f) <= n * Gain(d)
  <1> DEFINE a == At(now, f)
             g == Gain(f)
             h == First(now, m, f)
             c == (-a) % ClockDiv
  <1>1. f \in Nat /\ d \in Nat /\ f + 1 \in Nat /\ f + 1 <= d
    BY WheelAssumption DEF Levels
  <1>2. a \in Nat /\ g \in Nat \ {0} /\ \A j \in Nat : now <= j * g => a <= j
    BY <1>1, AtIsCeiling, GainIsPositive
  <1>3. h \in Nat /\ h <= c
    BY FirstIsNearest DEF Stops
  <1>4. ClockDiv \in Nat \ {0} /\ Gain(f + 1) = ClockDiv * g
    BY <1>1, GainGrows
  <1>5. PICK k \in Nat : Gain(d) = k * Gain(f + 1)
    BY <1>1, GainDivides
  <1> HIDE DEF a, g, h
  <1> DEFINE i == n * k
             j == ClockDiv * i
  <1>6. i \in Nat /\ j \in Nat /\ n * Gain(d) = j * g
    <2>1. i \in Nat
      OBVIOUS
    <2>2. n * (k * (ClockDiv * g)) = (ClockDiv * (n * k)) * g
      BY <1>2, <1>4
    <2> QED BY <1>4, <1>5, <2>1, <2>2
  <1>7. a <= j
    BY <1>2, <1>6
  <1> DEFINE y == j - a
             z == -a
  <1>8. y \in Nat /\ z \in Int /\ y = z + ClockDiv * i
    BY <1>2, <1>4, <1>6, <1>7
  <1>9. c = z % ClockDiv
    OBVIOUS
  <1> HIDE DEF i, j, y, z, c
  <1>10. y % ClockDiv = z % ClockDiv
    <2>1. i \in Int
      BY <1>6
    <2>2. (z + ClockDiv * i) % ClockDiv = z % ClockDiv
      BY <1>4, <1>8, <2>1, ModTurns
    <2> QED BY <1>8, <2>2
  <1>11. y % ClockDiv <= y /\ y % ClockDiv \in Int
    BY <1>4, <1>8
  <1>12. a + h <= j
    <2>1. h <= y
      BY <1>3, <1>8, <1>9, <1>10, <1>11
    <2> QED BY <1>2, <1>3, <1>6, <2>1 DEF y
  <1>13. (a + h) * g <= j * g
    BY <1>2, <1>3, <1>6, <1>12
  <1> QED BY <1>6, <1>13 DEF a, g, h

-----------------------------------------------------------------------------
\* next_recent_timer: not in the past, the time of a marked bucket unless it is the
\* default, and no later than the next turn of any marked bucket.
LEMMA NextRecentTimer ==
  ASSUME NEW now \in Nat, NEW m \in SUBSET Buckets
  PROVE  LET next == next_recent_timer(now, m)
         IN  /\ next \in Nat /\ now <= next
             /\ next # now + DeltaMax => \E b \in m : DueAt(b, next)
             /\ \A b \in m, x \in Nat : now <= x /\ DueAt(b, x) => next <= x
  <1> DEFINE cand(d) == (At(now, d) + First(now, m, d)) * Gain(d)
             E == {e \in Levels : /\ Marked(m, e) # {}
                                  /\ \A f \in Levels : f < e => ~Stops(now, m, f)}
             S == {now + DeltaMax} \cup {cand(d) : d \in E}
             next == Min(S)
  <1>1. next_recent_timer(now, m) = next
    BY DEF next_recent_timer
  <1>2. ASSUME NEW d \in Levels, Marked(m, d) # {}
        PROVE  /\ cand(d) \in Nat /\ now <= cand(d)
               /\ \E b \in m : DueAt(b, cand(d))
               /\ \A b \in m, x \in Nat :
                    Level(b) = d /\ now <= x /\ DueAt(b, x) => cand(d) <= x
    <2> DEFINE a == At(now, d)
               h == First(now, m, d)
               g == Gain(d)
               n == a + h
    <2>1. d \in Nat
      BY DEF Levels
    <2>2. /\ a \in Nat /\ g \in Nat \ {0} /\ now <= a * g
          /\ \A j \in Nat : now <= j * g => a <= j
      BY <2>1, AtIsCeiling, GainIsPositive
    <2>3. /\ h \in Nat
          /\ \E b \in Marked(m, d) : n % LevelSize = b % LevelSize
          /\ \A b \in Marked(m, d), j \in Nat :
               j >= a /\ j % LevelSize = b % LevelSize => n <= j
      BY <1>2, FirstIsNearest
    <2>4. \A b \in Marked(m, d) : b \in m /\ b \in Buckets /\ Level(b) = d
      BY DEF Marked, Level
    <2> HIDE DEF a, h, g
    <2>5. n \in Nat /\ n >= a
      BY <2>2, <2>3
    <2> HIDE DEF n
    <2>6. n * g \in Nat /\ now <= n * g
      <3>1. n * g >= a * g
        BY <2>2, <2>5
      <3>2. n * g \in Nat /\ a * g \in Nat
        BY <2>2, <2>5
      <3> QED BY <2>2, <3>1, <3>2
    <2>7. \E b \in m : DueAt(b, n * g)
      <3>1. PICK b \in Marked(m, d) : n % LevelSize = b % LevelSize
        BY <2>3 DEF n
      <3>2. DueAt(b, n * Gain(Level(b)))
        BY <2>4, <2>5, <3>1, DueAtTurn
      <3> QED BY <2>4, <3>2 DEF g
    <2>8. ASSUME NEW b \in m, NEW x \in Nat, Level(b) = d, now <= x, DueAt(b, x)
          PROVE  n * g <= x
      <3>1. b \in Marked(m, d) /\ b \in Buckets
        BY <2>8 DEF Marked, Level
      <3>2. PICK j \in Nat : x = j * Gain(Level(b)) /\ j % LevelSize = b % LevelSize
        BY <2>8, <3>1, TurnOfDue
      <3>3. x = j * g
        BY <2>8, <3>2 DEF g
      <3>4. n <= j
        BY <2>2, <2>3, <2>8, <3>1, <3>2, <3>3 DEF n
      <3> QED BY <2>2, <2>5, <3>3, <3>4
    <2>9. cand(d) = n * g
      BY DEF n, a, h, g
    <2> HIDE DEF cand
    <2> QED BY <2>6, <2>7, <2>8, <2>9
  <1>3. E \subseteq Levels /\ \A d \in E : Marked(m, d) # {}
    OBVIOUS
  <1>4. now + DeltaMax \in Nat /\ now <= now + DeltaMax
    BY WheelAssumption
  <1> HIDE DEF cand
  <1>5. S \in SUBSET Nat /\ S # {} /\ \A x \in S : now <= x
    <2> HIDE DEF E
    <2> QED BY <1>2, <1>3, <1>4
  <1>6. next \in S /\ \A x \in S : next <= x
    <2> HIDE DEF S
    <2> QED BY <1>5, MinNat
  <1> HIDE DEF next
  <1>7. next \in Nat /\ now <= next
    BY <1>5, <1>6
  <1>8. ASSUME next # now + DeltaMax PROVE \E b \in m : DueAt(b, next)
    <2>1. PICK d \in E : next = cand(d)
      BY <1>6, <1>8
    <2> QED BY <1>2, <1>3, <2>1
  <1>9. ASSUME NEW b \in m, NEW x \in Nat, now <= x, DueAt(b, x)
        PROVE  next <= x
    <2> DEFINE d == Level(b)
               F == {f \in Levels : f < d /\ Stops(now, m, f)}
    <2>1. d \in Levels /\ Marked(m, d) # {}
      BY LevelOfBucket DEF Marked, Level
    <2>2. CASE F = {}
      <3>1. d \in E
        BY <2>1, <2>2
      <3>2. next <= cand(d) /\ cand(d) <= x /\ cand(d) \in Nat
        BY <1>2, <1>6, <1>9, <2>1, <3>1
      <3> QED BY <1>7, <3>2
    <2>3. CASE F # {}
      <3>1. F \in SUBSET Nat
        BY DEF Levels
      <3> DEFINE f == Min(F)
      <3>2. f \in F /\ \A e \in F : f <= e
        <4> HIDE DEF F
        <4> QED BY <2>3, <3>1, MinNat
      <3> HIDE DEF f
      <3>3. f \in Levels /\ f < d /\ Stops(now, m, f) /\ Marked(m, f) # {}
        BY <3>2 DEF Stops
      <3>4. \A e \in Levels : e < f => ~Stops(now, m, e)
        <4>1. \A e \in Levels : e \in Int
          BY DEF Levels
        <4>2. d \in Int /\ f \in Int
          BY <2>1, <3>3, <4>1
        <4> HIDE DEF d
        <4> QED BY <3>2, <3>3, <4>1, <4>2
      <3>5. f \in E
        BY <3>3, <3>4
      <3>6. next <= cand(f) /\ cand(f) \in Nat
        BY <1>2, <1>6, <3>3, <3>5
      <3>7. PICK n \in Nat : x = n * Gain(d)
        BY <1>9, TurnOfDue
      <3>8. cand(f) <= x
        <4> HIDE DEF d
        <4> QED BY <1>9, <2>1, <3>3, <3>7, StopIsEarlier DEF cand
      <3> QED BY <1>7, <3>6, <3>8
    <2> QED BY <2>2, <2>3
  <1> QED BY <1>1, <1>7, <1>8, <1>9

-----------------------------------------------------------------------------
(* Collecting, and every step *)

\* The buckets collected are those looked at now and marked.
LEMMA CollectedIsDue ==
  ASSUME NEW b \in pending_map, DueAt(b, recent_timer)
  PROVE  b \in Collected
  BY DEF DueAt, Collected

\* collect_timers and the new next expiry.
LEMMA CollectKeeps ==
  ASSUME WheelInv, Collect
  PROVE  WheelInv'
  <1> DEFINE now  == recent_timer + 1
             map  == pending_map \ Collected
             next == next_recent_timer(now, map)
  <1>1. /\ Running /\ Expired /\ Due
        /\ heads' = [d \in Levels |-> IF DueBucket(recent_timer, d) \in Collected
                                      THEN wheels[DueBucket(recent_timer, d)] ELSE {}]
        /\ locked' = TRUE
        /\ wheels' = [b \in Buckets |-> IF b \in Collected THEN {} ELSE wheels[b]]
        /\ pending_map' = map /\ current' = now /\ recent_timer' = next
        /\ next_recalc' = FALSE /\ timers_pending' = (next # now + DeltaMax)
        /\ ticktime' = ticktime /\ delta' = delta /\ expires' = expires
        /\ softirq' = softirq
    BY DEF Collect, timerVars
  <1>2. /\ ticktime \in 0 .. MaxTime /\ recent_timer \in Nat
        /\ pending_map \subseteq Buckets /\ wheels \in [Buckets -> SUBSET Timers]
        /\ delta \in [Timers -> Deltas] /\ expires \in [Timers -> Nat]
        /\ softirq \in {"off", "raised", "on", "again"}
    BY DEF WheelInv, WheelTypes
  <1>3. now \in Nat /\ map \in SUBSET Buckets /\ map \subseteq pending_map
    BY <1>2
  <1>4. /\ next \in Nat /\ now <= next
        /\ next # now + DeltaMax => \E b \in map : DueAt(b, next)
        /\ \A b \in map, x \in Nat : now <= x /\ DueAt(b, x) => next <= x
    <2> HIDE DEF now, map
    <2> QED BY <1>3, NextRecentTimer
  <1>5. now = recent_timer + 1 /\ \A b \in pending_map : b \notin Collected => b \in map
    OBVIOUS
  <1> HIDE DEF next, now, map
  <1>6. \A d \in Levels : DueBucket(recent_timer, d) \in Buckets
    BY <1>2, DueBucketOfLevel
  <1>7. WheelTypes'
    <2>1. wheels' \in [Buckets -> SUBSET Timers] /\ heads' \in [Levels -> SUBSET Timers]
      BY <1>1, <1>2, <1>6
    <2>2. timers_pending' \in BOOLEAN
      BY <1>1
    <2> QED BY <1>1, <1>2, <1>3, <1>4, <2>1, <2>2 DEF WheelTypes
  <1>8. BucketsMarked'
    BY <1>1, <1>5 DEF WheelInv, BucketsMarked
  <1>9. LinkedOnce'
    <2> SUFFICES ASSUME NEW t \in Timers
                 PROVE  /\ \A b, c \in Buckets : t \in wheels'[b] /\ t \in wheels'[c] => b = c
                        /\ \A d, e \in Levels : t \in heads'[d] /\ t \in heads'[e] => d = e
                        /\ \A b \in Buckets, d \in Levels : ~(t \in wheels'[b] /\ t \in heads'[d])
      BY DEF LinkedOnce
    <2>1. \A b, c \in Buckets : t \in wheels[b] /\ t \in wheels[c] => b = c
      BY DEF WheelInv, LinkedOnce
    <2>2. \A b \in Buckets : t \in wheels'[b] => t \in wheels[b] /\ b \notin Collected
      BY <1>1
    <2>3. \A d \in Levels : t \in heads'[d] => /\ t \in wheels[DueBucket(recent_timer, d)]
                                               /\ DueBucket(recent_timer, d) \in Collected
      BY <1>1
    <2>4. \A d \in Levels : Level(DueBucket(recent_timer, d)) = d
      BY <1>2, DueBucketOfLevel
    <2>5. ASSUME NEW d \in Levels, NEW e \in Levels, t \in heads'[d], t \in heads'[e]
          PROVE  d = e
      <3>1. DueBucket(recent_timer, d) = DueBucket(recent_timer, e)
        BY <1>6, <2>1, <2>3, <2>5
      <3> QED BY <2>4, <3>1
    <2>6. ASSUME NEW b \in Buckets, NEW d \in Levels, t \in wheels'[b], t \in heads'[d]
          PROVE  FALSE
      BY <1>6, <2>1, <2>2, <2>3, <2>6
    <2> QED BY <2>1, <2>2, <2>5, <2>6
  <1>10. ClocksInv'
    <2>1. recent_timer <= ticktime /\ softirq' # "off"
      BY <1>1 DEF Due, Running
    <2>2. current' <= ticktime' + 1 /\ current' <= recent_timer'
      BY <1>1, <1>2, <1>4, <1>5, <2>1
    <2> QED BY <2>1, <2>2 DEF ClocksInv
  <1>11. ReachedInv'
    <2> SUFFICES ASSUME NEW b \in Buckets, NEW t \in wheels'[b]
                 PROVE  \E x \in recent_timer' .. expires'[t] + Gain(Level(b)) : DueAt(b, x)
      BY DEF ReachedInv, DueAt, DueLevels, DueBucket, Level
    <2>1. t \in wheels[b] /\ b \notin Collected /\ t \in Timers
      BY <1>1, <1>2
    <2>2. b \in pending_map /\ b \in map
      BY <1>5, <2>1 DEF WheelInv, BucketsMarked
    <2>3. PICK x \in recent_timer .. expires[t] + Gain(Level(b)) : DueAt(b, x)
      BY <2>1 DEF WheelInv, ReachedInv
    <2>4. x # recent_timer
      BY <2>1, <2>2, <2>3, CollectedIsDue
    <2>5. Gain(Level(b)) \in Nat /\ expires[t] \in Nat
      BY <1>2, <2>1, LevelOfBucket, GainIsPositive, WheelAssumption DEF Levels
    <2>6. x \in Nat /\ now <= x /\ x <= expires[t] + Gain(Level(b))
      BY <1>2, <1>5, <2>3, <2>4, <2>5
    <2>7. next <= x
      BY <1>4, <2>2, <2>3, <2>6
    <2>8. x \in recent_timer' .. expires'[t] + Gain(Level(b))
      BY <1>1, <1>4, <2>5, <2>6, <2>7
    <2> QED BY <2>3, <2>8
  <1>12. AimInv'
    BY <1>1, <1>4 DEF AimInv, DueAt, DueLevels, DueBucket, Level
  <1> QED BY <1>7, <1>8, <1>9, <1>10, <1>11, <1>12 DEF WheelInv

-----------------------------------------------------------------------------
\* The wheel and its bitmap.
MapInv == wheels \in [Buckets -> SUBSET Timers] /\ BucketsMarked

\* Inserting a timer, by timer_pending or again by expire_timers, marks the bucket
\* it goes to.
LEMMA InsertMarks ==
  ASSUME NEW t \in Timers, MapInv, forward_insert(t)
  PROVE  MapInv'
  <1> DEFINE slot == clac_wheel(timer_forward, ticktime + delta[t])
  <1>1. /\ wheels' = [wheels EXCEPT ![slot.bucket] = @ \cup {t}]
        /\ pending_map' = pending_map \cup {slot.bucket}
    BY DEF forward_insert
  <1> HIDE DEF slot
  <1>2. wheels' \in [Buckets -> SUBSET Timers]
    BY <1>1 DEF MapInv
  <1>3. ASSUME NEW b \in Buckets, wheels'[b] # {} PROVE b \in pending_map'
    <2>1. CASE b = slot.bucket
      BY <2>1, <1>1
    <2>2. CASE b # slot.bucket
      BY <2>2, <1>1, <1>3 DEF MapInv, BucketsMarked
    <2> QED BY <2>1, <2>2
  <1> QED BY <1>2, <1>3 DEF MapInv, BucketsMarked

\* timer_clear takes a bit away from bucket 0 only, and only when that is empty.
LEMMA ClearKeepsMarks ==
  ASSUME NEW t \in Timers, MapInv, timer_clear(t)
  PROVE  MapInv'
  <1>1. /\ wheels' = [b \in Buckets |-> wheels[b] \ {t}]
        /\ \/ pending_map' = pending_map
           \/ pending_map' = pending_map \ {Index} /\ wheels'[Index] = {}
    BY DEF timer_clear, Unmarked
  <1>2. wheels' \in [Buckets -> SUBSET Timers]
    BY <1>1 DEF MapInv
  <1>3. ASSUME NEW b \in Buckets, wheels'[b] # {} PROVE b \in pending_map'
    <2>1. wheels[b] # {}
      BY <1>1, <1>3
    <2>2. b \in pending_map
      BY <2>1 DEF MapInv, BucketsMarked
    <2> QED BY <1>1, <1>3, <2>2
  <1> QED BY <1>2, <1>3 DEF MapInv, BucketsMarked

\* A timer that is not on the wheel starts.
LEMMA PendingKeeps ==
  ASSUME NEW t \in Timers, WheelInv, timer_pending(t)
  PROVE  WheelInv'
  <1>1. forward_insert(t) /\ UNCHANGED <<ticktime, heads, locked, delta, softirq>>
        /\ \A b \in Buckets : t \notin wheels[b]
        /\ \A d \in Levels : t \notin heads[d]
    BY DEF timer_pending, Pending
  <1>2. WheelTypes /\ BucketsMarked /\ LinkedOnce /\ ClocksInv /\ ReachedInv /\ AimInv
    BY DEF WheelInv
  <1>3. /\ \E b \in Buckets : wheels' = [wheels EXCEPT ![b] = @ \cup {t}]
        /\ current' \in Nat /\ recent_timer' \in Nat
        /\ next_recalc' \in BOOLEAN /\ timers_pending' \in BOOLEAN
        /\ pending_map' \subseteq Buckets
        /\ wheels' \in [Buckets -> SUBSET Timers]
        /\ expires' \in [Timers -> Nat]
        /\ ClocksInv' /\ ReachedInv' /\ AimInv'
    BY <1>1, <1>2, InsertKeeps
  <1>4. WheelTypes'
    BY <1>1, <1>2, <1>3 DEF WheelTypes
  <1>5. BucketsMarked'
    BY <1>1, <1>2, InsertMarks DEF WheelTypes, MapInv
  <1>6. LinkedOnce'
    BY <1>1, <1>2, <1>3, InsertLinksOnce DEF WheelTypes
  <1> QED BY <1>3, <1>4, <1>5, <1>6 DEF WheelInv

\* expire_timers takes a timer off its list and may start it again.
LEMMA FireKeeps ==
  ASSUME NEW t \in Timers, WheelInv, Fire(t)
  PROVE  WheelInv'
  <1>1. WheelTypes /\ BucketsMarked /\ LinkedOnce /\ ClocksInv /\ ReachedInv /\ AimInv
    BY DEF WheelInv
  <1>2. PICK l \in Levels : t \in heads[l] /\ heads' = [heads EXCEPT ![l] = @ \ {t}]
    BY DEF Fire
  <1>3. /\ locked' = FALSE /\ UNCHANGED <<ticktime, delta, softirq>>
        /\ forward_insert(t) \/ UNCHANGED <<baseVars, expires>>
    BY DEF Fire
  <1>4. heads' \in [Levels -> SUBSET Timers]
    BY <1>1, <1>2 DEF WheelTypes
  <1>5. \A b \in Buckets : t \notin wheels[b]
    BY <1>1, <1>2 DEF LinkedOnce
  <1>6. \A d \in Levels : t \notin heads'[d] /\ heads'[d] \subseteq heads[d]
    BY <1>1, <1>2 DEF LinkedOnce, WheelTypes
  <1>7. CASE forward_insert(t)
    <2>1. /\ \E b \in Buckets : wheels' = [wheels EXCEPT ![b] = @ \cup {t}]
          /\ current' \in Nat /\ recent_timer' \in Nat
          /\ next_recalc' \in BOOLEAN /\ timers_pending' \in BOOLEAN
          /\ pending_map' \subseteq Buckets
          /\ wheels' \in [Buckets -> SUBSET Timers]
          /\ expires' \in [Timers -> Nat]
          /\ ClocksInv' /\ ReachedInv' /\ AimInv'
      BY <1>1, <1>3, <1>5, <1>7, InsertKeeps
    <2>2. WheelTypes'
      BY <1>1, <1>3, <1>4, <2>1 DEF WheelTypes
    <2>3. BucketsMarked'
      BY <1>1, <1>7, InsertMarks DEF WheelTypes, MapInv
    <2>4. LinkedOnce'
      BY <1>1, <1>5, <1>6, <2>1, InsertLinksOnce DEF WheelTypes
    <2> QED BY <2>1, <2>2, <2>3, <2>4 DEF WheelInv
  <1>8. CASE UNCHANGED <<baseVars, expires>>
    <2>1. UNCHANGED <<current, recent_timer, next_recalc, timers_pending, pending_map, wheels,
                      expires, ticktime, delta, softirq>>
      BY <1>3, <1>8 DEF baseVars
    <2>2. WheelTypes'
      BY <1>1, <1>3, <1>4, <2>1 DEF WheelTypes
    <2>3. BucketsMarked' /\ ClocksInv'
      BY <1>1, <2>1 DEF BucketsMarked, ClocksInv
    <2>4. ReachedInv' /\ AimInv'
      BY <1>1, <2>1 DEF ReachedInv, AimInv, DueAt, DueLevels, DueBucket, Level
    <2>5. LinkedOnce'
      BY <1>1, <1>6, <2>1 DEF LinkedOnce
    <2> QED BY <2>2, <2>3, <2>4, <2>5 DEF WheelInv
  <1> QED BY <1>3, <1>7, <1>8

\* timer_clear: where it takes the bit of bucket 0 away, next_recalc says so.
LEMMA ClearKeeps ==
  ASSUME NEW t \in Timers, WheelInv, timer_clear(t)
  PROVE  WheelInv'
  <1>1. WheelTypes /\ BucketsMarked /\ LinkedOnce /\ ClocksInv /\ ReachedInv /\ AimInv
    BY DEF WheelInv
  <1>2. /\ wheels' = [b \in Buckets |-> wheels[b] \ {t}]
        /\ heads' = [d \in Levels |-> heads[d] \ {t}]
        /\ \/ pending_map' = pending_map /\ next_recalc' = next_recalc
           \/ pending_map' \subseteq pending_map /\ next_recalc' = TRUE
        /\ UNCHANGED <<ticktime, current, recent_timer, timers_pending, locked,
                       delta, expires, softirq>>
    <2> DEFINE u == Unmarked([b \in Buckets |-> wheels[b] \ {t}])
    <2>1. /\ wheels' = [b \in Buckets |-> wheels[b] \ {t}]
          /\ heads' = [d \in Levels |-> heads[d] \ {t}]
          /\ pending_map' = IF u THEN pending_map \ {Index} ELSE pending_map
          /\ next_recalc' = (u \/ next_recalc)
          /\ UNCHANGED <<ticktime, current, recent_timer, timers_pending, locked,
                         delta, expires, softirq>>
      BY DEF timer_clear, timerVars
    <2>2. next_recalc \in BOOLEAN
      BY <1>1 DEF WheelTypes
    <2> HIDE DEF u
    <2> QED BY <2>1, <2>2
  <1>3. WheelTypes'
    BY <1>1, <1>2 DEF WheelTypes
  <1>4. BucketsMarked'
    BY <1>1, ClearKeepsMarks DEF WheelTypes, MapInv
  <1>5. LinkedOnce'
    BY <1>2, <1>1 DEF LinkedOnce
  <1>6. ClocksInv'
    BY <1>1, <1>2 DEF ClocksInv
  <1>7. ReachedInv'
    BY <1>1, <1>2 DEF ReachedInv, DueAt, DueLevels, DueBucket, Level
  <1>8. AimInv'
    BY <1>1, <1>2 DEF AimInv, DueAt, DueLevels, DueBucket, Level
  <1> QED BY <1>3, <1>4, <1>5, <1>6, <1>7, <1>8 DEF WheelInv

\* The tick, and the softirq's coming and going.
LEMMA TurnKeeps ==
  ASSUME WheelInv, Tick \/ Enter \/ Leave \/ UNCHANGED vars
  PROVE  WheelInv'
  <1>1. WheelTypes /\ BucketsMarked /\ LinkedOnce /\ ClocksInv /\ ReachedInv /\ AimInv
    BY DEF WheelInv
  <1>2. UNCHANGED <<current, recent_timer, next_recalc, timers_pending, pending_map, wheels,
                    heads, delta, expires>>
    BY DEF Tick, Enter, Leave, vars, baseVars, timerVars
  <1>3. BucketsMarked' /\ LinkedOnce' /\ ReachedInv' /\ AimInv'
    BY <1>1, <1>2 DEF BucketsMarked, LinkedOnce, ReachedInv, AimInv, DueAt, DueLevels,
                      DueBucket, Level
  <1>4. MaxTime \in Nat /\ ticktime \in 0 .. MaxTime /\ recent_timer \in Nat /\ current \in Nat
    BY <1>1, WheelAssumption DEF WheelTypes
  <1>5. WheelTypes' /\ ClocksInv'
    <2>1. CASE Tick
      <3>1. /\ ticktime < MaxTime /\ ticktime' = ticktime + 1 /\ locked' = locked
            /\ softirq' = IF ticktime' >= recent_timer THEN Raise ELSE softirq
        BY <2>1 DEF Tick
      <3>2. softirq' \in {"off", "raised", "on", "again"}
            /\ (softirq' = "off" => ticktime' < recent_timer)
        BY <1>1, <1>4, <3>1 DEF Raise, WheelTypes
      <3>3. ticktime' \in 0 .. MaxTime
        BY <1>4, <3>1
      <3>4. WheelTypes'
        BY <1>1, <1>2, <3>1, <3>2, <3>3 DEF WheelTypes
      <3>5. ClocksInv'
        BY <1>1, <1>2, <1>4, <3>1, <3>2 DEF ClocksInv
      <3> QED BY <3>4, <3>5
    <2>2. CASE Enter
      BY <1>1, <1>2, <2>2 DEF Enter, WheelTypes, ClocksInv
    <2>3. CASE Leave
      <3>1. ~Due /\ locked' = FALSE /\ ticktime' = ticktime
            /\ softirq' \in {"off", "raised"}
        BY <2>3 DEF Leave
      <3>2. ticktime < recent_timer
        BY <1>1, <1>4, <3>1 DEF Due, ClocksInv
      <3>3. WheelTypes'
        BY <1>1, <1>2, <3>1 DEF WheelTypes
      <3>4. ClocksInv'
        BY <1>1, <1>2, <3>1, <3>2 DEF ClocksInv
      <3> QED BY <3>3, <3>4
    <2>4. CASE UNCHANGED vars
      BY <1>1, <1>2, <2>4 DEF vars, WheelTypes, ClocksInv
    <2> QED BY <2>1, <2>2, <2>3, <2>4
  <1> QED BY <1>3, <1>5 DEF WheelInv

LEMMA WheelStarts == Init => WheelInv
  <1> SUFFICES ASSUME Init PROVE WheelInv
    OBVIOUS
  <1>1. StartTime \in 0 .. MaxTime /\ MaxTime \in Nat /\ StartTime \in Nat
        /\ DeltaMax \in Nat /\ DeltaMax > 0
    BY WheelAssumption
  <1>2. /\ ticktime = StartTime /\ current = StartTime
        /\ recent_timer = StartTime + DeltaMax
        /\ next_recalc = FALSE /\ timers_pending = FALSE /\ pending_map = {}
        /\ wheels = [b \in Buckets |-> {}] /\ heads = [d \in Levels |-> {}]
        /\ locked = FALSE /\ delta \in [Timers -> Deltas]
        /\ expires = [t \in Timers |-> 0] /\ softirq = "off"
    BY DEF Init
  <1>3. WheelTypes
    <2>1. ticktime \in 0 .. MaxTime /\ current \in Nat /\ recent_timer \in Nat
      BY <1>1, <1>2
    <2>2. wheels \in [Buckets -> SUBSET Timers] /\ heads \in [Levels -> SUBSET Timers]
          /\ expires \in [Timers -> Nat] /\ pending_map \subseteq Buckets
      BY <1>2
    <2> QED BY <1>2, <2>1, <2>2 DEF WheelTypes
  <1>4. BucketsMarked /\ LinkedOnce /\ ReachedInv /\ AimInv
    BY <1>2 DEF BucketsMarked, LinkedOnce, ReachedInv, AimInv
  <1>5. ClocksInv
    BY <1>1, <1>2 DEF ClocksInv
  <1> QED BY <1>3, <1>4, <1>5 DEF WheelInv

LEMMA WheelSteps == WheelInv /\ [Next]_vars => WheelInv'
  <1> SUFFICES ASSUME WheelInv, [Next]_vars PROVE WheelInv'
    OBVIOUS
  <1>1. CASE Tick \/ Enter \/ Leave \/ UNCHANGED vars
    BY <1>1, TurnKeeps
  <1>2. CASE Collect
    BY <1>2, CollectKeeps
  <1>3. ASSUME NEW t \in Timers, Fire(t) PROVE WheelInv'
    BY <1>3, FireKeeps
  <1>4. ASSUME NEW t \in Timers, timer_clear(t) PROVE WheelInv'
    BY <1>4, ClearKeeps
  <1>5. ASSUME NEW t \in Timers, timer_pending(t) PROVE WheelInv'
    BY <1>5, PendingKeeps
  <1> QED BY <1>1, <1>2, <1>3, <1>4, <1>5 DEF Next

LEMMA WheelKept == Spec => []WheelInv
  <1> QED BY WheelStarts, WheelSteps, PTL DEF Spec

-----------------------------------------------------------------------------
(* What follows *)

\* The types, and a timer is in one bucket or on one list at most.
THEOREM WheelTypesHold == Spec => []WheelTypeOK
  <1>1. ASSUME WheelTypes, LinkedOnce, NEW t \in Timers PROVE Places(t) <= 1
    <2> DEFINE B == {b \in Buckets : t \in wheels[b]}
               D == {d \in Levels : t \in heads[d]}
    <2>1. \A b, c \in B : b = c
      BY <1>1 DEF LinkedOnce
    <2>2. \A d, e \in D : d = e
      BY <1>1 DEF LinkedOnce
    <2>3. B = {} \/ D = {}
      BY <1>1 DEF LinkedOnce
    <2>4. Places(t) = Cardinality(B) + Cardinality(D)
      BY DEF Places
    <2> HIDE DEF B, D
    <2>5. B = {} \/ \E b : B = {b}
      BY <2>1
    <2>6. D = {} \/ \E d : D = {d}
      BY <2>2
    <2>7. Cardinality(B) = 0 \/ Cardinality(B) = 1
      BY <2>5, FS_EmptySet, FS_Singleton
    <2>8. Cardinality(D) = 0 \/ Cardinality(D) = 1
      BY <2>6, FS_EmptySet, FS_Singleton
    <2> QED BY <2>3, <2>4, <2>7, <2>8, FS_EmptySet
  <1>2. WheelInv => WheelTypeOK
    BY <1>1 DEF WheelInv, WheelTypes, WheelTypeOK
  <1> QED BY <1>2, WheelKept, PTL

\* A bucket that holds a timer has its bit: no search over the bitmap, of the softirq
\* or for the next expiry, overlooks a timer.
THEOREM MarksComplete == Spec => []BucketsMarked
  <1>1. WheelInv => BucketsMarked
    BY DEF WheelInv
  <1> QED BY <1>1, WheelKept, PTL

\* The next expiry is never later than the end of the bucket behind any timer's own.
THEOREM NothingIsMissed == Spec => []NothingMissed
  <1>1. ASSUME WheelInv, NEW b \in Buckets, NEW t \in wheels[b]
        PROVE  recent_timer <= expires[t] + Gain(Level(b))
    <2>1. PICK x \in recent_timer .. expires[t] + Gain(Level(b)) : DueAt(b, x)
      BY <1>1 DEF WheelInv, ReachedInv
    <2>2. Gain(Level(b)) \in Nat
      BY LevelOfBucket, GainIsPositive, WheelAssumption DEF Levels
    <2>3. expires[t] \in Nat /\ recent_timer \in Nat
      BY <1>1 DEF WheelInv, WheelTypes
    <2> QED BY <2>1, <2>2, <2>3
  <1>2. WheelInv => NothingMissed
    BY <1>1 DEF NothingMissed
  <1> QED BY <1>2, WheelKept, PTL

\* So while the softirq is not wanted no timer on the wheel is later than its grain.
THEOREM NeverIsLate == Spec => []NeverLate
  <1>1. ASSUME WheelInv, NothingMissed PROVE NeverLate
    <2> SUFFICES ASSUME softirq = "off", NEW b \in Buckets, NEW t \in wheels[b]
                 PROVE  ticktime <= expires[t] + Gain(Level(b))
      BY DEF NeverLate
    <2>1. ticktime < recent_timer /\ recent_timer <= expires[t] + Gain(Level(b))
      BY <1>1 DEF WheelInv, ClocksInv, NothingMissed
    <2>2. Gain(Level(b)) \in Nat
      BY LevelOfBucket, GainIsPositive, WheelAssumption DEF Levels
    <2>3. expires[t] \in Nat /\ recent_timer \in Nat /\ ticktime \in Int
      BY <1>1, WheelAssumption DEF WheelInv, WheelTypes
    <2> QED BY <2>1, <2>2, <2>3
  <1> QED BY <1>1, WheelKept, NothingIsMissed, PTL

\* Neither warning of the wheel is ever printed.
THEOREM NoWarningPrinted == Spec => []NoWarning
  <1>1. ASSUME WheelInv PROVE NoWarning
    <2>1. recent_timer >= current
      BY <1>1 DEF WheelInv, WheelTypes, ClocksInv
    <2>2. Collected # {} \/ next_recalc \/ ~timers_pending
      BY <1>1, CollectedIsDue DEF WheelInv, AimInv
    <2> QED BY <2>1, <2>2 DEF NoWarning
  <1> QED BY <1>1, WheelKept, PTL
=============================================================================
