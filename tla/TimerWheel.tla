----------------------------- MODULE TimerWheel ------------------------------
(***************************************************************************)
(* The timer wheel of one CPU: kernel/time/timer.c, driven by the tick     *)
(* (systicks.c) and run by its softirq.  Level d has LevelSize buckets of  *)
(* Gain(d) ticks each; a timer goes into the bucket behind its expiry,     *)
(* of the lowest level that reaches it, and stays there.                   *)
(*                                                                         *)
(* The base lock turns interrupts off.  It is free during a timer's        *)
(* callback: there, and in any task or interrupt, timers are started and   *)
(* cleared.  Shifts are written as divisions; the order of the timers in   *)
(* one bucket is left open.                                                *)
(***************************************************************************)
EXTENDS Integers, FiniteSetsExt

CONSTANTS
  Timers,    \* struct timer objects
  Periodic,  \* those with TIMER_PERIODIC
  Deltas,    \* values of timer->delta, which a timer keeps
  LevelSize, \* LEVEL_SIZE
  ClockShift, \* CLOCK_SHIFT
  Depth,     \* WHEEL_DEPTH
  DeltaMax,  \* TIMER_EXPIRE_DELTA_MAX
  StartTime, \* ticktime at boot
  MaxTime    \* bound on ticktime

ASSUME WheelAssumption ==
  /\ LevelSize \in Nat \ {0} /\ ClockShift \in Nat \ {0} /\ Depth \in Nat \ {0}
  /\ DeltaMax \in Nat \ {0} /\ MaxTime \in Nat /\ StartTime \in 0 .. MaxTime
  /\ Deltas \subseteq Nat
  /\ Periodic \subseteq Timers

VARIABLES
  ticktime,       \* jiffies
  current,        \* base->current
  recent_timer,   \* base->recent_timer
  next_recalc,    \* base->next_recalc
  timers_pending, \* base->timers_pending
  pending_map,    \* base->pending_map, as a set of buckets
  wheels,         \* base->wheels: the timers of each bucket
  heads,          \* base_do_timers: the lists collected and not yet expired
  locked,         \* base_do_timers holds the lock between two of its steps
  delta,          \* timer->delta
  expires,        \* timer->expires
  softirq         \* "off", "raised", "on", or "again": raised while on

baseVars  == <<current, recent_timer, next_recalc, timers_pending, pending_map, wheels>>
timerVars == <<delta, expires>>
vars      == <<ticktime, baseVars, heads, locked, timerVars, softirq>>

Levels  == 0 .. Depth - 1
Buckets == 0 .. LevelSize * Depth - 1

\* CLOCK_DIV and LEVEL_GAIN
ClockDiv == 2 ^ ClockShift
Gain(d)  == 2 ^ (ClockShift * d)

\* LEVEL_START(d + 1): deltas below it go into level d, or a lower one.
LevelEnd(d) == LevelSize * Gain(d)

TimeoutCut == LevelEnd(Depth - 1)
TimeoutMax == TimeoutCut - Gain(Depth - 1)

\* timer_check_pending
Pending(t) ==
  \/ \E b \in Buckets : t \in wheels[b]
  \/ \E d \in Levels : t \in heads[d]

-----------------------------------------------------------------------------
(* Starting and clearing a timer *)

\* clac_index: the bucket, and the time at which it is collected.
Slot(d, exp) ==
  LET n == (exp + Gain(d)) \div Gain(d)
  IN  [bucket |-> LevelSize * d + (n % LevelSize), expiry |-> n * Gain(d)]

\* clac_wheel
clac_wheel(cur, exp) ==
  IF exp < cur THEN [bucket |-> cur % LevelSize, expiry |-> cur]
  ELSE LET fits == {d \in Levels : exp - cur < LevelEnd(d)}
       IN  IF fits # {} THEN Slot(Min(fits), exp)
           ELSE Slot(Depth - 1, cur + TimeoutMax)

\* timer_forward: the wheel's clock on insertion.  Where it warns the clock stays.
\* Mutant: the clock goes to the present whatever is due.
timer_forward_now == ticktime
timer_forward ==
  IF ticktime <= current THEN current
  ELSE IF ticktime < recent_timer THEN ticktime
  ELSE IF recent_timer < current THEN current ELSE recent_timer

\* forward_insert and base_enqueue.
\* Mutant: recent_timer is not brought forward.
forward_insert_unnoticed(t) ==
  LET slot == clac_wheel(timer_forward, ticktime + delta[t])
  IN  /\ current'     = timer_forward
      /\ expires'     = [expires EXCEPT ![t] = ticktime + delta[t]]
      /\ wheels'      = [wheels EXCEPT ![slot.bucket] = @ \cup {t}]
      /\ pending_map' = pending_map \cup {slot.bucket}
      /\ UNCHANGED <<recent_timer, timers_pending, next_recalc>>
forward_insert(t) ==
  LET slot  == clac_wheel(timer_forward, ticktime + delta[t])
      first == slot.expiry < recent_timer
  IN  /\ current'        = timer_forward
      /\ expires'        = [expires EXCEPT ![t] = ticktime + delta[t]]
      /\ wheels'         = [wheels EXCEPT ![slot.bucket] = @ \cup {t}]
      /\ pending_map'    = pending_map \cup {slot.bucket}
      /\ recent_timer'   = IF first THEN slot.expiry ELSE recent_timer
      /\ timers_pending' = (first \/ timers_pending)
      /\ next_recalc'    = (~first /\ next_recalc)

\* Mutant: without a look at the timer.
timer_pending_again(t) ==
  /\ ~locked
  /\ forward_insert(t)
  /\ UNCHANGED <<ticktime, heads, locked, delta, softirq>>
timer_pending(t) ==
  /\ ~locked /\ ~Pending(t)
  /\ forward_insert(t)
  /\ UNCHANGED <<ticktime, heads, locked, delta, softirq>>

\* The bucket that base_try_dequeue looks at: timer->index is written nowhere,
\* it has the 0 of TIMER_INITIALIZER and kcache_zalloc.
Index == 0

\* Mutant: the bit goes without a look at the bucket.
Unmarked_always(w) == TRUE
Unmarked(w) == w[Index] = {}

timer_clear(t) ==
  LET w == [b \in Buckets |-> wheels[b] \ {t}]
  IN  /\ ~locked /\ Pending(t)
      /\ wheels'      = w
      /\ heads'       = [d \in Levels |-> heads[d] \ {t}]
      /\ pending_map' = IF Unmarked(w) THEN pending_map \ {Index} ELSE pending_map
      /\ next_recalc' = (Unmarked(w) \/ next_recalc)
      /\ UNCHANGED <<ticktime, current, recent_timer, timers_pending, locked, timerVars, softirq>>

-----------------------------------------------------------------------------
(* The tick and the softirq *)

Raise == CASE softirq = "off" -> "raised"
           [] softirq = "on"  -> "again"
           [] OTHER           -> softirq

\* systick_periodic, timer_update
Tick ==
  /\ ~locked /\ ticktime < MaxTime
  /\ ticktime' = ticktime + 1
  /\ softirq'  = IF ticktime' >= recent_timer THEN Raise ELSE softirq
  /\ UNCHANGED <<baseVars, heads, locked, timerVars>>

Running == softirq \in {"on", "again"}

\* softirq_irq_entry calls timer_softirq_handle.
Enter ==
  /\ softirq = "raised"
  /\ softirq' = "on"
  /\ UNCHANGED <<ticktime, baseVars, heads, locked, timerVars>>

Expired == \A d \in Levels : heads[d] = {}
Due     == ticktime >= current /\ ticktime >= recent_timer

\* The bucket of level d that is due at time c, where c is a multiple of the
\* gain of that level.
DueLevels(c) == {d \in Levels : c % Gain(d) = 0}
DueBucket(c, d) == LevelSize * d + ((c \div Gain(d)) % LevelSize)

\* collect_timers finds the bit of these set.
Collected == {DueBucket(recent_timer, d) : d \in DueLevels(recent_timer)} \cap pending_map

\* next_recent_timer.  At level d the time is rounded up to At(d); First(d) is
\* how many buckets behind it the first marked one is.  Mutant: it stops at the
\* first level with a marked bucket.
At(now, d) == (now + Gain(d) - 1) \div Gain(d)
Marked(m, d) == {b \in m : b \div LevelSize = d}
First(now, m, d) == Min({(b - At(now, d)) % LevelSize : b \in Marked(m, d)})

Stops_early(now, m, d) == Marked(m, d) # {}
Stops(now, m, d) ==
  /\ Marked(m, d) # {}
  /\ First(now, m, d) <= (-At(now, d)) % ClockDiv

next_recent_timer(now, m) ==
  Min({now + DeltaMax} \cup
      {(At(now, d) + First(now, m, d)) * Gain(d) :
         d \in {e \in Levels : /\ Marked(m, e) # {}
                               /\ \A f \in Levels : f < e => ~Stops(now, m, f)}})

\* The head of base_do_timers' loop.  The lock is kept up to the first callback.
Collect ==
  LET now  == recent_timer + 1
      map  == pending_map \ Collected
      next == next_recent_timer(now, map)
  IN  /\ Running /\ Expired /\ Due
      /\ heads'          = [d \in Levels |->
                              IF DueBucket(recent_timer, d) \in Collected
                              THEN wheels[DueBucket(recent_timer, d)] ELSE {}]
      /\ locked'         = TRUE
      /\ wheels'         = [b \in Buckets |-> IF b \in Collected THEN {} ELSE wheels[b]]
      /\ pending_map'    = map
      /\ current'        = now
      /\ recent_timer'   = next
      /\ next_recalc'    = FALSE
      /\ timers_pending' = (next # now + DeltaMax)
      /\ UNCHANGED <<ticktime, timerVars, softirq>>

\* expire_timers takes a timer off its list, starts a periodic one again, and
\* calls it with the lock free; the highest level comes first.
Fire(t) ==
  /\ Running
  /\ \E d \in Levels :
       /\ t \in heads[d]
       /\ \A e \in Levels : e > d => heads[e] = {}
       /\ heads' = [heads EXCEPT ![d] = @ \ {t}]
  /\ locked' = FALSE
  /\ IF t \in Periodic THEN forward_insert(t)
                       ELSE UNCHANGED <<baseVars, expires>>
  /\ UNCHANGED <<ticktime, delta, softirq>>

\* The loop ends; softirq_irq_entry calls again if the bit has been set since.
Leave ==
  /\ Running /\ Expired /\ ~Due
  /\ locked'  = FALSE
  /\ softirq' = IF softirq = "again" THEN "raised" ELSE "off"
  /\ UNCHANGED <<ticktime, baseVars, heads, timerVars>>

-----------------------------------------------------------------------------
(* Specification *)

\* timer_init_cpu; timers as TIMER_INITIALIZER leaves them.
Init ==
  /\ ticktime       = StartTime
  /\ current        = StartTime
  /\ recent_timer   = StartTime + DeltaMax
  /\ next_recalc    = FALSE
  /\ timers_pending = FALSE
  /\ pending_map    = {}
  /\ wheels         = [b \in Buckets |-> {}]
  /\ heads          = [d \in Levels |-> {}]
  /\ locked         = FALSE
  /\ delta          \in [Timers -> Deltas]
  /\ expires        = [t \in Timers |-> 0]
  /\ softirq        = "off"

Next ==
  \/ Tick
  \/ Enter
  \/ Collect
  \/ Leave
  \/ \E t \in Timers : Fire(t) \/ timer_clear(t) \/ timer_pending(t)

Spec == Init /\ [][Next]_vars

-----------------------------------------------------------------------------
(* Properties *)

\* The level of a bucket, and how many places timer t is linked at.
Level(b)  == b \div LevelSize
Places(t) == Cardinality({b \in Buckets : t \in wheels[b]})
             + Cardinality({d \in Levels : t \in heads[d]})

\* Everything has its type, and a timer is linked once at most: in one bucket of
\* the wheel, or in one list that expire_timers works off.
WheelTypeOK ==
  /\ ticktime \in 0 .. MaxTime /\ current \in Nat /\ recent_timer \in Nat
  /\ {next_recalc, timers_pending, locked} \subseteq BOOLEAN
  /\ pending_map \subseteq Buckets
  /\ wheels \in [Buckets -> SUBSET Timers]
  /\ heads \in [Levels -> SUBSET Timers]
  /\ delta \in [Timers -> Deltas]
  /\ expires \in [Timers -> Nat]
  /\ softirq \in {"off", "raised", "on", "again"}
  /\ \A t \in Timers : Places(t) <= 1

\* Both searches go by the bitmap: a bucket that holds a timer has its bit, although
\* timer_clear looks at the wrong bucket.
BucketsMarked == \A b \in Buckets : wheels[b] # {} => b \in pending_map

\* The tick compares with recent_timer only.  Whatever was inserted, cleared and
\* collected, in whatever order and at whatever level, recent_timer is no later
\* than the end of the bucket behind any timer's expiry.
NothingMissed ==
  \A b \in Buckets : \A t \in wheels[b] : recent_timer <= expires[t] + Gain(Level(b))

\* So a timer is late by the grain of its level, and by what the softirq is late:
\* when that is not wanted, no timer in the wheel is further behind its expiry.
NeverLate ==
  softirq = "off" =>
    \A b \in Buckets : \A t \in wheels[b] : ticktime <= expires[t] + Gain(Level(b))

\* The warnings are never printed: recent_timer is not behind the wheel's clock
\* when a timer is inserted (timer.c:137), and an expiry that finds no bucket has
\* the excuse of a cleared one (timer.c:270).
NoWarning ==
  /\ ticktime > current /\ ticktime >= recent_timer => recent_timer >= current
  /\ Running /\ Expired /\ Due => Collected # {} \/ next_recalc \/ ~timers_pending

\* timer.h:23, "@expires: expiration time of timer node": a timer is not called
\* before it.
NeverEarly == [][\A t \in Timers : Fire(t) => expires[t] <= ticktime]_vars

=============================================================================
