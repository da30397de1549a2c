------------------------------ MODULE Semaphore ------------------------------
(***************************************************************************)
(* kernel/lock/semaphore.c and the sched_timeout of kernel/sched/sleep.c   *)
(* on top of the scheduler of one CPU (module Sched).  The semaphore's     *)
(* spin lock turns interrupts off, so what it protects is one step; a      *)
(* waiter is in sched_timeout between two such steps.                      *)
(*                                                                         *)
(* A task waits for ever (semaphore_down) or with a timer                  *)
(* (semaphore_down_timeout).  sched_timeout never clears the timer of a    *)
(* task that was woken before it fired: it stays in the wheel, pointing to *)
(* a dead stack frame.                                                     *)
(***************************************************************************)
EXTENDS Sched

CONSTANTS
  Timed,   \* the tasks that call semaphore_down_timeout
  MaxCount \* bound on sem->count

ASSUME SemAssumption == Timed \subseteq Tasks /\ MaxCount \in Nat

VARIABLES
  count,   \* sem->count
  waits,   \* sem->waits: the tasks of the waiters, first come first
  up,      \* waiter.up
  at,      \* "out" or "down": inside common_down
  late,    \* the timeout computed by sched_timeout has come down to 0
  timers,  \* the tasks with a timer in the wheel for the present sleep
  stale    \* the tasks with a timer left in the wheel by an earlier sleep

schedVars == <<curr, queueVars, taskVars, pc, listerr>>
semVars   == <<count, waits, up, at, late, timers, stale>>
allVars   == <<schedVars, semVars>>

SemTypeOK ==
  /\ count  \in 0 .. MaxCount
  /\ waits  \in Seq(Tasks)
  /\ up     \in [Tasks -> BOOLEAN]
  /\ at     \in [Tasks -> {"out", "down"}]
  /\ late   \in [Tasks -> BOOLEAN]
  /\ timers \subseteq Timed
  /\ stale  \subseteq Timed

Waits(t) == t \in ToSet(waits)

-----------------------------------------------------------------------------
(* semaphore_down, semaphore_down_timeout *)

\* A task outside of common_down, in code of its own.
Free(t) == t = curr /\ pc[t] = "run" /\ at[t] = "out"

\* Mutant: the count is not looked at.
DownFast_unguarded(t) ==
  /\ Free(t)
  /\ count' = count - 1
  /\ UNCHANGED <<schedVars, waits, up, at, late, timers, stale>>

\* There is a unit.  (semaphore_down_trylock does the same, or nothing.)
DownFast(t) ==
  /\ Free(t)
  /\ count > 0
  /\ count' = count - 1
  /\ UNCHANGED <<schedVars, waits, up, at, late, timers, stale>>

\* list_add_prev(&sem->waits, &waiter.list).  Mutant: list_add.
Entered_first(t) == <<t>> \o waits
Entered(t) == Append(waits, t)

\* There is none: common_down enters the list and announces its sleep.
DownSlow(t) ==
  /\ Free(t)
  /\ count = 0
  /\ waits' = Entered(t)
  /\ up'    = [up EXCEPT ![t] = FALSE]
  /\ at'    = [at EXCEPT ![t] = "down"]
  /\ late'  = [late EXCEPT ![t] = FALSE]
  /\ Announce(t)
  /\ UNCHANGED <<curr, queueVars, queued, resched, slice, listerr, count, timers, stale>>

\* semaphore_down_timeout with nothing to wait with: in and out of the list
\* under the lock, and the announced state stays.
DownNow(t) ==
  /\ Free(t)
  /\ t \in Timed
  /\ count = 0
  /\ state' = [state EXCEPT ![t] = "blocked"]
  /\ UNCHANGED <<curr, queueVars, queued, resched, slice, pc, listerr, semVars>>

\* sched_timeout(TTIME_MAX) is sched_yield, whose second half is SemResched.
SleepForever(t) ==
  /\ t = curr /\ pc[t] = "sleep"
  /\ t \notin Timed
  /\ Yield
  /\ UNCHANGED semVars

\* sched_timeout(timeout): timer_pending, then sched_resched.
SleepTimed(t) ==
  /\ t = curr /\ pc[t] = "sleep"
  /\ t \in Timed
  /\ timers' = timers \cup {t}
  /\ Resched
  /\ UNCHANGED <<count, waits, up, at, late, stale>>

\* A task that is back from sched_timeout leaves the timer behind.
LeaveTimer(t) ==
  /\ timers' = timers \ {t}
  /\ stale'  = IF t \in timers THEN stale \cup {t} ELSE stale

Back(t) == t = curr /\ pc[t] = "run" /\ at[t] = "down"

\* The waiter was served.
Served(t) ==
  /\ Back(t)
  /\ up[t]
  /\ at' = [at EXCEPT ![t] = "out"]
  /\ LeaveTimer(t)
  /\ UNCHANGED <<schedVars, count, waits, up, late>>

\* It was not, and there is time left: it announces its sleep again.
Again(t) ==
  /\ Back(t)
  /\ ~up[t] /\ ~late[t]
  /\ Announce(t)
  /\ LeaveTimer(t)
  /\ UNCHANGED <<curr, queueVars, queued, resched, slice, listerr, count, waits, up, at, late>>

\* Mutant: the waiter is not taken off the list.
TimedOut_linked(t) ==
  /\ Back(t)
  /\ ~up[t] /\ late[t]
  /\ at'    = [at EXCEPT ![t] = "out"]
  /\ state' = [state EXCEPT ![t] = "blocked"]
  /\ LeaveTimer(t)
  /\ UNCHANGED <<curr, queueVars, queued, resched, slice, pc, listerr, count, waits, up, late>>

\* error_time: the state has been set once more before the test.
TimedOut(t) ==
  /\ Back(t)
  /\ ~up[t] /\ late[t]
  /\ waits' = RemoveFirst(waits, t)
  /\ at'    = [at EXCEPT ![t] = "out"]
  /\ state' = [state EXCEPT ![t] = "blocked"]
  /\ LeaveTimer(t)
  /\ UNCHANGED <<curr, queueVars, queued, resched, slice, pc, listerr, count, up, late>>

-----------------------------------------------------------------------------
(* semaphore_up, and timers *)

\* Mutant: a unit is put down even when a task waits for it.
semaphore_up_counting ==
  /\ count < MaxCount
  /\ count' = count + 1
  /\ UNCHANGED <<schedVars, waits, up, at, late, timers, stale>>

\* Mutant: the first waiter is served and not woken.
semaphore_up_silent ==
  \/ /\ waits = <<>>
     /\ count < MaxCount
     /\ count' = count + 1
     /\ UNCHANGED <<schedVars, waits, up, at, late, timers, stale>>
  \/ /\ waits # <<>>
     /\ up'    = [up EXCEPT ![Head(waits)] = TRUE]
     /\ waits' = Tail(waits)
     /\ UNCHANGED <<schedVars, count, at, late, timers, stale>>

semaphore_up ==
  \/ /\ waits = <<>>
     /\ count < MaxCount
     /\ count' = count + 1
     /\ UNCHANGED <<schedVars, waits, up, at, late, timers, stale>>
  \/ /\ waits # <<>>
     /\ up'    = [up EXCEPT ![Head(waits)] = TRUE]
     /\ waits' = Tail(waits)
     /\ WakeEffect(Head(waits))
     /\ UNCHANGED <<count, at, late, timers, stale>>

UpByTask == InTask /\ (curr # Idle => at[curr] = "out") /\ semaphore_up

\* An interrupt handler gives a unit; as in Sched, EarlyIrq says whether it
\* may find the waiter announced but not yet switched out.
UpByIrq ==
  /\ waits # <<>> /\ queued[Head(waits)] => EarlyIrq
  /\ semaphore_up

\* timeout_wakeup, from the timer softirq.
Expire(t) ==
  /\ t \in timers
  /\ queued[t] /\ state[t] = "blocked" => EarlyIrq
  /\ running < MaxRunning
  /\ timers' = timers \ {t}
  /\ late'   = [late EXCEPT ![t] = TRUE]
  /\ WakeEffect(t)
  /\ UNCHANGED <<count, waits, up, at, stale>>

\* The same from a timer that nobody waits for any more; what the dead frame
\* holds by then is taken to be what it held before.
ExpireStale(t) ==
  /\ t \in stale
  /\ queued[t] /\ state[t] = "blocked" => EarlyIrq
  /\ running < MaxRunning
  /\ stale' = stale \ {t}
  /\ WakeEffect(t)
  /\ UNCHANGED <<count, waits, up, at, late, timers>>

-----------------------------------------------------------------------------
(* Specification *)

SemInit ==
  /\ Init
  /\ count  \in 0 .. MaxCount
  /\ waits  = <<>>
  /\ up     = [t \in Tasks |-> FALSE]
  /\ at     = [t \in Tasks |-> "out"]
  /\ late   = [t \in Tasks |-> FALSE]
  /\ timers = {}
  /\ stale  = {}

\* sched_resched behind task_yield, or called by a task outside of common_down.
SemResched ==
  /\ pc[curr] = "yield" \/ (curr # Idle /\ Free(curr))
  /\ Resched
  /\ UNCHANGED semVars

SchedRest ==
  /\ \/ IdleResched \/ ReschedAgain \/ ReschedDone \/ PreemptIrq \/ Tick
     \/ EnterIdle
     \/ \E t \in Tasks : Clone(t)
  /\ UNCHANGED semVars

SemNext ==
  /\ "broken" \notin listerr
  /\ \/ SemResched
     \/ SchedRest
     \/ UpByTask
     \/ UpByIrq
     \/ \E t \in Tasks :
          \/ DownFast(t) \/ DownSlow(t) \/ DownNow(t)
          \/ SleepForever(t) \/ SleepTimed(t)
          \/ Served(t) \/ Again(t) \/ TimedOut(t)
          \/ Expire(t) \/ ExpireStale(t)

SemSpec == SemInit /\ [][SemNext]_allVars

\* The tick never stops, kernel code between two scheduler calls is finite,
\* and, the kernel being cooperative, a task calls the scheduler in the end.
\* A task that is switched in leaves sched_resched some time: the tick does
\* not fall on the few instructions of its loop every time (strong fairness).
SemFairness ==
  /\ WF_allVars(Tick /\ UNCHANGED semVars)
  /\ WF_allVars((IdleResched \/ ReschedAgain \/ EnterIdle) /\ UNCHANGED semVars)
  /\ WF_allVars(SemResched)
  /\ \A t \in AllTasks : SF_allVars(curr = t /\ ReschedDone /\ UNCHANGED semVars)
  /\ \A t \in Tasks :
       WF_allVars(SleepForever(t) \/ SleepTimed(t) \/ Served(t) \/ Again(t) \/ TimedOut(t))

SemFairSpec == SemSpec /\ SemFairness

-----------------------------------------------------------------------------
(* Properties *)

\* A unit is never left on the table: while a task waits there is none, so
\* nobody who comes later can take one past it (semaphore.c:47 and :65 look
\* at the count only, not at the list).
NoBarging == count > 0 => waits = <<>>

\* The list holds exactly the tasks that are inside common_down and have not
\* been served, each once: its nodes are on their stacks, and one that stayed
\* behind would be used after the function returned.
WaitersExact ==
  /\ IsInjective(waits)
  /\ ToSet(waits) = {t \in Tasks : at[t] = "down" /\ ~up[t]}

\* No wakeup is lost: with no timers, who sleeps in common_down is still in
\* line; a task that was served is runnable.
SleepsIffWaits == \A t \in Tasks : at[t] = "down" /\ state[t] = "blocked" <=> Waits(t)

Abs == INSTANCE AbsSemaphore WITH
         Users <- Tasks, avail <- count, line <- waits,
         granted <- {t \in Tasks : at[t] = "down" /\ up[t]}

\* The code is a first-come-first-served semaphore, timeouts included.
IsSemaphore == Abs!AbsSpec

\* Without timeouts a task that was given a unit also returns with it.
IsLiveSemaphore == Abs!AbsFairSpec

=============================================================================
