--------------------------- MODULE SemaphoreProofs ---------------------------
(***************************************************************************)
(* Module Semaphore, timeouts and early wakeups included, implements the   *)
(* first-come-first-served semaphore of AbsSemaphore, for any number of    *)
(* tasks.  The argument needs nothing of the scheduler: whatever order it  *)
(* runs the tasks in, the list holds exactly the unserved ones.  That who  *)
(* sleeps is still in line does need it: see the last section.             *)
(***************************************************************************)
EXTENDS Semaphore, SchedProofs

\* The types the argument needs, and the two invariants.
SemInv ==
  /\ SemTypeOK
  /\ NoBarging
  /\ WaitersExact

LEMMA SemInitInv == SemInit => SemInv
<1>. SUFFICES ASSUME SemInit PROVE SemInv
  OBVIOUS
<1>1. /\ waits = <<>> /\ ToSet(waits) = {} /\ IsInjective(waits)
      /\ waits \in Seq(Tasks)
  BY DEF SemInit, ToSet, IsInjective
<1>2. SemTypeOK
  BY <1>1 DEF SemInit, SemTypeOK
<1>3. WaitersExact
  BY <1>1 DEF SemInit, WaitersExact
<1>. QED BY <1>1, <1>2, <1>3 DEF SemInv, NoBarging

LEMMA SemStepInv == SemInv /\ [SemNext]_allVars => SemInv'
<1>. SUFFICES ASSUME SemInv, [SemNext]_allVars PROVE SemInv'
  OBVIOUS
<1>1. /\ SemTypeOK /\ NoBarging /\ WaitersExact
      /\ count \in 0 .. MaxCount /\ waits \in Seq(Tasks)
      /\ up \in [Tasks -> BOOLEAN] /\ at \in [Tasks -> {"out", "down"}]
      /\ late \in [Tasks -> BOOLEAN] /\ timers \subseteq Timed /\ stale \subseteq Timed
      /\ IsInjective(waits)
      /\ ToSet(waits) = {t \in Tasks : at[t] = "down" /\ ~up[t]}
  BY DEF SemInv, SemTypeOK, WaitersExact
<1>2. CASE UNCHANGED <<count, waits, up, at>> /\ late' \in [Tasks -> BOOLEAN]
           /\ timers' \subseteq Timed /\ stale' \subseteq Timed
  BY <1>1, <1>2 DEF SemInv, SemTypeOK, NoBarging, WaitersExact
<1>3. CASE SemResched \/ SchedRest \/ UNCHANGED allVars
  BY <1>1, <1>2, <1>3 DEF SemResched, SchedRest, allVars, semVars
<1>4. CASE UpByTask \/ UpByIrq
  <2>1. semaphore_up
    BY <1>4 DEF UpByTask, UpByIrq
  <2>2. CASE waits = <<>>
    <3>1. /\ count' \in 0 .. MaxCount
          /\ UNCHANGED <<waits, up, at, late, timers, stale>>
      BY <2>1, <2>2, <1>1, SemAssumption DEF semaphore_up
    <3>. QED BY <3>1, <2>2, <1>1 DEF SemInv, SemTypeOK, NoBarging, WaitersExact
  <2>3. CASE waits # <<>>
    <3>1. /\ UNCHANGED <<count, at, late, timers, stale>>
          /\ up' = [up EXCEPT ![Head(waits)] = TRUE] /\ waits' = Tail(waits)
      BY <2>1, <2>3 DEF semaphore_up
    <3>2. /\ waits' \in Seq(Tasks) /\ IsInjective(waits')
          /\ ToSet(waits') = ToSet(waits) \ {Head(waits)}
          /\ Head(waits) \in Tasks
      BY <3>1, <2>3, <1>1, ListTail, ListFirst
    <3>3. count = 0
      BY <2>3, <1>1 DEF NoBarging
    <3>. QED BY <3>1, <3>2, <3>3, <1>1 DEF SemInv, SemTypeOK, NoBarging, WaitersExact
  <2>. QED BY <2>2, <2>3
<1>5. ASSUME NEW t \in Tasks, DownFast(t)
      PROVE  SemInv'
  <2>1. count' \in 0 .. MaxCount /\ waits = <<>>
    BY <1>1, <1>5, SemAssumption DEF DownFast, NoBarging
  <2>2. UNCHANGED <<waits, up, at, late, timers, stale>>
    BY <1>5 DEF DownFast
  <2>. QED BY <2>1, <2>2, <1>1 DEF SemInv, SemTypeOK, NoBarging, WaitersExact
<1>6. ASSUME NEW t \in Tasks, DownSlow(t)
      PROVE  SemInv'
  <2>1. /\ waits' = Append(waits, t)
        /\ up' = [up EXCEPT ![t] = FALSE] /\ at' = [at EXCEPT ![t] = "down"]
        /\ late' = [late EXCEPT ![t] = FALSE]
        /\ UNCHANGED <<count, timers, stale>>
        /\ count = 0 /\ at[t] = "out"
    BY <1>6 DEF DownSlow, Entered, Free
  <2>2. t \notin ToSet(waits)
    BY <2>1, <1>1
  <2>3. /\ waits' \in Seq(Tasks) /\ IsInjective(waits')
        /\ ToSet(waits') = ToSet(waits) \cup {t}
    BY <2>1, <2>2, <1>1, ListAddPrev
  <2>. QED BY <2>1, <2>3, <1>1 DEF SemInv, SemTypeOK, NoBarging, WaitersExact
<1>7. ASSUME NEW t \in Tasks, Served(t)
      PROVE  SemInv'
  <2>1. /\ up[t] /\ at' = [at EXCEPT ![t] = "out"]
        /\ UNCHANGED <<count, waits, up, late>>
        /\ timers' \subseteq Timed /\ stale' \subseteq Timed
    BY <1>1, <1>7 DEF Served, LeaveTimer
  <2>. QED BY <2>1, <1>1 DEF SemInv, SemTypeOK, NoBarging, WaitersExact
<1>8. ASSUME NEW t \in Tasks, TimedOut(t)
      PROVE  SemInv'
  <2>1. /\ ~up[t] /\ at[t] = "down"
        /\ waits' = RemoveFirst(waits, t) /\ at' = [at EXCEPT ![t] = "out"]
        /\ UNCHANGED <<count, up, late>>
        /\ timers' \subseteq Timed /\ stale' \subseteq Timed
    BY <1>1, <1>8 DEF TimedOut, LeaveTimer, Back
  <2>2. t \in ToSet(waits)
    BY <2>1, <1>1
  <2>3. /\ waits' \in Seq(Tasks) /\ IsInjective(waits')
        /\ ToSet(waits') = ToSet(waits) \ {t}
    BY <2>1, <2>2, <1>1, ListDel
  <2>4. count = 0
    BY <2>2, <1>1, ListElems DEF NoBarging
  <2>. QED BY <2>1, <2>3, <2>4, <1>1 DEF SemInv, SemTypeOK, NoBarging, WaitersExact
<1>9. ASSUME NEW t \in Tasks,
             \/ DownNow(t) \/ SleepForever(t) \/ SleepTimed(t) \/ Again(t)
             \/ Expire(t) \/ ExpireStale(t)
      PROVE  SemInv'
  <2>1. UNCHANGED <<count, waits, up, at>> /\ late' \in [Tasks -> BOOLEAN]
        /\ timers' \subseteq Timed /\ stale' \subseteq Timed
    BY <1>1, <1>9
    DEF DownNow, SleepForever, SleepTimed, Again, Expire, ExpireStale, LeaveTimer, semVars
  <2>. QED BY <2>1, <1>2
<1>. QED BY <1>3, <1>4, <1>5, <1>6, <1>7, <1>8, <1>9 DEF SemNext

-----------------------------------------------------------------------------

\* Nobody takes a unit past a task that waits for one, whatever the scheduler,
\* the timers and the interrupts do.
THEOREM NeverBarges == SemSpec => []NoBarging
<1>1. SemInv => NoBarging
  BY DEF SemInv
<1>. QED BY <1>1, SemInitInv, SemStepInv, PTL DEF SemSpec

\* No waiter outlives its stack frame on the list, and none falls off it.
THEOREM WaitersAlwaysExact == SemSpec => []WaitersExact
<1>1. SemInv => WaitersExact
  BY DEF SemInv
<1>. QED BY <1>1, SemInitInv, SemStepInv, PTL DEF SemSpec

LEMMA SemInitAbs == SemInit => Abs!AbsInit
<1>. SUFFICES ASSUME SemInit PROVE Abs!AbsInit
  OBVIOUS
<1>1. count \in Nat /\ waits = <<>> /\ {t \in Tasks : at[t] = "down" /\ up[t]} = {}
  BY SemAssumption DEF SemInit
<1>. QED BY <1>1 DEF Abs!AbsInit

\* Every step of the code is one of the abstract semaphore, or none.
LEMMA SemStepAbs == SemInv /\ [SemNext]_allVars => [Abs!AbsNext]_(Abs!absVars)
<1>. SUFFICES ASSUME SemInv, [SemNext]_allVars
              PROVE  Abs!AbsNext \/ UNCHANGED Abs!absVars
  BY DEF Abs!absVars
<1>. DEFINE granted == {t \in Tasks : at[t] = "down" /\ up[t]}
<1>1. /\ NoBarging
      /\ count \in Nat /\ waits \in Seq(Tasks)
      /\ up \in [Tasks -> BOOLEAN] /\ at \in [Tasks -> {"out", "down"}]
      /\ ToSet(waits) = {t \in Tasks : at[t] = "down" /\ ~up[t]}
  BY SemAssumption DEF SemInv, SemTypeOK, WaitersExact
<1>2. UNCHANGED <<count, waits, up, at>> => UNCHANGED Abs!absVars
  BY DEF Abs!absVars
<1>3. CASE SemResched \/ SchedRest \/ UNCHANGED allVars
  BY <1>2, <1>3 DEF SemResched, SchedRest, allVars, semVars
<1>4. CASE UpByTask \/ UpByIrq
  <2>1. semaphore_up
    BY <1>4 DEF UpByTask, UpByIrq
  <2>2. CASE waits = <<>>
    <3>1. count' = count + 1 /\ UNCHANGED <<waits, up, at>>
      BY <2>1, <2>2 DEF semaphore_up
    <3>2. Abs!Give
      BY <3>1, <2>2 DEF Abs!Give
    <3>. QED BY <3>2 DEF Abs!AbsNext
  <2>3. CASE waits # <<>>
    <3>1. /\ UNCHANGED <<count, at>> /\ waits' = Tail(waits)
          /\ up' = [up EXCEPT ![Head(waits)] = TRUE]
      BY <2>1, <2>3 DEF semaphore_up
    <3>2. Head(waits) \in Tasks /\ at[Head(waits)] = "down"
      BY <2>3, <1>1, ListFirst
    <3>3. granted' = granted \cup {Head(waits)}
      BY <3>1, <3>2, <1>1
    <3>4. Abs!Give
      BY <3>1, <3>3, <2>3 DEF Abs!Give
    <3>. QED BY <3>4 DEF Abs!AbsNext
  <2>. QED BY <2>2, <2>3
<1>5. ASSUME NEW t \in Tasks, DownFast(t)
      PROVE  Abs!Take
  <2>1. /\ count > 0 /\ count' = count - 1 /\ UNCHANGED <<waits, up, at>>
        /\ waits = <<>>
    BY <1>1, <1>5 DEF DownFast, NoBarging
  <2>. QED BY <2>1 DEF Abs!Take
<1>6. ASSUME NEW t \in Tasks, DownSlow(t)
      PROVE  Abs!Stand(t)
  <2>1. /\ waits' = Append(waits, t) /\ UNCHANGED count /\ count = 0 /\ at[t] = "out"
        /\ up' = [up EXCEPT ![t] = FALSE] /\ at' = [at EXCEPT ![t] = "down"]
    BY <1>6 DEF DownSlow, Entered, Free
  <2>2. granted' = granted /\ t \notin granted /\ t \notin ToSet(waits)
    BY <2>1, <1>1
  <2>3. \A i \in DOMAIN waits : waits[i] # t
    BY <2>2 DEF ToSet
  <2>. QED BY <2>1, <2>2, <2>3 DEF Abs!Stand
<1>7. ASSUME NEW t \in Tasks, Served(t)
      PROVE  Abs!Collect(t)
  <2>1. /\ up[t] /\ at[t] = "down" /\ at' = [at EXCEPT ![t] = "out"]
        /\ UNCHANGED <<count, waits, up>>
    BY <1>7 DEF Served, Back
  <2>2. t \in granted /\ granted' = granted \ {t}
    BY <2>1, <1>1
  <2>. QED BY <2>1, <2>2 DEF Abs!Collect
<1>8. ASSUME NEW t \in Tasks, TimedOut(t)
      PROVE  Abs!GiveUp(t)
  <2>1. /\ ~up[t] /\ at[t] = "down" /\ at' = [at EXCEPT ![t] = "out"]
        /\ waits' = RemoveFirst(waits, t) /\ UNCHANGED <<count, up>>
    BY <1>8 DEF TimedOut, Back
  <2>2. t \in ToSet(waits) /\ granted' = granted
    BY <2>1, <1>1
  <2>3. PICK k \in 1 .. Len(waits) : waits[k] = t /\ waits' = RemoveAt(waits, k)
    BY <2>1, <2>2, <1>1, RemoveFirstIsRemoveAt DEF SemInv, WaitersExact
  <2>4. waits' = SubSeq(waits, 1, k - 1) \o SubSeq(waits, k + 1, Len(waits))
    BY <2>3 DEF RemoveAt
  <2>5. k \in DOMAIN waits
    BY <2>3, <1>1
  <2>. QED BY <2>1, <2>2, <2>3, <2>4, <2>5 DEF Abs!GiveUp
<1>9. ASSUME NEW t \in Tasks,
             \/ DownNow(t) \/ SleepForever(t) \/ SleepTimed(t) \/ Again(t)
             \/ Expire(t) \/ ExpireStale(t)
      PROVE  UNCHANGED Abs!absVars
  <2>1. UNCHANGED <<count, waits, up, at>>
    BY <1>9 DEF DownNow, SleepForever, SleepTimed, Again, Expire, ExpireStale, semVars
  <2>. QED BY <2>1, <1>2
<1>. QED BY <1>3, <1>4, <1>5, <1>6, <1>7, <1>8, <1>9 DEF SemNext, Abs!AbsNext

\* semaphore.c over the scheduler implements the abstract semaphore.
THEOREM SemaphoreCorrect == SemSpec => IsSemaphore
<1>. QED BY SemInitInv, SemStepInv, SemInitAbs, SemStepAbs, PTL
         DEF SemSpec, IsSemaphore, Abs!AbsSpec

-----------------------------------------------------------------------------
(* No lost wakeup, where nobody gives up *)

\* Without timers who stands in line is asleep, or about to be, and who sleeps
\* inside common_down stands in line.
LineInv ==
  /\ RunInv
  /\ SemInv
  /\ timers = {} /\ stale = {} /\ \A t \in Tasks : ~late[t]
  /\ \A t \in ToSet(waits) : Asleep(t)
  /\ SleepsIffWaits

LEMMA LineStarts == SemInit => LineInv
<1>. SUFFICES ASSUME SemInit PROVE LineInv
  OBVIOUS
<1>1. RunInv /\ SemInv
  BY RunInit, SemInitInv DEF SemInit
<1>2. ToSet(waits) = {}
  BY DEF SemInit, ToSet
<1>. QED BY <1>1, <1>2 DEF SemInit, LineInv, SleepsIffWaits, Waits

LEMMA LineStep ==
  ASSUME ~Preempt, ~EarlyIrq, Timed = {}
  PROVE  LineInv /\ [SemNext]_allVars => LineInv'
<1>. SUFFICES ASSUME LineInv, [SemNext]_allVars PROVE LineInv'
  OBVIOUS
<1>1. /\ RunInv /\ SemInv /\ SleepsIffWaits
      /\ timers = {} /\ stale = {} /\ \A t \in Tasks : ~late[t]
      /\ \A t \in ToSet(waits) : Asleep(t)
      /\ waits \in Seq(Tasks) /\ ToSet(waits) \subseteq Tasks /\ IsInjective(waits)
      /\ ToSet(waits) = {t \in Tasks : at[t] = "down" /\ ~up[t]}
      /\ at \in [Tasks -> {"out", "down"}] /\ up \in [Tasks -> BOOLEAN]
      /\ late \in [Tasks -> BOOLEAN]
      /\ Idle \notin Tasks /\ Tasks \subseteq AllTasks
      /\ state \in [AllTasks -> States] /\ pc \in [AllTasks -> Places]
  BY IdleAssumption, ListElems
  DEF LineInv, SemInv, SemTypeOK, WaitersExact, RunInv, BaseInv, TypeOK, AllTasks
<1>2. SemInv'
  BY <1>1, SemStepInv
<1>3. ASSUME UNCHANGED schedVars PROVE RunInv' /\ \A t \in Tasks : Asleep(t)' <=> Asleep(t)
  BY <1>1, <1>3
  DEF schedVars, queueVars, taskVars, RunInv, BaseInv, TypeOK, RunQueueExact,
      RunnableIsQueued, NoDoubleAdd, OnList, Asleep
<1>4. CASE UNCHANGED allVars
  BY <1>1, <1>2, <1>3, <1>4
  DEF allVars, semVars, schedVars, taskVars, LineInv, SleepsIffWaits, Waits
<1>5. ASSUME "broken" \notin listerr, UNCHANGED semVars,
             \/ Resched \/ IdleResched \/ ReschedAgain \/ ReschedDone \/ PreemptIrq
             \/ Tick \/ EnterIdle \/ Yield \/ \E t \in Tasks : Clone(t)
      PROVE  LineInv'
  <2>1. RunInv'
    BY <1>1, <1>5, RunStep DEF Next, SchedStep
  <2>2. \A t \in Tasks : /\ Asleep(t) => Asleep(t)'
                         /\ state'[t] = "blocked" => state[t] = "blocked"
    BY <1>1, <1>5, SleepersSleepOn
  <2>3. UNCHANGED <<waits, at, late, timers, stale>>
    BY <1>5 DEF semVars
  <2>4. SleepsIffWaits'
    BY <2>2, <2>3, <1>1 DEF SleepsIffWaits, Waits, Asleep
  <2>. QED BY <2>1, <2>2, <2>3, <2>4, <1>1, <1>2 DEF LineInv
<1>6. CASE UpByTask \/ UpByIrq
  <2>1. semaphore_up
    BY <1>6 DEF UpByTask, UpByIrq
  <2>2. CASE waits = <<>>
    <3>1. UNCHANGED <<schedVars, waits, up, at, late, timers, stale>>
      BY <2>1, <2>2 DEF semaphore_up
    <3>. QED BY <3>1, <1>1, <1>2, <1>3 DEF schedVars, taskVars, LineInv, SleepsIffWaits, Waits
  <2>3. CASE waits # <<>>
    <3>. DEFINE h == Head(waits)
    <3>1. /\ waits' = Tail(waits) /\ WakeEffect(h)
          /\ UNCHANGED <<at, late, timers, stale>>
      BY <2>1, <2>3 DEF semaphore_up
    <3>2. /\ h \in ToSet(waits) /\ h \in Tasks
          /\ ToSet(waits') = ToSet(waits) \ {h}
      BY <2>3, <3>1, <1>1, ListFirst, ListTail
    <3>3. ~OnList(h)
      <4>1. state[h] = "blocked" /\ at[h] = "down" /\ RunnableIsQueued /\ RunQueueExact
        BY <3>2, <1>1 DEF Asleep, RunInv
      <4>2. CASE UpByTask
        BY <4>1, <4>2, <3>2, <1>1 DEF UpByTask, RunnableIsQueued
      <4>3. CASE UpByIrq
        BY <4>1, <4>3, <3>2, <2>3, <1>1 DEF UpByIrq, RunQueueExact, OnList
      <4>. QED BY <1>6, <4>2, <4>3
    <3>4. RunInv'
      BY <3>1, <3>2, <3>3, <1>1, WakeEffectRun
    <3>5. /\ state' = [state EXCEPT ![h] = "running"] /\ UNCHANGED <<curr, pc>>
      BY <3>1 DEF WakeEffect, sched_wake_up
    <3>6. \A t \in ToSet(waits') : Asleep(t)'
      BY <3>2, <3>5, <1>1 DEF Asleep
    <3>7. SleepsIffWaits'
      BY <3>1, <3>2, <3>5, <1>1 DEF SleepsIffWaits, Waits
    <3>. QED BY <3>1, <3>4, <3>6, <3>7, <1>1, <1>2 DEF LineInv
  <2>. QED BY <2>2, <2>3
<1>7. ASSUME NEW t \in Tasks, DownFast(t) PROVE LineInv'
  <2>1. UNCHANGED <<schedVars, waits, up, at, late, timers, stale>>
    BY <1>7 DEF DownFast
  <2>. QED BY <2>1, <1>1, <1>2, <1>3 DEF schedVars, taskVars, LineInv, SleepsIffWaits, Waits
<1>8. ASSUME NEW t \in Tasks, DownSlow(t) PROVE LineInv'
  <2>1. /\ t = curr /\ at[t] = "out" /\ Announce(t)
        /\ waits' = Append(waits, t)
        /\ at' = [at EXCEPT ![t] = "down"] /\ late' = [late EXCEPT ![t] = FALSE]
        /\ UNCHANGED <<curr, queueVars, queued, resched, slice, listerr, timers, stale>>
    BY <1>8 DEF DownSlow, Entered, Free
  <2>2. RunInv'
    BY <2>1, <1>1, AnnounceRun
  <2>3. ToSet(waits') = ToSet(waits) \cup {t}
    BY <2>1, <1>1, ListAddPrev
  <2>4. /\ state' = [state EXCEPT ![t] = "blocked"] /\ pc' = [pc EXCEPT ![t] = "sleep"]
    BY <2>1 DEF Announce
  <2>5. \A u \in ToSet(waits') : Asleep(u)'
    BY <2>1, <2>3, <2>4, <1>1 DEF Asleep
  <2>6. SleepsIffWaits'
    BY <2>1, <2>3, <2>4, <1>1 DEF SleepsIffWaits, Waits
  <2>. QED BY <2>1, <2>2, <2>5, <2>6, <1>1, <1>2 DEF LineInv
<1>9. ASSUME NEW t \in Tasks, Served(t) PROVE LineInv'
  <2>1. /\ t = curr /\ pc[t] = "run" /\ at[t] = "down" /\ up[t]
        /\ at' = [at EXCEPT ![t] = "out"] /\ timers' = {} /\ stale' = {}
        /\ UNCHANGED <<schedVars, waits, late>>
    BY <1>9, <1>1 DEF Served, Back, LeaveTimer
  <2>2. SleepsIffWaits'
    BY <2>1, <1>1 DEF SleepsIffWaits, Waits, schedVars, taskVars
  <2>. QED BY <2>1, <2>2, <1>1, <1>2, <1>3 DEF LineInv
\* A task that is back and was not served would be both in line and awake.
<1>10. ASSUME NEW t \in Tasks, Again(t) PROVE FALSE
  <2>1. t \in ToSet(waits) /\ t = curr /\ pc[t] = "run"
    BY <1>10, <1>1 DEF Again, Back
  <2>. QED BY <2>1, <1>1 DEF Asleep
<1>11. ASSUME NEW t \in Tasks,
              \/ DownNow(t) \/ SleepTimed(t) \/ TimedOut(t) \/ Expire(t) \/ ExpireStale(t)
       PROVE  FALSE
  BY <1>1, <1>11 DEF DownNow, SleepTimed, TimedOut, Expire, ExpireStale
<1>12. ASSUME SemNext, SemResched \/ SchedRest \/ \E t \in Tasks : SleepForever(t)
       PROVE  LineInv'
  <2>1. /\ "broken" \notin listerr /\ UNCHANGED semVars
        /\ \/ Resched \/ IdleResched \/ ReschedAgain \/ ReschedDone \/ PreemptIrq
           \/ Tick \/ EnterIdle \/ Yield \/ \E t \in Tasks : Clone(t)
    BY <1>12 DEF SemNext, SemResched, SchedRest, SleepForever
  <2>. QED BY <2>1, <1>5
<1>. QED BY <1>4, <1>6, <1>7, <1>8, <1>9, <1>10, <1>11, <1>12 DEF SemNext

\* semaphore.c:16-57 and 93-108, without timeouts: who sleeps in common_down
\* is still in line, and who was served is runnable, although the scheduler
\* and the list change in different steps.
THEOREM NoWakeupLost ==
  ASSUME ~Preempt, ~EarlyIrq, Timed = {}
  PROVE  SemSpec => []SleepsIffWaits
<1>1. LineInv => SleepsIffWaits
  BY DEF LineInv
<1>2. LineInv /\ [SemNext]_allVars => LineInv'
  BY LineStep
<1>. QED BY <1>1, <1>2, LineStarts, PTL DEF SemSpec

\* So every wakeup finds its task off the run queue: without timeouts no entry
\* is added twice, and the records of the queue agree, whoever waits for units
\* and whoever gives them back.  MCSemStale.cfg shows the timers to be necessary.
THEOREM WaitersAddedOnce ==
  ASSUME ~Preempt, ~EarlyIrq, Timed = {}
  PROVE  SemSpec => [](NoDoubleAdd /\ RunQueueExact /\ RunnableIsQueued)
<1>1. LineInv => NoDoubleAdd /\ RunQueueExact /\ RunnableIsQueued
  BY DEF LineInv, RunInv
<1>2. LineInv /\ [SemNext]_allVars => LineInv'
  BY LineStep
<1>. QED BY <1>1, <1>2, LineStarts, PTL DEF SemSpec

=============================================================================
