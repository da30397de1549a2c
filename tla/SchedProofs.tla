----------------------------- MODULE SchedProofs -----------------------------
(***************************************************************************)
(* Safety of the scheduler for any number of tasks, any time slice and     *)
(* both classes.  BaseInv holds whatever the preemption mode is; RunInv    *)
(* needs a kernel in which an interrupt neither preempts nor wakes a task  *)
(* between its current_set_state and its dispatch (MCSchedWake.cfg shows   *)
(* what happens otherwise).                                                *)
(***************************************************************************)
EXTENDS Sched, ListFacts

\* What every mode keeps: the list is well formed and holds only tasks that
\* are queued and alive, the task that runs is on it, and running[] is never
\* below the number of entries, so that deactivate cannot make it negative.
BaseInv ==
  /\ TypeOK
  /\ IsInjective(list)
  /\ Len(list) <= running
  /\ \A t \in ToSet(list) : queued[t] /\ state[t] # "free"
  /\ curr # Idle => OnList(curr)
  /\ state[Idle] = "running"

-----------------------------------------------------------------------------
(* sched_dispatch *)

\* The entry of the task that gives way leaves the list: it is deactivated,
\* or context_switch_finish destroys it.
Leaves(preempt) ==
  \/ state[curr] # "running" /\ ~preempt
  \/ state[curr] = "kill" /\ curr' # curr

\* Whether it does or not, the other entries stay, each once, and the task
\* that runs next is one of them.
LEMMA DispatchList ==
  ASSUME BaseInv, NEW preempt \in BOOLEAN, NEW at \in Places,
         sched_dispatch(preempt, at)
  PROVE  /\ list' \in Seq(Tasks) /\ IsInjective(list')
         /\ Len(list') = Len(list) - (IF Leaves(preempt) THEN 1 ELSE 0)
         /\ ToSet(list') = IF Leaves(preempt) THEN ToSet(list) \ {curr} ELSE ToSet(list)
         /\ Leaves(preempt) => OnList(curr) /\ curr # Idle /\ Len(list) > 0
         /\ curr' # Idle => curr' \in ToSet(list')
<1>. DEFINE deact == state[curr] # "running" /\ ~preempt
            q     == IF deact THEN RemoveFirst(list, curr) ELSE list
            b     == IF deact /\ q = <<>> THEN FALSE ELSE bitmap
            next  == task_pick_next(b, q)
            dead  == next # curr /\ state[curr] = "kill"
<1>1. /\ curr' = next
      /\ list' = IF dead THEN RemoveFirst(q, curr) ELSE q
  BY DEF sched_dispatch, Deactivates, task_unlink, ClearedFlag
<1>2. /\ list \in Seq(Tasks) /\ IsInjective(list)
      /\ curr # Idle => curr \in ToSet(list)
      /\ state[Idle] = "running"
      /\ Len(list) \in Nat
  BY DEF BaseInv, TypeOK, OnList
<1>3. curr \in ToSet(list) => Len(list) > 0
  BY <1>2, ListElems
<1>4. deact \/ dead => curr # Idle
  BY <1>2
<1>5. /\ q \in Seq(Tasks) /\ IsInjective(q)
      /\ Len(q) = Len(list) - (IF deact THEN 1 ELSE 0)
      /\ ToSet(q) = IF deact THEN ToSet(list) \ {curr} ELSE ToSet(list)
  <2>1. CASE deact
    BY <2>1, <1>2, <1>4, ListDel
  <2>2. CASE ~deact
    BY <2>2, <1>2
  <2>. QED BY <2>1, <2>2
<1>6. next # Idle => next \in ToSet(q)
  BY <1>5, ListFirst DEF task_pick_next
<1>. HIDE DEF q, next
<1>7. /\ list' \in Seq(Tasks) /\ IsInjective(list')
      /\ Len(list') = Len(list) - (IF deact \/ dead THEN 1 ELSE 0)
      /\ ToSet(list') = IF deact \/ dead THEN ToSet(list) \ {curr} ELSE ToSet(list)
  <2>1. CASE dead /\ ~deact
    BY <2>1, <1>1, <1>2, <1>4, <1>5, ListDel
  <2>2. CASE dead /\ deact
    <3>1. curr \notin ToSet(q)
      BY <2>2, <1>5
    <3>. QED BY <2>2, <3>1, <1>1, <1>5, ListDelAbsent
  <2>3. CASE ~dead
    BY <2>3, <1>1, <1>5
  <2>. QED BY <2>1, <2>2, <2>3
<1>8. curr' # Idle => curr' \in ToSet(list')
  BY <1>1, <1>4, <1>5, <1>6, <1>7
<1>9. Leaves(preempt) <=> deact \/ dead
  BY <1>1 DEF Leaves
<1>. QED BY <1>2, <1>3, <1>4, <1>7, <1>8, <1>9 DEF OnList

-----------------------------------------------------------------------------
(* What holds in every mode *)

LEMMA DispatchBase ==
  ASSUME BaseInv, NEW preempt \in BOOLEAN, NEW at \in Places,
         sched_dispatch(preempt, at)
  PROVE  BaseInv'
<1>1. /\ TypeOK /\ IsInjective(list) /\ Len(list) <= running
      /\ \A t \in ToSet(list) : queued[t] /\ state[t] # "free"
      /\ curr # Idle => OnList(curr)
      /\ state[Idle] = "running"
  BY DEF BaseInv
<1>2. /\ list' \in Seq(Tasks) /\ IsInjective(list')
      /\ Len(list') = Len(list) - (IF Leaves(preempt) THEN 1 ELSE 0)
      /\ ToSet(list') = IF Leaves(preempt) THEN ToSet(list) \ {curr} ELSE ToSet(list)
      /\ Leaves(preempt) => OnList(curr) /\ curr # Idle /\ Len(list) > 0
      /\ curr' # Idle => curr' \in ToSet(list')
  BY DispatchList
<1>3. /\ running' = IF state[curr] # "running" /\ ~preempt THEN running - 1 ELSE running
      /\ state' = IF curr' # curr /\ state[curr] = "kill"
                    THEN [state EXCEPT ![curr] = "free"] ELSE state
      /\ queued' = IF Leaves(preempt) THEN [queued EXCEPT ![curr] = FALSE] ELSE queued
  BY DEF sched_dispatch, Deactivates, task_unlink, Leaves
<1>4. Len(list) \in Nat /\ ToSet(list) \subseteq Tasks /\ ToSet(list') \subseteq Tasks
  BY <1>1, <1>2, ListElems DEF TypeOK
<1>5. TypeOK'
  <2>1. curr' \in AllTasks
    BY <1>2, <1>4 DEF AllTasks
  <2>2. running' \in Nat
    BY <1>1, <1>2, <1>3, <1>4 DEF TypeOK, Leaves
  <2>3. bitmap' \in BOOLEAN
    BY <1>1 DEF TypeOK, sched_dispatch, Deactivates, task_unlink, ClearedFlag
  <2>4. /\ state' \in [AllTasks -> States]
        /\ queued' \in [AllTasks -> BOOLEAN]
    BY <1>1, <1>3 DEF TypeOK, States
  <2>5. /\ resched' \in [AllTasks -> BOOLEAN]
        /\ slice' \in [AllTasks -> 0 .. Slice]
    BY <1>1 DEF TypeOK, sched_dispatch, Deactivates, task_unlink, ClearedFlag
  <2>6. pc' \in [AllTasks -> Places]
    BY <1>1 DEF TypeOK, sched_dispatch, Deactivates, task_unlink, ClearedFlag, Places
  <2>7. listerr' \subseteq {"add", "broken", "del"}
    BY <1>1 DEF TypeOK, sched_dispatch, Deactivates, task_unlink, ClearedFlag
  <2>. QED BY <1>2, <2>1, <2>2, <2>3, <2>4, <2>5, <2>6, <2>7 DEF TypeOK
<1>6. Len(list') <= running'
  BY <1>1, <1>2, <1>3, <1>4 DEF TypeOK, Leaves
<1>7. \A t \in ToSet(list') : queued'[t] /\ state'[t] # "free"
  <2>. SUFFICES ASSUME NEW t \in ToSet(list')
                PROVE  queued'[t] /\ state'[t] # "free"
    OBVIOUS
  <2>1. t \in ToSet(list) /\ t \in AllTasks
    BY <1>2, <1>4 DEF AllTasks
  <2>2. CASE Leaves(preempt)
    <3>1. t # curr
      BY <2>2, <1>2
    <3>. QED BY <3>1, <2>1, <1>1, <1>3 DEF TypeOK
  <2>3. CASE ~Leaves(preempt)
    BY <2>3, <2>1, <1>1, <1>3 DEF Leaves
  <2>. QED BY <2>2, <2>3
<1>8. state'[Idle] = "running"
  BY <1>1, <1>3 DEF TypeOK, AllTasks
<1>. QED BY <1>2, <1>5, <1>6, <1>7, <1>8 DEF BaseInv, OnList

\* sched_wake_up and sched_wake_up_new, on a task that exists or is created.
LEMMA WakeBase ==
  ASSUME BaseInv, NEW t \in Tasks, sched_wake_up(t), UNCHANGED curr,
         resched' \in [AllTasks -> BOOLEAN], slice' \in [AllTasks -> 0 .. Slice],
         pc' \in [AllTasks -> Places]
  PROVE  BaseInv'
<1>1. /\ TypeOK /\ IsInjective(list) /\ Len(list) <= running
      /\ \A u \in ToSet(list) : queued[u] /\ state[u] # "free"
      /\ curr # Idle => OnList(curr)
      /\ state[Idle] = "running"
  BY DEF BaseInv
<1>2. /\ list' = IF OnList(t) THEN list ELSE Append(list, t)
      /\ running' = running + 1
      /\ bitmap' = TRUE
      /\ listerr' = listerr \cup DoubleAdd(t) /\ DoubleAdd(t) \subseteq {"add", "broken"}
      /\ queued' = [queued EXCEPT ![t] = TRUE]
      /\ state' = [state EXCEPT ![t] = "running"]
  BY DEF sched_wake_up, task_enqueue, DoubleAdd
<1>3. /\ list' \in Seq(Tasks) /\ IsInjective(list')
      /\ Len(list') <= Len(list) + 1
      /\ ToSet(list') = ToSet(list) \cup {t}
      /\ Len(list) \in Nat
  <2>1. list \in Seq(Tasks) /\ Len(list) \in Nat
    BY <1>1 DEF TypeOK
  <2>2. CASE OnList(t)
    BY <2>1, <2>2, <1>1, <1>2 DEF OnList
  <2>3. CASE ~OnList(t)
    BY <2>1, <2>3, <1>1, <1>2, ListAddPrev DEF OnList
  <2>. QED BY <2>1, <2>2, <2>3
<1>4. t \in AllTasks /\ t # Idle /\ ToSet(list) \subseteq AllTasks
  BY <1>1, ListElems, IdleAssumption DEF TypeOK, AllTasks
<1>5. TypeOK'
  <2>1. running' \in Nat
    BY <1>1, <1>2 DEF TypeOK
  <2>2. /\ state' \in [AllTasks -> States]
        /\ queued' \in [AllTasks -> BOOLEAN]
    BY <1>1, <1>2 DEF TypeOK, States
  <2>3. listerr' \subseteq {"add", "broken", "del"}
    BY <1>1, <1>2 DEF TypeOK
  <2>. QED BY <1>1, <1>2, <1>3, <2>1, <2>2, <2>3 DEF TypeOK
<1>6. Len(list') <= running'
  <2>1. Len(list') \in Nat
    BY <1>3
  <2>. QED BY <2>1, <1>1, <1>2, <1>3 DEF TypeOK
<1>7. \A u \in ToSet(list') : queued'[u] /\ state'[u] # "free"
  BY <1>1, <1>2, <1>3, <1>4 DEF TypeOK
<1>8. state'[Idle] = "running"
  BY <1>1, <1>2, <1>4 DEF TypeOK, AllTasks
<1>. QED BY <1>1, <1>3, <1>5, <1>6, <1>7, <1>8 DEF BaseInv, OnList

\* task_yield and the tick put the current task behind the others.
LEMMA ToTailList ==
  ASSUME BaseInv, NEW t \in ToSet(list)
  PROVE  /\ ToTail(list, t) \in Seq(Tasks) /\ IsInjective(ToTail(list, t))
         /\ Len(ToTail(list, t)) = Len(list)
         /\ ToSet(ToTail(list, t)) = ToSet(list)
<1>. DEFINE d == RemoveFirst(list, t)
<1>1. /\ list \in Seq(Tasks) /\ IsInjective(list) /\ t \in Tasks
      /\ Len(list) \in Nat
  BY ListElems DEF BaseInv, TypeOK
<1>2. /\ d \in Seq(Tasks) /\ Len(d) = Len(list) - 1 /\ IsInjective(d)
      /\ ToSet(d) = ToSet(list) \ {t}
  BY <1>1, ListDel
<1>. HIDE DEF d
<1>3. /\ Append(d, t) \in Seq(Tasks) /\ Len(Append(d, t)) = Len(d) + 1
      /\ ToSet(Append(d, t)) = ToSet(d) \cup {t}
      /\ IsInjective(Append(d, t))
  BY <1>1, <1>2, ListAddPrev
<1>. QED BY <1>1, <1>2, <1>3 DEF ToTail, d

LEMMA BaseInit == Init => BaseInv
<1>. SUFFICES ASSUME Init PROVE BaseInv
  OBVIOUS
<1>1. list = <<>> /\ list \in Seq(Tasks) /\ IsInjective(list) /\ ToSet(list) = {}
  BY DEF Init, IsInjective, ToSet
<1>2. TypeOK
  <2>1. curr \in AllTasks /\ running \in Nat /\ bitmap \in BOOLEAN
    BY DEF Init, AllTasks
  <2>2. state \in [AllTasks -> States]
    BY DEF Init, States
  <2>3. queued \in [AllTasks -> BOOLEAN] /\ resched \in [AllTasks -> BOOLEAN]
    BY DEF Init
  <2>4. slice \in [AllTasks -> 0 .. Slice]
    BY BoundAssumption DEF Init
  <2>5. pc \in [AllTasks -> Places] /\ listerr \subseteq {"add", "broken", "del"}
    BY DEF Init, Places
  <2>. QED BY <1>1, <2>1, <2>2, <2>3, <2>4, <2>5 DEF TypeOK
<1>3. Len(list) <= running
  BY <1>1 DEF Init
<1>. QED BY <1>1, <1>2, <1>3 DEF Init, BaseInv, AllTasks

LEMMA BaseStep == BaseInv /\ [Next]_vars => BaseInv'
<1>. SUFFICES ASSUME BaseInv, [Next]_vars PROVE BaseInv'
  OBVIOUS
<1>1. /\ TypeOK /\ IsInjective(list) /\ Len(list) <= running
      /\ \A u \in ToSet(list) : queued[u] /\ state[u] # "free"
      /\ curr # Idle => OnList(curr)
      /\ state[Idle] = "running"
  BY DEF BaseInv
<1>2. CASE \/ Resched \/ IdleResched \/ ReschedAgain
  <2>1. sched_dispatch(FALSE, "loop")
    BY <1>2 DEF Resched, IdleResched, ReschedAgain
  <2>. QED BY <2>1, DispatchBase DEF Places
<1>3. CASE PreemptIrq
  <2>1. sched_dispatch(TRUE, pc[curr]) /\ pc[curr] \in Places
    BY <1>1, <1>3 DEF PreemptIrq, TypeOK
  <2>. QED BY <2>1, DispatchBase
<1>4. CASE ReschedDone \/ EnterIdle
  BY <1>1, <1>4
  DEF ReschedDone, EnterIdle, BaseInv, TypeOK, OnList, Places, queueVars, taskVars
<1>5. CASE Tick
  <2>1. /\ UNCHANGED <<curr, running, bitmap, state, queued, pc, listerr>>
        /\ slice' \in [AllTasks -> 0 .. Slice]
        /\ resched' \in [AllTasks -> BOOLEAN]
    <3>1. /\ curr \in AllTasks
          /\ slice \in [AllTasks -> 0 .. Slice]
          /\ slice[curr] \in 0 .. Slice
          /\ resched \in [AllTasks -> BOOLEAN]
      BY <1>1 DEF TypeOK
    <3>2. [slice EXCEPT ![curr] = Slice] \in [AllTasks -> 0 .. Slice]
      BY <3>1, BoundAssumption
    <3>3. slice[curr] > 0 => slice[curr] - 1 \in 0 .. Slice
      BY <3>1, BoundAssumption
    <3>4. slice[curr] > 0 => [slice EXCEPT ![curr] = slice[curr] - 1] \in [AllTasks -> 0 .. Slice]
      BY <3>1, <3>3
    <3>5. [resched EXCEPT ![curr] = TRUE] \in [AllTasks -> BOOLEAN]
      BY <3>1
    <3>. QED BY <1>5, <3>1, <3>2, <3>4, <3>5 DEF Tick, TurnGoesOn, TurnEnds
  <2>2. CASE UNCHANGED list
    BY <2>1, <2>2, <1>1 DEF BaseInv, TypeOK, OnList
  <2>3. CASE list' = ToTail(list, curr) /\ curr # Idle
    <3>1. /\ list' \in Seq(Tasks) /\ IsInjective(list')
          /\ Len(list') = Len(list) /\ ToSet(list') = ToSet(list)
      BY <2>3, <1>1, ToTailList DEF OnList
    <3>. QED BY <3>1, <2>1, <1>1 DEF BaseInv, TypeOK, OnList
  <2>. QED BY <2>2, <2>3, <1>5 DEF Tick, TurnGoesOn, TurnEnds
<1>6. CASE Yield
  <2>1. /\ list' \in Seq(Tasks) /\ IsInjective(list')
        /\ Len(list') = Len(list) /\ ToSet(list') = ToSet(list)
    BY <1>6, <1>1, ToTailList DEF Yield, OnList
  <2>2. /\ UNCHANGED <<curr, running, bitmap, state, queued, resched, listerr>>
        /\ slice' \in [AllTasks -> 0 .. Slice]
        /\ pc' \in [AllTasks -> Places]
    BY <1>1, <1>6, BoundAssumption DEF Yield, TypeOK, Places
  <2>. QED BY <2>1, <2>2, <1>1 DEF BaseInv, TypeOK, OnList
<1>7. CASE Block \/ Exit
  <2>1. /\ UNCHANGED <<curr, queueVars, queued, resched, slice, listerr>>
        /\ state' \in [AllTasks -> States]
        /\ pc' \in [AllTasks -> Places]
        /\ \A u \in AllTasks : state[u] # "free" => state'[u] # "free"
        /\ state'[Idle] = "running"
    BY <1>1, <1>7, ModeAssumption, IdleAssumption
    DEF Block, Announce, Exit, TypeOK, States, Places, AllTasks
  <2>2. ToSet(list) \subseteq AllTasks
    BY <1>1, ListElems DEF TypeOK, AllTasks
  <2>. QED BY <2>1, <2>2, <1>1 DEF BaseInv, TypeOK, OnList, queueVars
<1>8. ASSUME NEW t \in Tasks, Clone(t) \/ WakeByTask(t) \/ WakeByIrq(t)
      PROVE  BaseInv'
  <2>1. sched_wake_up(t) /\ UNCHANGED curr
    BY <1>8 DEF Clone, WakeByTask, WakeByIrq, WakeEffect
  <2>2. /\ resched' \in [AllTasks -> BOOLEAN]
        /\ slice' \in [AllTasks -> 0 .. Slice]
        /\ pc' \in [AllTasks -> Places]
    <3>1. /\ resched \in [AllTasks -> BOOLEAN] /\ curr \in AllTasks
          /\ slice \in [AllTasks -> 0 .. Slice] /\ pc \in [AllTasks -> Places]
          /\ Slice \in 0 .. Slice
      BY <1>1, BoundAssumption DEF TypeOK
    <3>2. \A f \in [AllTasks -> BOOLEAN] : FlagCurr(f) \in [AllTasks -> BOOLEAN]
      BY DEF FlagCurr
    <3>3. [resched EXCEPT ![t] = resched[curr]] \in [AllTasks -> BOOLEAN]
      BY <3>1
    <3>4. CASE Clone(t)
      BY <3>1, <3>2, <3>3, <3>4 DEF Clone, Places
    <3>5. CASE WakeByTask(t) \/ WakeByIrq(t)
      BY <3>1, <3>2, <3>5 DEF WakeByTask, WakeByIrq, WakeEffect
    <3>. QED BY <1>8, <3>4, <3>5
  <2>. QED BY <2>1, <2>2, WakeBase
<1>9. CASE UNCHANGED vars
  BY <1>1, <1>9 DEF vars, BaseInv, TypeOK, OnList
<1>. QED BY <1>2, <1>3, <1>4, <1>5, <1>6, <1>7, <1>8, <1>9 DEF Next, SchedStep

\* Every variable keeps its type, in every mode.
THEOREM TypeCorrect == Spec => []TypeOK
<1>1. BaseInv => TypeOK
  BY DEF BaseInv
<1>. QED BY <1>1, BaseInit, BaseStep, PTL DEF Spec

\* The CPU never runs, and the queue never holds, a task whose slot was given
\* back by context_switch_finish, in every mode.
THEOREM NeverUsesFreed == Spec => []NoUseAfterFree
<1>1. BaseInv => NoUseAfterFree
  BY DEF BaseInv, NoUseAfterFree, OnList
<1>. QED BY <1>1, BaseInit, BaseStep, PTL DEF Spec

-----------------------------------------------------------------------------
(* What needs a kernel without preemption and without early wakeups *)

\* The queue, the queued flags, the task states and the counters all say the
\* same.  A wakeup finds the task off the list, so it is never added twice.
RunInv == BaseInv /\ RunQueueExact /\ RunnableIsQueued /\ NoDoubleAdd

\* Without preemption the entry that leaves does so in task_deactivate, so
\* the bit and the counter are the ones of the list.
LEMMA DispatchQueue ==
  ASSUME BaseInv, RunQueueExact, NEW at \in Places, sched_dispatch(FALSE, at)
  PROVE  /\ bitmap' = (list' # <<>>)
         /\ running' = Len(list')
         /\ Leaves(FALSE) <=> state[curr] # "running"
         /\ curr' = IF list' # <<>> THEN Head(list') ELSE Idle
         /\ listerr' \subseteq listerr \cup {"del"}
<1>. DEFINE deact == state[curr] # "running"
            q     == IF deact THEN RemoveFirst(list, curr) ELSE list
            b     == IF deact /\ q = <<>> THEN FALSE ELSE bitmap
            next  == task_pick_next(b, q)
            dead  == next # curr /\ state[curr] = "kill"
<1>1. /\ curr' = next /\ bitmap' = b
      /\ list' = IF dead THEN RemoveFirst(q, curr) ELSE q
      /\ running' = IF deact THEN running - 1 ELSE running
      /\ listerr' \subseteq listerr \cup {"del"}
  BY DEF sched_dispatch, Deactivates, task_unlink, ClearedFlag
<1>2. /\ list \in Seq(Tasks) /\ IsInjective(list)
      /\ running = Len(list) /\ bitmap = (list # <<>>)
      /\ state[curr] # "running" => curr \in ToSet(list)
  BY DEF BaseInv, RunQueueExact, TypeOK, OnList
<1>3. Leaves(FALSE) <=> deact
  BY DEF Leaves
<1>4. CASE deact
  <2>1. /\ q \in Seq(Tasks) /\ Len(q) = Len(list) - 1
        /\ ToSet(q) = ToSet(list) \ {curr}
    BY <1>2, <1>4, ListDel
  <2>2. RemoveFirst(q, curr) = q
    BY <2>1, ListDelAbsent
  <2>3. b = (q # <<>>)
    <3>1. q # <<>> => list # <<>>
      BY <2>1, <1>2, ListElems
    <3>. QED BY <3>1, <1>2, <1>4
  <2>4. list' = q
    BY <1>1, <2>2
  <2>. HIDE DEF q
  <2>. QED BY <1>1, <1>2, <1>3, <1>4, <2>1, <2>3, <2>4 DEF task_pick_next
<1>5. CASE ~deact
  BY <1>1, <1>2, <1>3, <1>5 DEF task_pick_next
<1>. QED BY <1>4, <1>5

LEMMA DispatchRun ==
  ASSUME RunInv, NEW at \in Places, sched_dispatch(FALSE, at)
  PROVE  RunInv'
<1>1. /\ BaseInv /\ RunQueueExact /\ RunnableIsQueued /\ NoDoubleAdd
  BY DEF RunInv
<1>2. BaseInv'
  BY <1>1, DispatchBase
<1>3. /\ list' \in Seq(Tasks) /\ IsInjective(list')
      /\ ToSet(list') = IF Leaves(FALSE) THEN ToSet(list) \ {curr} ELSE ToSet(list)
      /\ curr' # Idle => curr' \in ToSet(list')
  BY <1>1, DispatchList
<1>4. /\ bitmap' = (list' # <<>>)
      /\ running' = Len(list')
      /\ Leaves(FALSE) <=> state[curr] # "running"
      /\ listerr' \subseteq listerr \cup {"del"}
  BY <1>1, DispatchQueue
<1>5. /\ state' = IF curr' # curr /\ state[curr] = "kill"
                    THEN [state EXCEPT ![curr] = "free"] ELSE state
      /\ queued' = IF Leaves(FALSE) THEN [queued EXCEPT ![curr] = FALSE] ELSE queued
  BY DEF sched_dispatch, Deactivates, task_unlink, Leaves
<1>6. /\ queued \in [AllTasks -> BOOLEAN] /\ state \in [AllTasks -> States]
      /\ curr \in AllTasks
  BY <1>1 DEF BaseInv, TypeOK
<1>7. RunQueueExact'
  <2>1. ToSet(list') = {t \in AllTasks : queued'[t]}
    BY <1>1, <1>3, <1>5, <1>6 DEF RunQueueExact
  <2>. QED BY <1>3, <1>4, <2>1 DEF RunQueueExact
<1>8. RunnableIsQueued'
  <2>1. ASSUME NEW t \in Tasks
        PROVE  t \in ToSet(list') <=> \/ state'[t] = "running"
                                      \/ t = curr' /\ state'[t] \in {"blocked", "kill"}
    <3>1. t \in ToSet(list) <=> \/ state[t] = "running"
                                \/ t = curr /\ state[t] \in {"blocked", "kill"}
      BY <1>1 DEF RunnableIsQueued, OnList
    <3>2. t \in AllTasks /\ state[t] \in States
      BY <1>6 DEF AllTasks
    <3>3. t = curr' => t \in ToSet(list')
      BY <1>3, IdleAssumption
    <3>4. CASE t = curr /\ state[t] # "running"
      <4>1. t \notin ToSet(list')
        BY <3>4, <1>3, <1>4
      <4>2. curr' # curr
        BY <3>3, <3>4, <4>1
      <4>. QED BY <3>2, <3>4, <4>1, <4>2, <1>5, <1>6
    <3>5. CASE t = curr /\ state[t] = "running"
      BY <3>1, <3>5, <1>3, <1>4, <1>5
    <3>6. CASE t # curr
      <4>1. t \in ToSet(list') <=> state[t] = "running"
        BY <3>1, <3>6, <1>3
      <4>2. state'[t] = state[t]
        BY <3>6, <1>5, <1>6
      <4>. QED BY <3>3, <4>1, <4>2
    <3>. QED BY <3>4, <3>5, <3>6
  <2>. QED BY <2>1, <1>3 DEF RunnableIsQueued, OnList
<1>9. NoDoubleAdd'
  BY <1>1, <1>4 DEF NoDoubleAdd
<1>. QED BY <1>2, <1>7, <1>8, <1>9 DEF RunInv

LEMMA WakeRun ==
  ASSUME RunInv, BaseInv', NEW t \in Tasks, ~OnList(t), sched_wake_up(t), UNCHANGED curr
  PROVE  RunInv'
<1>1. /\ BaseInv /\ RunQueueExact /\ RunnableIsQueued /\ NoDoubleAdd
      /\ list \in Seq(Tasks) /\ t \in AllTasks
      /\ queued \in [AllTasks -> BOOLEAN] /\ state \in [AllTasks -> States]
  BY DEF RunInv, BaseInv, TypeOK, AllTasks
<1>2. /\ list' = Append(list, t) /\ running' = running + 1 /\ bitmap' = TRUE
      /\ listerr' = listerr
      /\ queued' = [queued EXCEPT ![t] = TRUE]
      /\ state' = [state EXCEPT ![t] = "running"]
  BY DEF sched_wake_up, task_enqueue, DoubleAdd
<1>3. /\ Len(list') = Len(list) + 1 /\ ToSet(list') = ToSet(list) \cup {t}
      /\ list' # <<>> /\ IsInjective(list')
  BY <1>1, <1>2, ListAddPrev DEF RunQueueExact, OnList
<1>4. RunQueueExact'
  <2>1. ToSet(list') = {u \in AllTasks : queued'[u]}
    BY <1>1, <1>2, <1>3 DEF RunQueueExact
  <2>. QED BY <2>1, <1>1, <1>2, <1>3 DEF RunQueueExact
<1>5. RunnableIsQueued'
  <2>1. ASSUME NEW u \in Tasks
        PROVE  u \in ToSet(list') <=> \/ state'[u] = "running"
                                      \/ u = curr' /\ state'[u] \in {"blocked", "kill"}
    <3>1. CASE u = t
      BY <3>1, <1>1, <1>2, <1>3
    <3>2. CASE u # t
      BY <3>2, <1>1, <1>2, <1>3 DEF RunnableIsQueued, OnList, AllTasks
    <3>. QED BY <3>1, <3>2
  <2>. QED BY <2>1, <1>1, <1>3 DEF RunnableIsQueued, OnList
<1>. QED BY <1>1, <1>2, <1>4, <1>5 DEF RunInv, NoDoubleAdd

LEMMA RunInit == Init => RunInv
<1>. SUFFICES ASSUME Init PROVE RunInv
  OBVIOUS
<1>1. BaseInv
  BY BaseInit
<1>2. ToSet(list) = {} /\ IsInjective(list) /\ Len(list) = 0 /\ list = <<>>
  BY DEF Init, ToSet, IsInjective
<1>3. RunQueueExact
  BY <1>2 DEF Init, RunQueueExact
<1>4. RunnableIsQueued
  BY <1>2, IdleAssumption DEF Init, RunnableIsQueued, OnList, AllTasks
<1>. QED BY <1>1, <1>3, <1>4 DEF RunInv, Init, NoDoubleAdd

LEMMA RunStep ==
  ASSUME ~Preempt, ~EarlyIrq
  PROVE  RunInv /\ [Next]_vars => RunInv'
<1>. SUFFICES ASSUME RunInv, [Next]_vars PROVE RunInv'
  OBVIOUS
<1>1. /\ BaseInv /\ RunQueueExact /\ RunnableIsQueued /\ NoDoubleAdd /\ TypeOK
      /\ queued \in [AllTasks -> BOOLEAN] /\ state \in [AllTasks -> States]
      /\ curr \in AllTasks /\ curr # Idle => OnList(curr)
  BY DEF RunInv, BaseInv, TypeOK
<1>2. BaseInv'
  BY <1>1, BaseStep
<1>3. CASE \/ Resched \/ IdleResched \/ ReschedAgain
  <2>1. sched_dispatch(FALSE, "loop")
    BY <1>3 DEF Resched, IdleResched, ReschedAgain
  <2>. QED BY <2>1, DispatchRun DEF Places
<1>4. CASE PreemptIrq
  BY <1>4 DEF PreemptIrq
<1>5. CASE ReschedDone \/ EnterIdle
  BY <1>1, <1>2, <1>5
  DEF ReschedDone, EnterIdle, RunInv, RunQueueExact, RunnableIsQueued, NoDoubleAdd,
      OnList, queueVars, taskVars
<1>6. CASE Tick \/ Yield
  <2>1. UNCHANGED <<curr, running, bitmap, state, queued, listerr>>
    BY <1>6 DEF Tick, TurnGoesOn, TurnEnds, Yield
  <2>2. list' = list \/ (curr # Idle /\ list' = ToTail(list, curr))
    BY <1>6 DEF Tick, TurnGoesOn, TurnEnds, Yield
  <2>3. /\ IsInjective(list') /\ ToSet(list') = ToSet(list) /\ Len(list') = Len(list)
        /\ list' \in Seq(Tasks)
    BY <2>2, <1>1, ToTailList DEF OnList, BaseInv, TypeOK
  <2>4. list' = <<>> <=> list = <<>>
    BY <2>3, <1>1, ListElems DEF TypeOK
  <2>. QED BY <2>1, <2>3, <2>4, <1>1, <1>2
    DEF RunInv, RunQueueExact, RunnableIsQueued, NoDoubleAdd, OnList
<1>7. CASE Block \/ Exit
  <2>1. /\ UNCHANGED <<curr, list, running, bitmap, queued, listerr>>
        /\ \E s \in {"blocked", "kill"} : state' = [state EXCEPT ![curr] = s]
        /\ curr # Idle
    BY <1>7, ModeAssumption, IdleAssumption DEF Block, Announce, Exit, queueVars
  <2>2. RunnableIsQueued'
    BY <2>1, <1>1 DEF RunnableIsQueued, OnList, AllTasks
  <2>. QED BY <2>1, <2>2, <1>1, <1>2 DEF RunInv, RunQueueExact, NoDoubleAdd
<1>8. ASSUME NEW t \in Tasks, Clone(t) \/ WakeByTask(t) \/ WakeByIrq(t)
      PROVE  RunInv'
  <2>1. sched_wake_up(t) /\ UNCHANGED curr
    BY <1>8 DEF Clone, WakeByTask, WakeByIrq, WakeEffect
  <2>2. ~OnList(t)
    <3>1. t \in AllTasks /\ t # Idle
      BY IdleAssumption DEF AllTasks
    <3>2. CASE Clone(t)
      BY <3>2, <1>1 DEF Clone, BaseInv, OnList
    <3>3. CASE WakeByTask(t)
      BY <3>3, <1>1 DEF WakeByTask, RunnableIsQueued
    <3>4. CASE WakeByIrq(t)
      BY <3>4, <1>1 DEF WakeByIrq, RunQueueExact, OnList
    <3>. QED BY <1>8, <3>2, <3>3, <3>4
  <2>. QED BY <2>1, <2>2, <1>2, WakeRun
<1>9. CASE UNCHANGED vars
  BY <1>1, <1>2, <1>9
  DEF vars, RunInv, RunQueueExact, RunnableIsQueued, NoDoubleAdd, OnList
<1>. QED BY <1>3, <1>4, <1>5, <1>6, <1>7, <1>8, <1>9 DEF Next, SchedStep

\* Without preemption and early wakeups, list, counter, bit and queued flags
\* always agree.
THEOREM QueueAlwaysExact ==
  ASSUME ~Preempt, ~EarlyIrq PROVE Spec => []RunQueueExact
<1>1. RunInv => RunQueueExact
  BY DEF RunInv
<1>2. RunInv /\ [Next]_vars => RunInv'
  BY RunStep
<1>. QED BY <1>1, <1>2, RunInit, PTL DEF Spec

\* ... no wakeup is lost: runnable and queued are the same ...
THEOREM RunnableAlwaysQueued ==
  ASSUME ~Preempt, ~EarlyIrq PROVE Spec => []RunnableIsQueued
<1>1. RunInv => RunnableIsQueued
  BY DEF RunInv
<1>2. RunInv /\ [Next]_vars => RunInv'
  BY RunStep
<1>. QED BY <1>1, <1>2, RunInit, PTL DEF Spec

\* ... and no wakeup links an entry that is linked already.
THEOREM NeverAddsTwice ==
  ASSUME ~Preempt, ~EarlyIrq PROVE Spec => []NoDoubleAdd
<1>1. RunInv => NoDoubleAdd
  BY DEF RunInv
<1>2. RunInv /\ [Next]_vars => RunInv'
  BY RunStep
<1>. QED BY <1>1, <1>2, RunInit, PTL DEF Spec

\* A task that is asleep is not switched to before somebody wakes it.
THEOREM SleepersAreLeftAlone ==
  ASSUME ~Preempt, ~EarlyIrq PROVE Spec => SleepersStay
<1>. DEFINE Stay == \A t \in Tasks : state[t] = "blocked" /\ t # curr => curr' # t
<1>1. ASSUME RunInv, [Next]_vars PROVE [Stay]_vars
  <2>1. CASE UNCHANGED curr
    BY <2>1
  <2>2. CASE \/ Resched \/ IdleResched \/ ReschedAgain
    <3>1. sched_dispatch(FALSE, "loop")
      BY <2>2 DEF Resched, IdleResched, ReschedAgain
    <3>2. /\ curr' # Idle => curr' \in ToSet(list')
          /\ ToSet(list') \subseteq ToSet(list)
      BY <1>1, <3>1, DispatchList DEF RunInv, Places
    <3>3. \A t \in Tasks : t \in ToSet(list) /\ t # curr => state[t] = "running"
      BY <1>1 DEF RunInv, RunnableIsQueued, OnList
    <3>. QED BY <3>2, <3>3, IdleAssumption
  <2>3. UNCHANGED curr \/ Resched \/ IdleResched \/ ReschedAgain
    BY <1>1 DEF Next, SchedStep, ReschedDone, PreemptIrq, Tick, Yield, EnterIdle, Block,
      Exit, Clone, WakeByTask, WakeByIrq, WakeEffect, vars
  <2>. QED BY <2>1, <2>2, <2>3
<1>2. RunInv /\ [Next]_vars => RunInv'
  BY RunStep
<1>3. Spec => [][Stay]_vars
  BY <1>1, <1>2, RunInit, PTL DEF Spec
<1>. QED BY <1>3 DEF SleepersStay

-----------------------------------------------------------------------------
(* For the modules whose tasks sleep on lists of their own *)

\* A task that announces its sleep by itself.
LEMMA AnnounceRun ==
  ASSUME RunInv, NEW t \in Tasks, t = curr, Announce(t),
         UNCHANGED <<curr, queueVars, queued, resched, slice, listerr>>
  PROVE  RunInv'
<1>1. /\ BaseInv /\ RunQueueExact /\ RunnableIsQueued /\ NoDoubleAdd /\ TypeOK
      /\ t \in AllTasks /\ t # Idle
  BY IdleAssumption DEF RunInv, BaseInv, AllTasks
<1>2. /\ UNCHANGED <<curr, list, running, bitmap, queued, resched, slice, listerr>>
      /\ state' = [state EXCEPT ![t] = "blocked"] /\ pc' = [pc EXCEPT ![t] = "sleep"]
  BY DEF Announce, queueVars
<1>3. TypeOK' /\ \A u \in AllTasks : state'[u] = IF u = t THEN "blocked" ELSE state[u]
  BY <1>1, <1>2 DEF TypeOK, States, Places
<1>4. ToSet(list) \subseteq AllTasks /\ Idle \in AllTasks
  BY <1>1, ListElems DEF TypeOK, AllTasks
<1>5. BaseInv'
  BY <1>1, <1>2, <1>3, <1>4 DEF BaseInv, OnList
<1>6. RunnableIsQueued'
  BY <1>1, <1>2, <1>3 DEF RunnableIsQueued, OnList, AllTasks
<1>. QED BY <1>1, <1>2, <1>5, <1>6 DEF RunInv, RunQueueExact, NoDoubleAdd

\* A wakeup that finds the task off the list.
LEMMA WakeEffectRun ==
  ASSUME RunInv, NEW t \in Tasks, ~OnList(t), WakeEffect(t)
  PROVE  RunInv'
<1>1. BaseInv /\ TypeOK
  BY DEF RunInv, BaseInv
<1>2. /\ sched_wake_up(t) /\ UNCHANGED curr
      /\ resched' \in [AllTasks -> BOOLEAN] /\ slice' \in [AllTasks -> 0 .. Slice]
      /\ pc' \in [AllTasks -> Places]
  BY <1>1 DEF WakeEffect, FlagCurr, TypeOK
<1>3. BaseInv'
  BY <1>1, <1>2, WakeBase
<1>. QED BY <1>2, <1>3, WakeRun

\* A task that sleeps, or is on its way from its announcement to the dispatch.
Asleep(t) == state[t] = "blocked" /\ (t = curr => pc[t] \in {"sleep", "yield"})

\* Nothing of the scheduler's own wakes it, and none of it puts a task to sleep.
LEMMA SleepersSleepOn ==
  ASSUME ~Preempt, RunInv,
         \/ Resched \/ IdleResched \/ ReschedAgain \/ ReschedDone \/ PreemptIrq
         \/ Tick \/ EnterIdle \/ Yield \/ \E u \in Tasks : Clone(u)
  PROVE  \A t \in Tasks :
           /\ Asleep(t) => Asleep(t)'
           /\ state'[t] = "blocked" => state[t] = "blocked"
           /\ state[t] = "running" => state'[t] = "running"
<1>1. /\ BaseInv /\ RunnableIsQueued /\ TypeOK
      /\ state \in [AllTasks -> States] /\ pc \in [AllTasks -> Places]
      /\ curr \in AllTasks /\ Tasks \subseteq AllTasks
  BY DEF RunInv, BaseInv, TypeOK, AllTasks
<1>. SUFFICES ASSUME NEW t \in Tasks
              PROVE  /\ Asleep(t) => Asleep(t)'
                     /\ state'[t] = "blocked" => state[t] = "blocked"
                     /\ state[t] = "running" => state'[t] = "running"
  OBVIOUS
<1>2. CASE Resched \/ IdleResched \/ ReschedAgain
  <2>1. sched_dispatch(FALSE, "loop") /\ "loop" \in Places
    BY <1>2 DEF Resched, IdleResched, ReschedAgain, Places
  <2>2. /\ ToSet(list') = IF Leaves(FALSE) THEN ToSet(list) \ {curr} ELSE ToSet(list)
        /\ curr' # Idle => curr' \in ToSet(list')
    BY <1>1, <2>1, DispatchList
  <2>3. state' = IF curr' # curr /\ state[curr] = "kill"
                   THEN [state EXCEPT ![curr] = "free"] ELSE state
    BY <2>1 DEF sched_dispatch
  <2>4. state[t] = "blocked" => t # curr'
    <3>1. state[t] = "blocked" => t \notin ToSet(list')
      BY <2>2, <1>1 DEF Leaves, RunnableIsQueued, OnList
    <3>. QED BY <3>1, <2>2, IdleAssumption
  <2>. QED BY <2>3, <2>4, <1>1 DEF Asleep
<1>3. CASE ReschedDone \/ EnterIdle \/ Tick \/ Yield
  BY <1>3, <1>1, IdleAssumption DEF ReschedDone, EnterIdle, Tick, Yield, Asleep, taskVars
<1>4. ASSUME NEW u \in Tasks, Clone(u)
      PROVE  /\ Asleep(t) => Asleep(t)'
             /\ state'[t] = "blocked" => state[t] = "blocked"
             /\ state[t] = "running" => state'[t] = "running"
  BY <1>4, <1>1 DEF Clone, sched_wake_up, Asleep
<1>5. CASE PreemptIrq
  BY <1>5 DEF PreemptIrq
<1>. QED BY <1>2, <1>3, <1>4, <1>5

-----------------------------------------------------------------------------
(* Who runs, and the flag that says it should give way: in every mode *)

FlagInv ==
  /\ BaseInv
  /\ bitmap = (list # <<>>)
  /\ HeadRuns
  /\ NoStaleFlag
  /\ RR => IdleSeesWork

\* Deleting an entry that is not the first leaves the first one in place.
LEMMA ListDelNotFirst ==
  ASSUME NEW S, NEW s \in Seq(S), IsInjective(s), NEW t \in ToSet(s), t # Head(s)
  PROVE  RemoveFirst(s, t) # <<>> /\ Head(RemoveFirst(s, t)) = Head(s)
<1>1. PICK k \in 1 .. Len(s) : s[k] = t /\ RemoveFirst(s, t) = RemoveAt(s, k)
  BY RemoveFirstIsRemoveAt
<1>. DEFINE d == RemoveAt(s, k)
<1>2. s # <<>> /\ Head(s) = s[1]
  BY <1>1
<1>3. k > 1 /\ Len(s) > 1
  BY <1>1, <1>2
<1>4. /\ d \in Seq(S) /\ Len(d) = Len(s) - 1
      /\ \A i \in 1 .. (Len(s) - 1) : d[i] = IF i < k THEN s[i] ELSE s[i + 1]
  BY RemoveAtExplicit
<1>. HIDE DEF d
<1>5. d # <<>> /\ Head(d) = d[1] /\ d[1] = s[1]
  BY <1>3, <1>4
<1>. QED BY <1>1, <1>2, <1>4, <1>5 DEF d

\* sched_dispatch picks the first entry that remains, or the idle task.
LEMMA DispatchHead ==
  ASSUME BaseInv, bitmap = (list # <<>>), NEW preempt \in BOOLEAN, NEW at \in Places,
         sched_dispatch(preempt, at)
  PROVE  /\ curr' = IF list' # <<>> THEN Head(list') ELSE Idle
         /\ bitmap' = (list' # <<>>)
<1>. DEFINE deact == state[curr] # "running" /\ ~preempt
            q     == IF deact THEN RemoveFirst(list, curr) ELSE list
            b     == IF deact /\ q = <<>> THEN FALSE ELSE bitmap
            next  == task_pick_next(b, q)
            dead  == next # curr /\ state[curr] = "kill"
<1>1. /\ curr' = next /\ bitmap' = b
      /\ list' = IF dead THEN RemoveFirst(q, curr) ELSE q
  BY DEF sched_dispatch, Deactivates, task_unlink, ClearedFlag
<1>2. /\ list \in Seq(Tasks) /\ IsInjective(list)
      /\ state[curr] # "running" => curr \in ToSet(list)
  BY DEF BaseInv, TypeOK, OnList
<1>3. deact => /\ q \in Seq(Tasks) /\ Len(q) = Len(list) - 1
               /\ ToSet(q) = ToSet(list) \ {curr}
  BY <1>2, ListDel
<1>4. b = (q # <<>>)
  <2>1. deact /\ q # <<>> => list # <<>>
    BY <1>2, <1>3, ListElems
  <2>. QED BY <2>1
<1>5. next = IF q # <<>> THEN Head(q) ELSE Idle
  BY <1>4 DEF task_pick_next
<1>6. CASE dead /\ deact
  <2>1. RemoveFirst(q, curr) = q
    BY <1>3, <1>6, ListDelAbsent
  <2>2. list' = q
    BY <2>1, <1>1
  <2>. HIDE DEF q, b, next, dead
  <2>. QED BY <2>2, <1>1, <1>4, <1>5
<1>7. CASE dead /\ ~deact
  <2>1. q = list /\ curr \in ToSet(list) /\ list # <<>>
    BY <1>2, <1>7, ListElems
  <2>2. curr # Head(list)
    BY <2>1, <1>5, <1>7
  <2>3. RemoveFirst(list, curr) # <<>> /\ Head(RemoveFirst(list, curr)) = Head(list)
    BY <2>1, <2>2, <1>2, ListDelNotFirst
  <2>. QED BY <2>1, <2>3, <1>1, <1>4, <1>5, <1>7
<1>8. CASE ~dead
  BY <1>1, <1>4, <1>5, <1>8
<1>. QED BY <1>6, <1>7, <1>8

LEMMA DispatchFlag ==
  ASSUME FlagInv, NEW preempt \in BOOLEAN, NEW at \in Places, sched_dispatch(preempt, at)
  PROVE  FlagInv'
<1>1. BaseInv /\ bitmap = (list # <<>>) /\ NoStaleFlag
  BY DEF FlagInv
<1>2. BaseInv'
  BY <1>1, DispatchBase
<1>3. /\ curr' = IF list' # <<>> THEN Head(list') ELSE Idle
      /\ bitmap' = (list' # <<>>)
  BY <1>1, DispatchHead
<1>4. list' \in Seq(Tasks) /\ (list' # <<>> => Head(list') \in Tasks)
  BY <1>2, ListFirst DEF BaseInv, TypeOK
<1>5. HeadRuns'
  BY <1>3 DEF HeadRuns
<1>6. IdleSeesWork'
  BY <1>3, <1>4, IdleAssumption DEF IdleSeesWork
<1>7. NoStaleFlag'
  <2>1. /\ resched' = [resched EXCEPT ![curr] = FALSE]
        /\ \E p \in Places : pc' = [pc EXCEPT ![curr] = p]
    <3>1. /\ resched' = [resched EXCEPT ![curr] = FALSE]
          /\ pc' = [pc EXCEPT ![curr] = "none"] \/ pc' = [pc EXCEPT ![curr] = at]
      BY DEF sched_dispatch, Deactivates, task_unlink, ClearedFlag
    <3>. QED BY <3>1 DEF Places
  <2>2. /\ resched \in [AllTasks -> BOOLEAN] /\ pc \in [AllTasks -> Places]
    BY <1>1 DEF BaseInv, TypeOK
  <2>. QED BY <2>1, <2>2, <1>1 DEF NoStaleFlag
<1>. QED BY <1>2, <1>3, <1>5, <1>6, <1>7 DEF FlagInv

\* A wakeup flags the current task under rr and leaves the first entry first.
LEMMA WakeFlag ==
  ASSUME FlagInv, BaseInv', NEW t \in Tasks, sched_wake_up(t), UNCHANGED curr,
         pc' \in {pc, [pc EXCEPT ![t] = "run"]},
         pc' = pc \/ t # curr,
         \/ resched' = FlagCurr(resched)
         \/ /\ pc' = [pc EXCEPT ![t] = "run"]
            /\ resched' = FlagCurr([resched EXCEPT ![t] = resched[curr]])
  PROVE  FlagInv'
<1>1. /\ BaseInv /\ bitmap = (list # <<>>) /\ HeadRuns /\ NoStaleFlag
      /\ list \in Seq(Tasks) /\ curr \in AllTasks /\ t \in AllTasks
      /\ resched \in [AllTasks -> BOOLEAN] /\ pc \in [AllTasks -> Places]
      /\ curr # Idle => list # <<>>
  BY ListElems DEF FlagInv, BaseInv, TypeOK, AllTasks, OnList
<1>2. /\ list' = IF OnList(t) THEN list ELSE Append(list, t)
      /\ bitmap' = TRUE
  BY DEF sched_wake_up, task_enqueue, DoubleAdd
<1>3. list' # <<>> /\ (list # <<>> => Head(list') = Head(list))
  BY <1>1, <1>2, ListElems DEF OnList
<1>4. /\ resched'[curr] = (RR \/ resched[curr])
      /\ \A u \in AllTasks : u # curr /\ resched'[u] =>
           resched[u] \/ (u = t /\ pc'[u] = "run")
      /\ pc'[curr] = pc[curr]
      /\ \A u \in AllTasks : pc[u] = "run" => pc'[u] = "run"
  <2>1. RR \in BOOLEAN
    BY ModeAssumption
  <2>2. CASE resched' = FlagCurr(resched)
    BY <2>1, <2>2, <1>1 DEF FlagCurr
  <2>3. CASE /\ pc' = [pc EXCEPT ![t] = "run"]
             /\ resched' = FlagCurr([resched EXCEPT ![t] = resched[curr]])
    BY <2>1, <2>3, <1>1 DEF FlagCurr
  <2>. QED BY <2>2, <2>3
<1>5. HeadRuns'
  BY <1>1, <1>3, <1>4 DEF HeadRuns
<1>6. RR => IdleSeesWork'
  BY <1>4 DEF IdleSeesWork
<1>7. NoStaleFlag'
  BY <1>1, <1>4 DEF NoStaleFlag
<1>. QED BY <1>2, <1>3, <1>5, <1>6, <1>7 DEF FlagInv

LEMMA FlagInit == Init => FlagInv
<1>. SUFFICES ASSUME Init PROVE FlagInv
  OBVIOUS
<1>1. BaseInv
  BY BaseInit
<1>2. \A t \in AllTasks : ~resched[t]
  BY DEF Init
<1>. QED BY <1>1, <1>2 DEF Init, FlagInv, HeadRuns, NoStaleFlag, IdleSeesWork

LEMMA FlagStep == FlagInv /\ [Next]_vars => FlagInv'
<1>. SUFFICES ASSUME FlagInv, [Next]_vars PROVE FlagInv'
  OBVIOUS
<1>1. /\ BaseInv /\ bitmap = (list # <<>>) /\ HeadRuns /\ NoStaleFlag
      /\ RR => IdleSeesWork
      /\ list \in Seq(Tasks) /\ curr \in AllTasks
      /\ resched \in [AllTasks -> BOOLEAN] /\ pc \in [AllTasks -> Places]
      /\ state[Idle] = "running"
      /\ curr # Idle => curr \in ToSet(list)
  BY DEF FlagInv, BaseInv, TypeOK, OnList
<1>2. BaseInv'
  BY <1>1, BaseStep
<1>3. CASE \/ Resched \/ IdleResched \/ ReschedAgain
  <2>1. sched_dispatch(FALSE, "loop")
    BY <1>3 DEF Resched, IdleResched, ReschedAgain
  <2>. QED BY <2>1, DispatchFlag DEF Places
<1>4. CASE PreemptIrq
  <2>1. sched_dispatch(TRUE, pc[curr]) /\ pc[curr] \in Places
    BY <1>1, <1>4 DEF PreemptIrq
  <2>. QED BY <2>1, DispatchFlag
<1>5. CASE ReschedDone \/ EnterIdle \/ Block \/ Exit
  <2>1. /\ UNCHANGED <<curr, list, bitmap, resched>>
        /\ \E p \in Places : pc' = [pc EXCEPT ![curr] = p]
        /\ pc[curr] # "yield"
    BY <1>5 DEF ReschedDone, EnterIdle, Block, Announce, Exit, queueVars, taskVars, Places
  <2>2. HeadRuns'
    BY <2>1, <1>1 DEF HeadRuns
  <2>3. NoStaleFlag'
    BY <2>1, <1>1 DEF NoStaleFlag
  <2>4. RR => IdleSeesWork'
    BY <2>1, <1>1 DEF IdleSeesWork
  <2>. QED BY <2>1, <2>2, <2>3, <2>4, <1>1, <1>2 DEF FlagInv
<1>6. CASE Yield
  <2>1. /\ UNCHANGED <<curr, bitmap, resched>> /\ curr # Idle
        /\ pc' = [pc EXCEPT ![curr] = "yield"]
        /\ list' = ToTail(list, curr)
    BY <1>6 DEF Yield
  <2>2. list' # <<>> /\ list # <<>>
    BY <2>1, <1>1, ToTailList, ListElems
  <2>. QED BY <2>1, <2>2, <1>1, <1>2 DEF FlagInv, HeadRuns, NoStaleFlag, IdleSeesWork
<1>7. CASE Tick
  <2>1. UNCHANGED <<curr, bitmap, pc>>
    BY <1>7 DEF Tick, TurnGoesOn, TurnEnds
  <2>2. CASE UNCHANGED <<list, resched>>
    BY <2>1, <2>2, <1>1, <1>2 DEF FlagInv, HeadRuns, NoStaleFlag, IdleSeesWork
  <2>3. CASE /\ curr # Idle /\ list' \in {list, ToTail(list, curr)}
             /\ resched' = [resched EXCEPT ![curr] = TRUE]
    <3>1. list' # <<>> /\ list # <<>>
      BY <2>3, <1>1, ToTailList, ListElems
    <3>. QED BY <3>1, <2>1, <2>3, <1>1, <1>2
      DEF FlagInv, HeadRuns, NoStaleFlag, IdleSeesWork
  <2>. QED BY <2>2, <2>3, <1>7 DEF Tick, TurnGoesOn, TurnEnds
<1>8. ASSUME NEW t \in Tasks, Clone(t) \/ WakeByTask(t) \/ WakeByIrq(t)
      PROVE  FlagInv'
  <2>1. CASE Clone(t)
    <3>1. state[curr] # "free"
      BY <1>1 DEF BaseInv
    <3>. QED BY <3>1, <2>1, <1>2, WakeFlag DEF Clone
  <2>2. CASE WakeByTask(t) \/ WakeByIrq(t)
    BY <2>2, <1>2, WakeFlag DEF WakeByTask, WakeByIrq, WakeEffect
  <2>. QED BY <1>8, <2>1, <2>2
<1>9. CASE UNCHANGED vars
  BY <1>1, <1>2, <1>9 DEF vars, FlagInv, HeadRuns, NoStaleFlag, IdleSeesWork
<1>. QED BY <1>3, <1>4, <1>5, <1>6, <1>7, <1>8, <1>9 DEF Next, SchedStep

\* In every mode the task that runs is the first of the list, or knows that
\* it has to give way.
THEOREM FirstRuns == Spec => []HeadRuns
<1>1. FlagInv => HeadRuns
  BY DEF FlagInv
<1>. QED BY <1>1, FlagInit, FlagStep, PTL DEF Spec

\* In every mode a task that is switched in does not give way at once because
\* of a flag from an earlier turn.
THEOREM FlagIsFresh == Spec => []NoStaleFlag
<1>1. FlagInv => NoStaleFlag
  BY DEF FlagInv
<1>. QED BY <1>1, FlagInit, FlagStep, PTL DEF Spec

\* Under rr the idle task is always told of work, whoever queued it.
THEOREM IdleIsTold == ASSUME RR PROVE Spec => []IdleSeesWork
<1>1. FlagInv => IdleSeesWork
  BY DEF FlagInv
<1>. QED BY <1>1, FlagInit, FlagStep, PTL DEF Spec

=============================================================================
