-------------------------------- MODULE Sched --------------------------------
(***************************************************************************)
(* The task scheduler of one CPU: kernel/sched/core.c over the class that  *)
(* default_sched points to, rr.c or fifo.c, with the idle class of idle.c  *)
(* below it.                                                               *)
(*                                                                         *)
(* Only one class is ever populated (default_sched is set once at boot),   *)
(* and every task has priority 0 (init_task's, copied by task_alloc), so   *)
(* the class queue is one list, one bit of the bitmap and one counter.     *)
(*                                                                         *)
(* A step is a stretch of code that no interrupt can split: sched_dispatch *)
(* runs with interrupts off, an interrupt handler runs to its end.  pc     *)
(* says where a task stands between two such stretches.                    *)
(***************************************************************************)
EXTENDS Naturals, FiniteSets, SequencesExt

CONSTANTS
  Tasks,     \* the tasks that task_clone may create (slots of the class's kcache)
  Idle,      \* init_task, which becomes the idle task
  RR,        \* TRUE: CONFIG_SCHED_DEF_RR, FALSE: CONFIG_SCHED_DEF_FIFO
  Slice,     \* RR_TIMESLICE, in ticks
  Preempt,   \* TRUE: the sched_preempt static call is sched_preempt_handle
  EarlyIrq,  \* TRUE: an interrupt may wake a task that has announced its
             \*       sleep but has not been switched out yet
  Sleepers,  \* the tasks that go to sleep
  Mortal,    \* the tasks whose entry function returns
  MaxRunning \* bound on rr_queue->running[0], which a preempted exit leaks

ASSUME IdleAssumption  == Idle \notin Tasks
ASSUME BoundAssumption == Slice \in Nat /\ MaxRunning \in Nat
ASSUME ModeAssumption  == /\ {RR, Preempt, EarlyIrq} \subseteq BOOLEAN
                          /\ Sleepers \subseteq Tasks /\ Mortal \subseteq Tasks

VARIABLES
  curr,      \* queue->curr
  list,      \* rr_queue->task[0], first entry first
  running,   \* rr_queue->running[0]
  bitmap,    \* bit 0 of rr_queue->bitmap
  state,     \* task->state; "free" while the slot holds no task
  queued,    \* task->queued has SCHED_TASK_QUEUED
  resched,   \* task->flags has SCHED_TASK_NRESCHED
  slice,     \* rr_task->timeslice
  pc,        \* where the task stands in kernel code
  listerr    \* misuses of struct list_head that list-debug.c looks for

queueVars == <<list, running, bitmap>>
taskVars  == <<state, queued, resched, slice>>
vars      == <<curr, list, running, bitmap, state, queued, resched, slice, pc, listerr>>

AllTasks == Tasks \cup {Idle}
States   == {"free", "running", "blocked", "kill"}

\* "boot"   kernel_main, before idle_task_entry       (Idle only)
\* "run"    ordinary code of the task, or idle_loop
\* "sleep"  current_set_state has announced a sleep
\* "yield"  task_yield done, sched_resched to follow
\* "exit"   sched_kill has set SCHED_TASK_KILL
\* "loop"   behind sched_dispatch, at its caller's while (current_test_resched())
Places == {"none", "boot", "run", "sleep", "yield", "exit", "loop"}

TypeOK ==
  /\ curr    \in AllTasks
  /\ list    \in Seq(Tasks)
  /\ running \in Nat
  /\ bitmap  \in BOOLEAN
  /\ state   \in [AllTasks -> States]
  /\ queued  \in [AllTasks -> BOOLEAN]
  /\ resched \in [AllTasks -> BOOLEAN]
  /\ slice   \in [AllTasks -> 0 .. Slice]
  /\ pc      \in [AllTasks -> Places]
  /\ listerr \subseteq {"add", "broken", "del"}

OnList(t) == t \in ToSet(list)

-----------------------------------------------------------------------------
(* The class: rr.c and fifo.c *)

\* list_move_prev: the entry goes to the tail.
ToTail(q, t) == Append(RemoveFirst(q, t), t)

\* rr_task_pick, and idle_task_pick when the class has nothing.  (A set bit
\* over an empty list would make list_first_entry return the head itself;
\* RunQueueExact is the invariant that says this cannot happen.)
task_pick_next(b, q) == IF b /\ q # <<>> THEN Head(q) ELSE Idle

\* list_add_prev of an entry that is linked already.  list_debug_add_check
\* refuses it when the entry is the neighbour, the tail; anywhere else the
\* links are overwritten and what they form is no list any more ("broken"):
\* the model stops there.
DoubleAdd(t) ==
  IF ~OnList(t) THEN {} ELSE IF Last(list) = t THEN {"add"} ELSE {"broken"}

\* Mutant: the counter is started with the first entry and never increased.
task_enqueue_uncounted(t) ==
  /\ list'    = IF OnList(t) THEN list ELSE Append(list, t)
  /\ bitmap'  = TRUE
  /\ running' = IF bitmap THEN running ELSE 1
  /\ listerr' = listerr \cup DoubleAdd(t)

\* rr_task_enqueue, fifo_task_enqueue: at the tail; only rr flags the current
\* task (FlagCurr below).  The rest runs whatever list_add_prev did.
task_enqueue(t) ==
  /\ list'    = IF OnList(t) THEN list ELSE Append(list, t)
  /\ bitmap'  = TRUE
  /\ running' = running + 1
  /\ listerr' = listerr \cup DoubleAdd(t)

\* rr_task_destroy and fifo_task_destroy unlink the entry.  Mutant: they do not.
task_unlink_nothing(q, t) == q
task_unlink(q, t) == RemoveFirst(q, t)

\* rr_task_tick: the turn is not over while ticks of it remain.  Mutant: it
\* never ends.
TurnGoesOn_always == slice[curr] >= 0
TurnGoesOn == slice[curr] > 0

\* Mutants: the turn ends without the flag; without the entry moving.
TurnEnds_noflag ==
  /\ list'    = IF running > 1 THEN ToTail(list, curr) ELSE list
  /\ slice'   = [slice EXCEPT ![curr] = Slice]
  /\ UNCHANGED resched
TurnEnds_nomove ==
  /\ slice'   = [slice EXCEPT ![curr] = Slice]
  /\ resched' = [resched EXCEPT ![curr] = TRUE]
  /\ UNCHANGED list

\* The rest of rr_task_tick: behind the others, a new slice, and the flag.
TurnEnds ==
  /\ list'    = IF running > 1 THEN ToTail(list, curr) ELSE list
  /\ slice'   = [slice EXCEPT ![curr] = Slice]
  /\ resched' = [resched EXCEPT ![curr] = TRUE]

\* queue_set_resched, in rr's enqueue only.  Mutant: in neither class.
FlagCurr_never(f) == f
FlagCurr(f) == IF RR THEN [f EXCEPT ![curr] = TRUE] ELSE f

\* task_activate and task_set_state on the woken (or new) task.  Mutant: the
\* state is left as it was.
sched_wake_up_stateless(t) ==
  /\ task_enqueue(t)
  /\ queued' = [queued EXCEPT ![t] = TRUE]
  /\ UNCHANGED state
sched_wake_up(t) ==
  /\ task_enqueue(t)
  /\ queued' = [queued EXCEPT ![t] = TRUE]
  /\ state'  = [state EXCEPT ![t] = "running"]

-----------------------------------------------------------------------------
(* kernel/sched/core.c *)

\* sched_dispatch deactivates a task that is not runnable, unless an interrupt
\* took the CPU from it.  Mutant: only one that exits.
Deactivates_killed(preempt) == state[curr] = "kill" /\ ~preempt
Deactivates(preempt) == state[curr] # "running" /\ ~preempt

\* task_clr_resched(curr).  Mutant: on the task that comes next, as if it were
\* called behind the switch.
ClearedFlag_next == [resched EXCEPT ![curr'] = FALSE]
ClearedFlag == [resched EXCEPT ![curr] = FALSE]

\* sched_dispatch(preempt) up to the switch, and context_switch_finish by the
\* next task.  at is the place where the task that leaves will resume.
sched_dispatch(preempt, at) ==
  LET c     == curr
      deact == Deactivates(preempt)
      q     == IF deact THEN RemoveFirst(list, c) ELSE list
      b     == IF deact /\ q = <<>> THEN FALSE ELSE bitmap
      next  == task_pick_next(b, q)
      dead  == next # c /\ state[c] = "kill"
      gone  == \A i \in DOMAIN q : q[i] # c
  IN /\ curr'    = next
     /\ running' = IF deact THEN running - 1 ELSE running
     /\ bitmap'  = b
     \* sched_task_destroy: rr_task_destroy takes the entry off a list it may
     \* have left already (a double del, which list_debug_del_check refuses)
     /\ list'    = IF dead THEN task_unlink(q, c) ELSE q
     /\ listerr' = IF dead /\ gone THEN listerr \cup {"del"} ELSE listerr
     /\ state'   = IF dead THEN [state EXCEPT ![c] = "free"] ELSE state
     /\ queued'  = IF deact \/ dead THEN [queued EXCEPT ![c] = FALSE] ELSE queued
     /\ resched' = ClearedFlag
     /\ pc'      = [pc EXCEPT ![c] = IF dead THEN "none" ELSE at]
     /\ UNCHANGED slice

\* sched_resched called by the current task: on its way to sleep, after
\* task_yield, or just to let the others run; and sched_kill's dispatch.
Resched ==
  /\ curr # Idle
  /\ pc[curr] \in {"run", "sleep", "yield", "exit"}
  /\ sched_dispatch(FALSE, "loop")

\* idle_loop leaves its while when the flag is set and calls sched_idle.
IdleResched ==
  /\ curr = Idle
  /\ pc[Idle] = "run"
  /\ resched[Idle]
  /\ sched_dispatch(FALSE, "loop")

\* while (current_test_resched()): dispatch again ...
ReschedAgain ==
  /\ pc[curr] = "loop"
  /\ resched[curr]
  /\ sched_dispatch(FALSE, "loop")

\* ... or return to the caller.
ReschedDone ==
  /\ pc[curr] = "loop"
  /\ ~resched[curr]
  /\ pc' = [pc EXCEPT ![curr] = "run"]
  /\ UNCHANGED <<curr, queueVars, taskVars, listerr>>

\* sched_yield, first half: task_yield moves the current task to the tail.
Yield ==
  /\ curr # Idle
  /\ pc[curr] \in {"run", "sleep"}
  /\ list'  = ToTail(list, curr)
  /\ slice' = IF RR THEN [slice EXCEPT ![curr] = Slice] ELSE slice
  /\ pc'    = [pc EXCEPT ![curr] = "yield"]
  /\ UNCHANGED <<curr, running, bitmap, state, queued, resched, listerr>>

\* entry_irqhandle_exit: sched_preempt_handle when the flag of the interrupted
\* task is set.  The task resumes where it was interrupted.
PreemptIrq ==
  /\ Preempt
  /\ resched[curr]
  /\ sched_dispatch(TRUE, pc[curr])

\* systick_periodic -> sched_tick -> rr_task_tick.  fifo and idle have none.
Tick ==
  /\ IF ~RR \/ curr = Idle THEN UNCHANGED <<list, slice, resched>>
     ELSE IF TurnGoesOn
       THEN /\ slice' = [slice EXCEPT ![curr] = @ - 1]
            /\ UNCHANGED <<list, resched>>
       ELSE TurnEnds
  /\ UNCHANGED <<curr, running, bitmap, state, queued, pc, listerr>>

-----------------------------------------------------------------------------
(* Tasks and interrupts that use the scheduler *)

\* The current task runs code that may call into the kernel freely.
InTask == pc[curr] = "boot" \/ (pc[curr] = "run" /\ curr # Idle)

\* task_clone: task_alloc copies the whole task, the resched flag included,
\* then sched_wake_up_new enqueues the child and flags the parent.
Clone(t) ==
  /\ InTask
  /\ state[t] = "free"
  /\ running < MaxRunning
  /\ sched_wake_up(t)
  /\ resched' = FlagCurr([resched EXCEPT ![t] = resched[curr]])
  /\ slice'   = [slice EXCEPT ![t] = Slice]
  /\ pc'      = [pc EXCEPT ![t] = "run"]
  /\ UNCHANGED curr

\* kernel_main is done; init_task becomes the idle task.
EnterIdle ==
  /\ curr = Idle /\ pc[Idle] = "boot"
  /\ pc' = [pc EXCEPT ![Idle] = "run"]
  /\ UNCHANGED <<curr, queueVars, taskVars, listerr>>

\* A task puts itself on some wait list and announces its sleep.
Announce(t) ==
  /\ state' = [state EXCEPT ![t] = "blocked"]
  /\ pc'    = [pc EXCEPT ![t] = "sleep"]

Block ==
  /\ curr \in Sleepers
  /\ pc[curr] = "run"
  /\ Announce(curr)
  /\ UNCHANGED <<curr, queueVars, queued, resched, slice, listerr>>

WakeEffect(t) ==
  /\ sched_wake_up(t)
  /\ resched' = FlagCurr(resched)
  /\ UNCHANGED <<curr, slice, pc>>

\* A task finds t on a wait list and calls sched_wake_up.
WakeByTask(t) ==
  /\ InTask
  /\ t # curr
  /\ state[t] = "blocked"
  /\ WakeEffect(t)

\* An interrupt handler or a timer does.
WakeByIrq(t) ==
  /\ state[t] = "blocked"
  /\ queued[t] => EarlyIrq
  /\ WakeEffect(t)

\* kernel_exit -> sched_kill, up to its sched_dispatch.
Exit ==
  /\ curr \in Mortal
  /\ pc[curr] = "run"
  /\ state' = [state EXCEPT ![curr] = "kill"]
  /\ pc'    = [pc EXCEPT ![curr] = "exit"]
  /\ UNCHANGED <<curr, queueVars, queued, resched, slice, listerr>>

-----------------------------------------------------------------------------
(* Specification *)

\* kernel_start after sched_init: init_task runs, no other task exists.
Init ==
  /\ curr    = Idle
  /\ list    = <<>>
  /\ running = 0
  /\ bitmap  = FALSE
  /\ state   = [t \in AllTasks |-> IF t = Idle THEN "running" ELSE "free"]
  /\ queued  = [t \in AllTasks |-> FALSE]
  /\ resched = [t \in AllTasks |-> FALSE]
  /\ slice   = [t \in AllTasks |-> 0]
  /\ pc      = [t \in AllTasks |-> IF t = Idle THEN "boot" ELSE "none"]
  /\ listerr = {}

\* What the scheduler does by itself, whatever its clients are.
SchedStep ==
  \/ Resched
  \/ IdleResched
  \/ ReschedAgain
  \/ ReschedDone
  \/ PreemptIrq
  \/ Tick

Next ==
  /\ "broken" \notin listerr
  /\ \/ SchedStep
     \/ Yield
     \/ EnterIdle
     \/ Block
     \/ Exit
     \/ \E t \in Tasks : Clone(t) \/ WakeByTask(t) \/ WakeByIrq(t)

Spec == Init /\ [][Next]_vars

\* The tick never stops, an interrupt ends with its exit path, and kernel
\* code between two scheduler calls is finite.
Fairness ==
  /\ WF_vars(Tick) /\ WF_vars(PreemptIrq)
  /\ WF_vars(EnterIdle) /\ WF_vars(IdleResched)
  /\ WF_vars(ReschedAgain) /\ WF_vars(ReschedDone)

FairSpec == Spec /\ Fairness

-----------------------------------------------------------------------------
(* Properties *)

\* The class's three records of who is runnable agree, and agree with the
\* tasks' own queued flags: no task is linked twice, the entries are exactly
\* the tasks marked queued, running[] counts them, and the bit that
\* task_pick looks at is set iff there is one.  rr.c and fifo.c keep these in
\* five functions that are called from task code and from interrupts.
RunQueueExact ==
  /\ IsInjective(list)
  /\ ToSet(list) = {t \in AllTasks : queued[t]}
  /\ running = Len(list)
  /\ bitmap = (list # <<>>)

\* No wakeup is lost and no sleeper is left behind on the queue: a task is
\* linked iff it is runnable, except for the current task between its
\* current_set_state and its dispatch; and who runs is linked.
RunnableIsQueued ==
  /\ \A t \in Tasks :
       OnList(t) <=> \/ state[t] = "running"
                     \/ t = curr /\ state[t] \in {"blocked", "kill"}
  /\ curr # Idle => OnList(curr)

\* The idle task never spins over work: when it runs and a task is runnable,
\* the flag that takes it out of idle_loop (idle.c:74) is set.
IdleSeesWork == curr = Idle /\ list # <<>> => resched[Idle]

\* Whoever should run does, unless it is about to be told so: the current
\* task is the first of the list, or its flag is set, or it is giving way.
HeadRuns ==
  \/ curr = Idle
  \/ list # <<>> /\ Head(list) = curr
  \/ resched[curr]
  \/ pc[curr] = "yield"

\* A task that was switched out never carries the flag: a stale one would
\* make it give way at once when it resumes.  Only a child that has not run
\* yet may have it, copied from its parent by task_alloc (clone.c:35).
NoStaleFlag == \A t \in AllTasks : resched[t] /\ t # curr => pc[t] = "run"

\* A slot whose task was destroyed by context_switch_finish is neither run
\* nor reachable from the queue.
NoUseAfterFree == state[curr] # "free" /\ \A t \in ToSet(list) : state[t] # "free"

\* list-debug.c:25: an entry that is linked is not added again.
NoDoubleAdd == listerr \cap {"add", "broken"} = {}

\* list-debug.c:36: an entry that was deleted is not deleted again.
NoDoubleDel == "del" \notin listerr

\* A task that went to sleep gets the CPU only after somebody woke it: the
\* step that switches to it is never taken while it is still blocked.
SleepersStay ==
  [][\A t \in Tasks : state[t] = "blocked" /\ t # curr => curr' # t]_vars

\* Starvation freedom of rr: every task on the queue gets the CPU, however
\* many others keep theirs until the tick takes it away.
EveryoneRuns == \A t \in Tasks : OnList(t) ~> curr = t \/ ~OnList(t)

=============================================================================
