# Lightcore in TLA+

Lightcore is a small kernel in C.  This directory holds TLA+ models of its core
logic, the TLC configurations that check them on small instances, and TLAPS
proofs for every value of the constants.  `PROJECT.json` maps every definition
to the lines it models and lists runs, mutants, findings, hazards and theorems.

    tlasany M.tla                        parse
    tlc -config MCSchedNone.cfg MCSched  check
    tlapm SchedProofs.tla                prove

## Inventory

| component | state | operations | talks to |
|---|---|---|---|
| scheduler core, `kernel/sched/core.c` | `queue->curr`, `task->state`, `queued`, the `NRESCHED` flag | dispatch, resched, yield, idle, kill, tick, preempt, wake up | the classes, the interrupt exit (`kernel/entry.c`), every sleeper |
| classes `rr.c`, `fifo.c`, `idle.c` | one list per priority, a bitmap, a counter, time slices | enqueue, dequeue, tick, yield, pick, destroy | called by the core only |
| task creation and exit, `kernel/task` | the task itself, pid, stack | clone, exit | `sched_wake_up_new`, `sched_kill` |
| timed sleep, `sched/sleep.c` | a timer on the sleeper's stack | `sched_timeout`, `timeout_wakeup` | timer wheel, core |
| semaphore, `lock/semaphore.c` | count, list of waiters on their stacks | down, down_timeout, trylock, up | timed sleep, core |
| mutex, `lock/mutex.c` | owner word with three flags, waiters | lock, trylock, unlock | core, wake queue (never reached) |
| completion, wait queue, wake queue, `sched/` | counter, nodes, a chain through the tasks | wait, complete, add, action | timed sleep, core |
| timer wheel, `time/timer.c` | levels of buckets, a bitmap, the next expiry | pending, clear, update, expiry | tick (`systicks.c`), softirq, callbacks |
| softirq, `irq/softirq.c` | registered ones, pending bitmap | register, raise, clear, the handling loop | interrupt exit, timer wheel, idr |
| kfifo, `lib/kfifo.c` | in, out, a ring | flat and record in, out, peek | drivers, console |
| page allocator, `mm/page.c` | free lists by order, type and order of a page | alloc, free, add | slab, vmalloc |
| memory pool, `mm/mempool.c` | a stack of reserved objects | alloc, free, resize | block layer, file systems |
| coroutines, `kernel/kcoro.c` | ready and blocked trees, the current one | yield, sleep, exit, schedule | timekeeping |
| klist, idr, `lib/` | list with references; ids in a tree | add, del, iterate; alloc, free | device core, pids, softirq |
| device core, `kernel/device` | devices, drivers, their bindings | register, probe, remove | klist, every driver |
| power events, notifiers, timekeeping, vmem, pids, fs, drivers, arch, boot, shell | | | |

What is hard here, and what must hold:

* **Wakeups.**  A task announces its sleep, gives up a lock, and only then leaves
  the CPU; tasks, interrupts and timers wake it at any time between and after.
  No wakeup may be lost, none may link a task twice, none may reach a task that
  does not exist any more.
* **The run queue.**  Four records say who is runnable (list, bit, counter,
  `queued`); five functions called from tasks and interrupts keep them.
* **Progress.**  The tick, the flag and the loops behind `sched_dispatch` share
  out the CPU; idle must see work.
* **Nodes on stacks.**  Waiters and timers live in stack frames; they must be off
  every list when the frame goes.
* **Timeouts** race with what they wait for (semaphore, completion).
* **Boundaries**: wrapping counters (kfifo, slices), levels of the wheel, the
  saturating completion counter, a reserve that is empty or full.
* **Sides without a lock**: the fifo's writer and reader, the pool's pop, the cyclic
  identifier, the page that is marked after the lock is gone.

`PROJECT.json` lists the hazards line by line, with the properties that cover them.

## What is modelled

### Sched: one CPU's scheduler

One CPU, one populated class, one priority: `default_sched` is set once at boot
and every task has `init_task`'s priority, so the class's queue is one `list`,
one bit of `bitmap` and one counter `running`.  A step is a stretch of code no
interrupt can split: `sched_dispatch` runs with interrupts off from its
`irq_local_disable` to the switch and `context_switch_finish`, and an interrupt
handler runs to its end.  `pc[t]` is where a task stands between two stretches.

| action | code |
|---|---|
| `Resched` | `sched_resched` of a task that lets others run, sleeps, yields or exits |
| `IdleResched` | `idle_loop` sees the flag, `sched_idle` |
| `ReschedAgain`, `ReschedDone` | `while (current_test_resched())` behind the dispatch |
| `Yield` | `sched_yield` up to its `sched_resched` |
| `PreemptIrq` | `entry_irqhandle_exit`, `sched_preempt_handle`, `preempt_handle` |
| `Tick` | `sched_tick`, `rr_task_tick` |
| `Clone` | `task_clone`, `sched_wake_up_new` |
| `Block` | `current_set_state(blocked)` by a task that is on some wait list |
| `WakeByTask`, `WakeByIrq` | `sched_wake_up` from a task, from an interrupt or timer |
| `Exit` | `kernel_exit`, `sched_kill` up to its dispatch |
| `EnterIdle` | the end of `kernel_main` |

`Block` and the wakeups stand for any sleeper; `Semaphore` replaces them with
real ones.  Constants choose the build and the environment: `RR` the class,
`Preempt` whether the `sched_preempt` static call is `sched_preempt_handle`
(what it is until `preempt_dynamic_init` picks another mode), `EarlyIrq` whether
an interrupt may wake a task before it has left the CPU.

Misuse of `struct list_head` is recorded in `listerr`.  Deleting a deleted entry
and adding the tail once more are what `list-debug.c` refuses, and the model
goes on as a build with `CONFIG_DEBUG_LIST` does.  Adding an entry that is
linked elsewhere passes the check and overwrites the links: `"broken"`.  What
follows is not modelled, and the model stops there.

### Semaphore: a client of the scheduler, with timeouts

`semaphore.c` and `sleep.c` over `Sched`.  The spin lock turns interrupts off, so
what it protects is one step.  A wait is: `DownSlow` (node, announcement, unlock),
`SleepForever` or `SleepTimed` (`sched_timeout`), dispatches of `Sched`, and then
`Served`, `Again` or `TimedOut` under the lock.  Tasks in `Timed` wait with a
timer.  Time is not counted: a timer fires at any later moment (`Expire`), and
`late` says that it was the timeout that ended the sleep.  `sched_timeout` never
clears its timer: `LeaveTimer` moves it to `stale`, and `ExpireStale` fires it.
The stack frame it lies in is dead by then; the model takes its contents to be
intact, the mildest outcome.  `semaphore_down_trylock` is `DownFast` or nothing.

### AbsSemaphore: what a semaphore promises

Units that nobody holds, a line, and the users that were served: take when nobody
waits, stand in line, serve the first, collect, give up.  `Semaphore` implements
it with `avail <- count`, `line <- waits` and `granted` the served tasks that have
not returned yet.  `AbsFairSpec` adds that who was served collects.

### TimerWheel: the timers of one CPU

`timer.c`, the tick and the timer's softirq.  Every function under the base lock
is one step: `timer_pending`, `timer_clear`, and the softirq's `Collect` (the head
of the loop in `base_do_timers`: take the buckets that are due, find the next
expiry), `Fire` (take one timer off, start it again if it is periodic, unlock, call)
and `Leave`.  `locked` keeps the lock from `Collect` to the first `Fire`; during a
callback anybody starts and clears timers, collected ones too, and the tick goes
on.  `clac_wheel`, `Slot`, `At`, `First` and `Stops` are the arithmetic of the levels.
A bucket is a set of timers: their order in it is left open.

### Completion and AbsCompletion

`completion.c` with the wait queue of `waitqueue.c`, over `Sched` in the same way:
`WaitFast` and `WaitSlow` are `common_wait` up to its unlock, `CompSleepForever` and
`CompSleepTimed` the sleep, `WaitDone`, `WaitAgain` and `WaitTimedOut` what it finds
when it is back.  `complete_one` and `complete_all` come from tasks and interrupts.
The node's state is kept because the code goes by it: a waker's `list_del` poisons
it, and a waiter that must wait again tests `list_check_empty` on a poisoned node
and is not linked any more.  `AllReleased` names those it strands.
`AbsCompletion` counts: a user leaves with a completion, or gives up when there is
none and it has a timeout.

### Softirq: what runs on the way out of an interrupt

`softirq.c` on one CPU.  `loops` is the stack of `softirq_irq_entry`s, each with the
handler it is in; a hardware interrupt comes into a handler that is not irq safe,
and leaves through `softirq_handle`.  `owed` remembers raises that no handler has
started for.  Handlers, tasks and interrupts raise and clear; registration is by
tasks.

### Kfifo and AbsQueue: a ring without a lock

`kfifo.c` and the macros of `kfifo.h` in flat mode, for one writer and one reader.
Each call is three steps: decide the length from the other side's counter, copy,
move the own counter.  Counters have a word of `FifoWord` values and wrap.
`AbsQueue` is a bounded queue: the writer's elements are accepted, just these join
the queue, the reader looks, and what it has read leaves.  The mapped queue is read
off the buffer (`Contents`), so a wrong copy is a wrong queue.

### Mutex

The owner word of `mutex.c` and where each task is.  `mutex_common_trylock` answers
NULL for success and the slow path takes non-NULL for success, so it admits whoever
comes; its waiter list, flags and handoff are code that no call reaches, and the
module has none of it.  `crossed` remembers that somebody went that way.

### Idr

`idr.c`: the list and, being the same nodes, the tree.  An allocation or a release
is one step under the lock; `idr_node_alloc_cyclic_range` is four (read `id_next`, try,
try again from the minimum, write it).  Where a new leaf lands among its neighbours
depends on the shape of the tree, and the model allows each.  `idrGap` remembers
that an allocation filled a gap behind a used minimum; up to there the list is sorted.

### Buddy: the page allocator

`page.c` on one region: boot adds pages one by one, `buddy_smallest` splits,
`buddy_merge` merges, each under the lock; `page_mark` is the assignment of `PAGE_USED`
that comes after it.  `raced` remembers that a block was released while another was
handed out and not marked yet; up to there the blocks partition the pages.

### Mempool

`mempool_alloc` tests `curr` and pops without the lock; `mempool_free` decides without
it and again with it.  `poolSeen` is the value an allocation has tested.  `poolRaced`
remembers a pop behind another change of `curr`, where objects begin to be handed out
twice, and the model stops there.

### Kcoro: coroutines

`kcoro.c`, all of it in one task, so that a call is a step and only `ticktime` moves
by itself.  `cpu` is the coroutine that runs or the place of `kcoro_schedule`'s loop:
`LoopPick` is `kcoro_function` up to its switch, `Yield` and `TSleep` are `kcoro_yield` up
to the next one, `BackToLoop` the return to `retctx`.  `ready` and `blocked` are the two
trees in their order, equal keys first come first.  What a turn adds to `vtime` is any
member of `CoroSlices`: the clock and the weights of priorities decide it.

### MCSync and MCLib: instances side by side

Modules that share no state are checked in one run: `focus`, chosen at the start,
says which of them moves, and the others stay where they began.  The states of a
run are the sum of the instances, not their product, and every property is one of
its own instance.  `MCSync` holds the semaphore and the completion, each with the
scheduler below it, and the softirqs; `MCLib` the rest, the wheel twice.

## Runs

| run | instance | result |
|---|---|---|
| `sched_none` | 3 tasks, no kernel preemption, all sleep and exit | queue records exact, no lost wakeup, idle sees work, head runs, flags fresh, no double add, sleepers stay |
| `sched_full` | 3 tasks, full preemption, one exits, nobody sleeps | no use after free, every task gets the CPU |
| `sched_exit` | as `sched_none` | **violated**: an exiting task is deleted from the list twice |
| `sched_wake` | as `sched_none`, full preemption | **violated**: a task preempted on its way to sleep is added twice |
| `sync_forever` | 3 tasks wait without timeout, 3 softirqs | no lost wakeup, no forgotten completion, `complete_all` releases; the live abstract semaphore; soft interrupts do not nest, lose no raise, and wait only for lower ones |
| `sync_timed` | 2 tasks wait with timeout | exact list and count, no barging; implements the abstract semaphore and the abstract completion |
| `sem_stale` | as `sync_timed` | **violated**: a timer left behind adds a runnable task twice |
| `library` | wheel, fifo, mutex, identifiers, pages, pool, coroutines | what `MCLib.cfg` lists; see each module |
| `timer_early` | 1 timer with the last delta of level 0 | **violated**: called before its expiry |
| `mutex` | 3 tasks, 2 of them lock | **violated**: two tasks inside |
| `idr` | 2 callers, identifiers up to 4 | **violated**: an identifier is handed out twice |
| `buddy` | 6 pages, orders 0 to 2 | **violated**: a page that is not on a list is taken off it |

Bounds.  Three tasks are one that runs, one that waits behind it and one that
sleeps, exits or is created meanwhile; positions first, middle and last of the
queue all occur.  `Slice` is 1 (a turn that goes on and a turn that ends) or 0
where the slices play no part.  `MaxRunning` bounds the counter that a preempted
exit leaks (and the double adds of stale timers).  `MaxCount` is 2: zero, one
and more than one; `CompForever` is 4, out of reach of single completions by two or
three tasks.  Two timed waiters are enough for a late timer of one to meet the turn
of the other.  Of three softirqs one is irq safe and one periodic.

The wheel has 3 levels of 4 buckets with factor 2 and `StartTime` 5, off the grain of
the higher levels.  Deltas 3 and 6 (levels 0 and 1) run to time 13, 11 and 17 (level 2
and beyond the last) to 24; all levels wrap around.  `DeltaMax` stands for 2^62.  The
fifo has 2 slots and counters of 4 values, so that full, empty and both kinds of
wrap come together, calls of up to 3 elements and 2 values to tell them apart.
Three mutex tasks, two of which lock: an owner, one in the slow path, one that tries.
Two callers of idr with 4 identifiers: a gap has neighbours on both sides.  Four
pages and orders 0 to 2 split and merge twice; the violation wants six.  The pool
has 3 objects, 2 of them in reserve, and 2 callers.  Three coroutines, turns of 0 and 1,
naps of 1 and for ever, `CoroMaxVtime` 2, `CoroMaxTick` 1: one runs, one is ready or
blocked ahead of it and one behind.

`sync_timed`, `library`, `timer_early`, `mutex`, `idr` and `buddy` do not check deadlock: a stale timer can
break the list, the wheel's clock stops at its bound and the pool at its race, and
there the model ends.  The other runs check it.

`sched_none` and the runs of `MCSync` have `EarlyIrq = FALSE`: with it, or with
`Preempt` and sleepers, the double add of `sched_wake` is reachable and with it
the properties of the queue fail.  They are properties of the code as it behaves
when a sleeper is left alone until it is off the CPU.  In the same way the properties
of `Mutex`, `Idr`, `Buddy` and `Mempool` hold up to the step that the violation runs, or
the race of the pool, show to be wrong; the history variables name that step.

Every property of a passing run has a mutant, a definition next to the one it
changes, that the property detects.

## Fairness

`Fairness` of `Sched`: weak fairness of `Tick` (the clock event is periodic), of
`PreemptIrq` (every interrupt ends with its exit path), of the idle loop, and of
the loop behind a dispatch (straight-line kernel code).  Nothing is assumed of
tasks: `EveryoneRuns` holds although a task may compute for ever.

`SemFairness` has no preemption, so a task must call the scheduler in the end
(`SemResched`: the kernel is cooperative in that mode), and it must come out of
`sched_resched`: strong fairness for each task's `ReschedDone`, since the tick
could otherwise set its flag on those few instructions each time round.  Nothing
is assumed of callers of `semaphore_up`: a user may wait in line for ever.

`CompFairness` asks the same of the scheduler and of a task inside `common_wait`, and
nothing of those who complete.  `SoftFairness`: hardware interrupts end and keep coming
(the tick), the loop of `softirq_irq_entry` goes on, and a handler gets to its end
although interrupts come into it (strong fairness of `Return`).  `SyncFairness` of
`MCSync` is each of the three where its instance is in focus.

## Proofs

`ListFacts` proves what the list operators do (`RemoveFirst`, `InsertAt`, append, head,
tail) on lists without duplicates, and what numbers do: quotient and remainder, the least
member of a set, powers.  Two facts about `2 ^ k` would need induction, which the prover has
not: that it is a positive number, and `2 ^ (j + k) = 2 ^ j * 2 ^ k`.  Both are proved by
counting instead, `2 ^ k` being the number of subsets of `1 .. k`.

`SchedProofs` has three inductive invariants of `Spec`.

* `BaseInv` holds in every mode: types, no duplicates in the list, every entry is
  queued and exists, who runs is an entry unless it is the idle task, and
  `running` is at least the length of the list.  `TypeOK` alone is not inductive
  (`running - 1` must stay a number) and neither is `NoUseAfterFree`: freeing a
  task is safe only because its entry was on the list once at most and is taken
  off by one of the two deletions.  From it `TypeCorrect` and `NeverUsesFreed`.
* `FlagInv` adds that the bit agrees with the list, `HeadRuns`, `NoStaleFlag` and, with
  rr, `IdleSeesWork`: each step of one needs the others.  Also in every mode.
  From it `FirstRuns`, `FlagIsFresh` and, with rr, `IdleIsTold`.
* `RunInv` needs `~Preempt` and `~EarlyIrq`: `RunQueueExact`, `RunnableIsQueued` and
  `NoDoubleAdd` are inductive together.  `SleepersAreLeftAlone` follows from it.
  The assumptions are necessary: `sched_wake` is the counterexample without the
  first.

`SemaphoreProofs` proves `SemInv` (types, a positive count means nobody waits, the
list is exactly the tasks inside that were not served), and from it `NoBarging`,
`WaitersExact` and `SemSpec => IsSemaphore`, step by step: every action of the
code is a step of the abstract semaphore or a stutter, for any number of tasks,
any count, with preemption and early interrupts, stale timers included.

`TimerWheelProofs` proves `WheelInv`, for every shape of the wheel, every set of timers and
deltas, periodic ones included, and a softirq that comes as late as it likes.
`NothingMissed` is not inductive: that the next expiry is soon enough says nothing of which
bucket is looked at then.  Its core is `ReachedInv`: the bucket of a timer *comes by* (`DueAt`)
at some time between `recent_timer` and the end of the bucket behind the timer's expiry.
The step that matters is `Collect`: time goes from one expiry to the next, and no bucket that
holds a timer may come by in between.  `next_recent_timer` looks level by level, so
the proof compares the times at which a level stops: those of a higher level are also
times of every lower one (`GainDivides`), and the search stops at the first marked
bucket of a level.  That needs `BucketsMarked`, and with it the fact that `timer_clear`, which
tests a fixed bucket, takes at most the bit of an empty one away.  `ClocksInv` and `AimInv` are what the
code itself relies on between two calls.  From it `MarksComplete`, `NothingIsMissed`,
`NeverIsLate`, and `NoWarningPrinted`: both warnings are dead code.

`KfifoProofs` proves `FifoInv`: the clips hold, and between a side's copy and the move of
its counter its slots hold what it copied; the other side leaves them alone because
the clips keep the two apart (`ApartByClips`, arithmetic modulo the size).  From it
`ClipsAlwaysHold`, `SidesAlwaysApart` and the refinement `FifoImplementsQueue`, for every
word and every size that divides it: `FifoClipsHold` alone is not enough, since a put must append
what was offered and an out must take off what was read.

`BuddyProofs` proves `BuddyInv`, for every number of pages and of orders.  As long as each
`list_del` found its entry (`~badDel`), the free and the held blocks divide the pages
(`BuddyWhole`): each is aligned, two that share a page are one, together they cover what
was added, and no two free buddies are both marked.  That the entry is always found needs
the other half, `MarksInside`: `buddy_merge` believes a page's mark and order, and
splitting leaves marks behind; but such a mark is inside a block, so no merge ever looks
there, unless a block was released before another was marked (`raced`).  The loop of
`buddy_merge` is one step, without induction: it ends at one order and always at one
(`MergeComesToAnEnd`), and the block it makes consists of the one it began with and of one buddy of
each order on the way (`MergedIs`).  From it `PagesOnce`, `MarkedMerge`, and `MergeFindsBuddies`,
the positive half of the run `buddy`: there is no other way to what it shows.

`LibProofs` has the small ones.  Of the mutex: the word names a task inside or nobody
(`NobodyLeavesItLocked`), and until the slow path is taken who is inside is the owner
(`FastPathExcludes`).  Of the pool: `ObjectsStayOnce` and `ReserveAlwaysComesBack` from `PoolInv`, which
adds that who is on the way to `pool->free` has an object of its own and that no slot was
ever unwritten.  Of the identifiers: until a gap is filled the list is in ascending order
(`IdentifiersStaySorted`), whatever the shape of the tree, and no identifier is in use twice
(`UniqueUntilGap`: the run `idr` shows the only way there); and `FailsOnlyWhenFull`, which holds even
after that: the walk of a search that ends empty has found every identifier of its range
in its place (`NothingFree`, by looking at the least that is not).  Of the coroutines: `CoroInv`
ties the trees, the states, the CPU and the cached `mvtime` together (a work in a tree
has the state that belongs there and is nowhere else; both trees have each work once; `ready`
is in the order of virtual time and `mvtime` is its head's), and from it `WorksStayOnce` and
`LeastAlwaysFirst`.  Waking several works is an insertion each in the code; the model says what
comes of it (`Inserted`: each element at the place that counting those before it gives), and
`InsertedIs` proves that this is the same set in the right order.
`LibTypesHold` puts all the types together: each instance of `MCLib` behaves as its own
module (`SideBySide`), so every theorem of a module is one of the instance.

`SyncProofs`: one soft interrupt loop at most and no lost raise.  `CompletionCorrect` is the
refinement `CompSpec => IsCompletion`, with timeouts, preemption and early interrupts; its
invariant `CompInv` says little more than that only a task that called
`completion_wait_timeout` ever has a timer.  `SyncTypesHold` has the types of all three, side by
side; for those of the soft interrupts one needs that a loop takes a bit that is there.

Two proofs put a client and the scheduler together, in the kernel of `RunInv` (no preemption,
no early interrupts) and without timeouts, which leave nodes behind.  `NoWakeupLost`
(`SemaphoreProofs`, from `LineInv`): who sleeps in `common_down` is in line, and who is in line
sleeps; so no wakeup adds a task twice (`WaitersAddedOnce`, the positive half of the run
`sem_stale`).  `TokensAreClaimed` (`SyncProofs`, from `TokenInv`): no completion lies about while a task
stands in the queue.  Both invariants add to `RunInv` that whoever is linked on the client's list
is `Asleep`: blocked, and, while it still has the CPU, between its announcement and its dispatch.
`SleepersSleepOn` carries that over every step of the scheduler; with it a wakeup finds the
task off the run queue, and no linked task is ever back in its loop.
`TokensAreClaimed` (and `CompletersAddOnce`, the same for the wakeups of a completion) also needs `Cardinality(Tasks) <= CompForever`: if `complete_one` could
count up to `UINT_MAX` with tasks in the queue, the count would stop standing for single completions.

Only model-checked: liveness (`EveryoneRuns`, `IsLiveSemaphore`, `AllReleased`,
`SoftirqServed`), which the prover cannot do under fairness.  Every invariant and every other
action property of a passing run has a theorem.

## Not modelled

More than one CPU (`wake_up_state_wake` always uses CPU 0), priorities, voluntary
preemption, the memory context of a switch, allocation failure in `task_clone`,
halting in the idle loop, splitting `list_move_prev` in `sched_yield` (it runs with
interrupts on).  Of the modelled libraries: record mode of kfifo (self tests use
it, nobody else), wider elements; `mempool_resize` (its shrinking loop does not end) and
`mempool_release`; unlocked wait queues; several bases of the wheel, timers with two
starters.  `klist` has no user in the repository, the wake queue none that is reached.
Drivers, file systems, architectures, fonts and protocol headers are hardware access,
tables and I/O, and most of the repository's lines are theirs; the core that keeps
state across steps is what is here.

## Plan

1. The device core: binding of devices and drivers, and what a probe that defers does.
2. `TimerWheel` under a sleeper, in place of the arbitrary expiry of `Semaphore`; two
   starters of one timer; an abstract timer that knows only expiries.
3. Voluntary preemption and priorities in `Sched`; the idle loop with its halt.
4. Virtual memory ranges (`mm/vmem.c`): the trees of free and used ranges.
5. Proofs: that a completion is not forgotten where some wait with a timeout, with what
   a dead node may swallow named; the run queue under preemption, between the double adds;
   how late a coroutine may wake up.
