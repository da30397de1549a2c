----------------------------- MODULE SyncProofs ------------------------------
(***************************************************************************)
(* What is proved of the soft interrupts and of the completion, for any    *)
(* set of softirqs and any number of tasks, and the types of the instances *)
(* that run side by side.                                                  *)
(***************************************************************************)
EXTENDS MCSync, SemaphoreProofs

-----------------------------------------------------------------------------
(* Softirq *)

\* A loop runs, with some handler or between two, or none does.
SoftInv ==
  /\ loops = <<>> \/ loops = <<loops[1]>>
  /\ RaiseKept

LEMMA SoftStep == SoftInv /\ [SoftNext]_softVars => SoftInv'
<1> SUFFICES ASSUME SoftInv, [SoftNext]_softVars PROVE SoftInv'
  OBVIOUS
<1> USE DEF SoftInv, RaiseKept
<1>1. ASSUME NEW s \in SoftIrqs,
             \/ softirq_pending(s) \/ softirq_clear(s) \/ softirq_register(s)
             \/ UnregisterClear(s) \/ UnregisterFree(s)
      PROVE  SoftInv'
  BY <1>1 DEF softirq_pending, softirq_clear, softirq_register, UnregisterClear, UnregisterFree
<1>2. CASE hardirq_entry
  BY <1>2 DEF hardirq_entry
<1>3. CASE hardirq_exit
  <2>1. CASE loops = <<>> /\ softPending # {}
    <3>1. loops' = <<NoSoftirq>>
      BY <1>3, <2>1 DEF hardirq_exit, in_irq, Looping
    <3>2. loops' = <<loops'[1]>>
      BY <3>1
    <3> QED BY <1>3, <3>2 DEF hardirq_exit
  <2>2. CASE ~(loops = <<>> /\ softPending # {})
    BY <1>3, <2>2 DEF hardirq_exit, in_irq, Looping
  <2> QED BY <2>1, <2>2
<1>4. CASE Turn
  <2>1. loops = <<loops[1]>> /\ Len(loops) = 1
    BY <1>4 DEF Turn, Looping
  <2>2. loops' = <<Lowest>>
    BY <1>4, <2>1 DEF Turn
  <2>3. loops' = <<loops'[1]>>
    BY <2>2
  <2>4. owed' \subseteq softPending'
    BY <1>4 DEF Turn
  <2> QED BY <2>3, <2>4
<1>5. CASE Return
  <2>1. loops = <<loops[1]>> /\ Len(loops) = 1
    BY <1>5 DEF Return, Looping
  <2>2. loops' = <<NoSoftirq>>
    BY <1>5, <2>1 DEF Return
  <2>3. loops' = <<loops'[1]>>
    BY <2>2
  <2> QED BY <1>5, <2>3 DEF Return
<1>6. CASE LoopEnd
  <2>1. loops = <<loops[1]>> /\ Len(loops) = 1
    BY <1>6 DEF LoopEnd, Looping
  <2>2. loops' = SubSeq(loops, 1, 0)
    BY <1>6, <2>1 DEF LoopEnd
  <2>3. loops' = <<>>
    BY <2>2, <2>1
  <2> QED BY <1>6, <2>3 DEF LoopEnd
<1>7. CASE UNCHANGED softVars
  BY <1>7 DEF softVars
<1> QED BY <1>1, <1>2, <1>3, <1>4, <1>5, <1>6, <1>7 DEF SoftNext

LEMMA SoftInvariant == SoftSpec => []SoftInv
<1>1. SoftInit => SoftInv
  BY DEF SoftInit, SoftInv, RaiseKept
<1> QED BY <1>1, SoftStep, PTL DEF SoftSpec

\* softirq_handle starts no second loop inside the first (softirq.c:59-66),
\* wherever hardware interrupts come into the handlers.
THEOREM NeverNests == SoftSpec => []OneLoop
<1>1. SoftInv => OneLoop
  BY DEF SoftInv, OneLoop
<1> QED BY <1>1, SoftInvariant, PTL

\* The bit is cleared before its handler is called (softirq.c:44-51), so a
\* raise that comes meanwhile is there when it returns.
THEOREM RaisesAreKept == SoftSpec => []RaiseKept
<1>1. SoftInv => RaiseKept
  BY DEF SoftInv
<1> QED BY <1>1, SoftInvariant, PTL

-----------------------------------------------------------------------------
(* Completion *)

\* What the refinement needs of types and timers: only a task that calls
\* completion_wait_timeout ever has a timer, and so a timeout.
CompInv ==
  /\ counter \in 0 .. CompForever
  /\ compAt \in [Tasks -> {"out", "wait"}]
  /\ compLate \in [Tasks -> BOOLEAN]
  /\ compTimers \cup compStale \subseteq CompTimed
  /\ \A t \in Tasks : compLate[t] => t \in CompTimed

\* The steps that neither the counter nor anyone's place depends on.
LEMMA CompQuietStep ==
  ASSUME CompNext
  PROVE  \/ UNCHANGED <<counter, compAt>>
         \/ complete_one \/ complete_all
         \/ \E t \in Tasks : WaitFast(t) \/ WaitSlow(t) \/ WaitDone(t) \/ WaitTimedOut(t)
<1>1. ASSUME NEW t \in Tasks,
             \/ CompSleepForever(t) \/ CompSleepTimed(t) \/ WaitAgain(t) \/ CompExpire(t)
      PROVE  UNCHANGED <<counter, compAt>>
  BY <1>1 DEF CompSleepForever, CompSleepTimed, WaitAgain, CompExpire, compVars, waitVars
<1>2. CompResched \/ CompSchedRest => UNCHANGED <<counter, compAt>>
  BY DEF CompResched, CompSchedRest, compVars, waitVars
<1>3. CompleteByTask \/ CompleteByIrq => complete_one \/ complete_all
  BY DEF CompleteByTask, CompleteByIrq
<1> QED BY <1>1, <1>2, <1>3 DEF CompNext

LEMMA CompStarts == CompInit => CompInv
BY CompAssumption DEF CompInit, CompInv

LEMMA CompStep == CompInv /\ [CompNext]_compAllVars => CompInv'
<1> SUFFICES ASSUME CompInv, [CompNext]_compAllVars PROVE CompInv'
  OBVIOUS
<1> USE CompAssumption DEF CompInv
<1>1. CASE UNCHANGED compAllVars
  BY <1>1 DEF compAllVars, compVars, waitVars
<1>2. CASE CompResched \/ CompSchedRest
  BY <1>2 DEF CompResched, CompSchedRest, compVars, waitVars
<1>3. CASE CompleteByTask \/ CompleteByIrq
  <2>1. complete_one \/ complete_all
    BY <1>3 DEF CompleteByTask, CompleteByIrq
  <2>2. CASE complete_one
    BY <2>2 DEF complete_one
  <2>3. CASE complete_all
    BY <2>3 DEF complete_all
  <2> QED BY <2>1, <2>2, <2>3
<1>4. ASSUME NEW t \in Tasks, WaitFast(t) PROVE CompInv'
  BY <1>4 DEF WaitFast, Consume, waitVars
<1>5. ASSUME NEW t \in Tasks, WaitSlow(t) PROVE CompInv'
  BY <1>5 DEF WaitSlow
<1>6. ASSUME NEW t \in Tasks, CompSleepForever(t) PROVE CompInv'
  BY <1>6 DEF CompSleepForever, compVars, waitVars
<1>7. ASSUME NEW t \in Tasks, CompSleepTimed(t) PROVE CompInv'
  BY <1>7 DEF CompSleepTimed
<1>8. ASSUME NEW t \in Tasks, WaitDone(t) PROVE CompInv'
  BY <1>8 DEF WaitDone, Consume, CompLeaveTimer
<1>9. ASSUME NEW t \in Tasks, WaitAgain(t) PROVE CompInv'
  BY <1>9 DEF WaitAgain, CompLeaveTimer
<1>10. ASSUME NEW t \in Tasks, WaitTimedOut(t) PROVE CompInv'
  BY <1>10 DEF WaitTimedOut, CompLeaveTimer
<1>11. ASSUME NEW t \in Tasks, CompExpire(t) PROVE CompInv'
  BY <1>11 DEF CompExpire
<1> QED
  BY <1>1, <1>2, <1>3, <1>4, <1>5, <1>6, <1>7, <1>8, <1>9, <1>10, <1>11 DEF CompNext

LEMMA CompStartsAbs == CompInit => CompAbs!AbsCompInit
BY DEF CompInit, CompAbs!AbsCompInit

LEMMA CompStepAbs ==
  CompInv /\ [CompNext]_compAllVars => [CompAbs!AbsCompNext]_(CompAbs!compAbsVars)
<1> SUFFICES ASSUME CompInv, [CompNext]_compAllVars
             PROVE  CompAbs!AbsCompNext \/ UNCHANGED CompAbs!compAbsVars
  OBVIOUS
<1> DEFINE within == {t \in Tasks : compAt[t] = "wait"}
<1>t. /\ counter \in Nat /\ CompForever \in Nat \ {0} /\ counter <= CompForever
      /\ compAt \in [Tasks -> {"out", "wait"}]
  BY CompAssumption DEF CompInv
<1>0. UNCHANGED <<counter, compAt>> => UNCHANGED CompAbs!compAbsVars
  BY DEF CompAbs!compAbsVars
<1>1. CASE UNCHANGED compAllVars
  BY <1>0, <1>1 DEF compAllVars, compVars, waitVars
<1>2. CASE complete_one
  <2>1. counter' = (IF counter # CompForever THEN counter + 1 ELSE counter) /\ within' = within
    BY <1>2 DEF complete_one
  <2>2. CASE counter # CompForever
    <3>1. CompAbs!Post
      BY <2>1, <2>2, <1>t DEF CompAbs!Post
    <3> QED BY <3>1 DEF CompAbs!AbsCompNext
  <2>3. CASE counter = CompForever
    BY <2>1, <2>3 DEF CompAbs!compAbsVars
  <2> QED BY <2>2, <2>3
<1>3. CASE complete_all
  <2>1. counter' = CompForever /\ within' = within
    BY <1>3 DEF complete_all
  <2>2. CASE counter # CompForever
    <3>1. CompAbs!Post
      BY <2>1, <2>2, <1>t DEF CompAbs!Post
    <3> QED BY <3>1 DEF CompAbs!AbsCompNext
  <2>3. CASE counter = CompForever
    BY <2>1, <2>3 DEF CompAbs!compAbsVars
  <2> QED BY <2>2, <2>3
<1>4. ASSUME NEW t \in Tasks, WaitFast(t) PROVE CompAbs!Pass
  BY <1>4, <1>t DEF WaitFast, Consume, waitVars, CompAbs!Pass, CompAbs!Consumed
<1>5. ASSUME NEW t \in Tasks, WaitSlow(t) PROVE CompAbs!Stay(t)
  BY <1>5, <1>t DEF WaitSlow, CompAbs!Stay
<1>6. ASSUME NEW t \in Tasks, WaitDone(t) PROVE CompAbs!Leave(t)
  <2>1. within' = within \ {t} /\ t \in within
    BY <1>6, <1>t DEF WaitDone, CompBack
  <2> QED BY <1>6, <2>1, <1>t DEF WaitDone, Consume, CompAbs!Leave, CompAbs!Consumed
<1>7. ASSUME NEW t \in Tasks, WaitTimedOut(t) PROVE CompAbs!Leave(t)
  <2>1. within' = within \ {t} /\ t \in within
    BY <1>7, <1>t DEF WaitTimedOut, CompBack
  <2>2. counter = 0 /\ t \in CompTimed /\ UNCHANGED counter
    BY <1>7 DEF WaitTimedOut, CompInv
  <2> QED BY <2>1, <2>2 DEF CompAbs!Leave
<1> QED BY <1>0, <1>1, <1>2, <1>3, <1>4, <1>5, <1>6, <1>7, CompQuietStep DEF CompAbs!AbsCompNext

\* completion.c over the scheduler keeps count: no completion is lost or used
\* twice, and a wait gives up only when there is none, although a waiter that
\* timed out leaves its node in the queue (completion.c:23) and one that was
\* woken cannot be linked again (waitqueue.c:13).
THEOREM CompletionCorrect == CompSpec => IsCompletion
<1> QED BY CompStarts, CompStep, CompStartsAbs, CompStepAbs, PTL
        DEF CompSpec, IsCompletion, CompAbs!AbsCompSpec

-----------------------------------------------------------------------------
(* No completion is forgotten, where nobody gives up *)

\* What the scheduler and the wait queue say of each other: who stands in the
\* queue is inside, asleep, and its node is in no list but this one.
QueueInv ==
  /\ RunInv
  /\ CompInv
  /\ compNode \in [Tasks -> {"none", "linked", "poisoned"}]
  /\ compWaits \in Seq(Tasks) /\ IsInjective(compWaits)
  /\ \A t \in ToSet(compWaits) :
       compAt[t] = "wait" /\ compNode[t] = "linked" /\ Asleep(t)

TokenInv == QueueInv /\ NoTokenForgotten

\* The sleepers of the queue are on no run queue when a completion comes.
LEMMA QueuedOffList ==
  ASSUME QueueInv, ~EarlyIrq, CompleteByTask \/ CompleteByIrq
  PROVE  \A t \in ToSet(compWaits) : t \in Tasks /\ ~OnList(t) /\ state[t] = "blocked"
<1>. SUFFICES ASSUME NEW t \in ToSet(compWaits)
              PROVE  t \in Tasks /\ ~OnList(t) /\ state[t] = "blocked"
  OBVIOUS
<1>1. /\ t \in Tasks /\ t \in AllTasks /\ state[t] = "blocked" /\ compAt[t] = "wait"
      /\ RunnableIsQueued /\ RunQueueExact
  BY ListElems DEF QueueInv, RunInv, Asleep, AllTasks
<1>2. CASE CompleteByTask
  BY <1>1, <1>2, IdleAssumption DEF CompleteByTask, RunnableIsQueued
<1>3. CASE CompleteByIrq
  BY <1>1, <1>3 DEF CompleteByIrq, RunQueueExact, OnList
<1> QED BY <1>1, <1>2, <1>3

\* A node that is taken off: its task joins those that are going to look.
LEMMA AwakeGrows ==
  ASSUME QueueInv, NEW S \in SUBSET ToSet(compWaits), UNCHANGED compAt,
         compNode' = [t \in Tasks |-> IF t \in S THEN "poisoned" ELSE compNode[t]],
         state' = [t \in AllTasks |-> IF t \in S THEN "running" ELSE state[t]]
  PROVE  Awake' = Awake \cup S /\ Awake \cap ToSet(compWaits) = {}
<1>1. ToSet(compWaits) \subseteq Tasks /\ Tasks \subseteq AllTasks
  BY ListElems DEF QueueInv, AllTasks
<1> QED BY <1>1 DEF QueueInv, Awake

LEMMA AwakeFinite ==
  ASSUME NEW A \in SUBSET Awake
  PROVE  IsFiniteSet(A) /\ IsFiniteSet(Awake) /\ Cardinality(A) \in Nat
         /\ Cardinality(Awake) \in Nat /\ Cardinality(A) <= Cardinality(Awake)
BY CompAssumption, FS_Subset, FS_CardinalityType DEF Awake

\* waitqueue_wakeup_one_locked.
LEMMA WakeFirstQueue ==
  ASSUME QueueInv, CompInv', compWaits # <<>>, WakeFirst, UNCHANGED compAt,
         \A t \in ToSet(compWaits) : t \in Tasks /\ ~OnList(t) /\ state[t] = "blocked"
  PROVE  QueueInv' /\ Cardinality(Awake') = Cardinality(Awake) + 1
<1> DEFINE h == Head(compWaits)
<1>1. /\ h \in Tasks /\ h \in ToSet(compWaits) /\ ~OnList(h)
      /\ compWaits' \in Seq(Tasks) /\ IsInjective(compWaits')
      /\ ToSet(compWaits') = ToSet(compWaits) \ {h}
  <2>1. compWaits \in Seq(Tasks) /\ IsInjective(compWaits)
    BY DEF QueueInv
  <2>2. h \in Tasks /\ h \in ToSet(compWaits)
    BY <2>1, ListFirst
  <2>3. /\ Tail(compWaits) \in Seq(Tasks) /\ IsInjective(Tail(compWaits))
        /\ ToSet(Tail(compWaits)) = ToSet(compWaits) \ {h}
    BY <2>1, ListTail
  <2>4. compWaits' = Tail(compWaits)
    BY DEF WakeFirst
  <2> QED BY <2>2, <2>3, <2>4
<1>2. RunInv'
  BY <1>1, WakeEffectRun DEF QueueInv, WakeFirst
<1>3. /\ compNode' = [t \in Tasks |-> IF t \in {h} THEN "poisoned" ELSE compNode[t]]
      /\ state' = [t \in AllTasks |-> IF t \in {h} THEN "running" ELSE state[t]]
      /\ UNCHANGED <<curr, pc>>
  BY DEF QueueInv, RunInv, BaseInv, TypeOK, WakeFirst, WakeEffect, sched_wake_up
<1>4. Awake' = Awake \cup {h} /\ h \notin Awake
  BY <1>1, <1>3, AwakeGrows DEF QueueInv
<1>5. Cardinality(Awake') = Cardinality(Awake) + 1
  BY <1>4, AwakeFinite, FS_AddElement
<1>6. \A t \in ToSet(compWaits') :
        compAt'[t] = "wait" /\ compNode'[t] = "linked" /\ Asleep(t)'
  <2> SUFFICES ASSUME NEW t \in ToSet(compWaits')
               PROVE  compAt'[t] = "wait" /\ compNode'[t] = "linked" /\ Asleep(t)'
    OBVIOUS
  <2>1. t \in ToSet(compWaits) /\ t # h /\ t \in Tasks /\ t \in AllTasks
    BY <1>1 DEF AllTasks
  <2> QED BY <2>1, <1>3 DEF QueueInv, Asleep
<1> QED BY <1>1, <1>2, <1>3, <1>5, <1>6 DEF QueueInv

\* waitqueue_wakeup_all_locked leaves nobody, and the run queue as it should be.
LEMMA WakeAllQueue ==
  ASSUME QueueInv, CompInv', WakeAll, UNCHANGED compAt,
         \A t \in ToSet(compWaits) : t \in Tasks /\ ~OnList(t) /\ state[t] = "blocked"
  PROVE  QueueInv' /\ compWaits' = <<>>
<1>1. /\ compWaits' = <<>>
      /\ compNode' = [t \in Tasks |-> IF t \in ToSet(compWaits) THEN "poisoned" ELSE compNode[t]]
      /\ list' = list \o compWaits /\ running' = running + Len(compWaits)
      /\ bitmap' = (bitmap \/ compWaits # <<>>)
      /\ queued' = [t \in AllTasks |-> queued[t] \/ t \in ToSet(compWaits)]
      /\ state' = [t \in AllTasks |-> IF t \in ToSet(compWaits) THEN "running" ELSE state[t]]
      /\ resched' = IF compWaits = <<>> THEN resched ELSE FlagCurr(resched)
      /\ UNCHANGED <<curr, slice, pc, listerr>>
  BY DEF WakeAll
<1>2. /\ BaseInv /\ TypeOK /\ RunQueueExact /\ RunnableIsQueued /\ NoDoubleAdd
      /\ list \in Seq(Tasks) /\ compWaits \in Seq(Tasks)
      /\ IsInjective(list) /\ IsInjective(compWaits)
      /\ ToSet(list) \cap ToSet(compWaits) = {}
      /\ ToSet(compWaits) \subseteq Tasks /\ Tasks \subseteq AllTasks /\ Idle \notin Tasks
  BY IdleAssumption DEF QueueInv, RunInv, BaseInv, TypeOK, OnList, AllTasks
<1>3. /\ list' \in Seq(Tasks) /\ IsInjective(list')
      /\ Len(list') = Len(list) + Len(compWaits)
      /\ ToSet(list') = ToSet(list) \cup ToSet(compWaits)
      /\ Len(list) \in Nat /\ Len(compWaits) \in Nat
  BY <1>1, <1>2, ListConcat, ListElems
<1>4. TypeOK'
  <2>1. running' \in Nat
    BY <1>1, <1>2, <1>3 DEF TypeOK
  <2>2. /\ state' \in [AllTasks -> States] /\ queued' \in [AllTasks -> BOOLEAN]
        /\ resched' \in [AllTasks -> BOOLEAN] /\ bitmap' \in BOOLEAN
    BY <1>1, <1>2 DEF TypeOK, States, FlagCurr
  <2> QED BY <1>1, <1>2, <1>3, <2>1, <2>2 DEF TypeOK
<1>5. RunQueueExact'
  <2>1. ToSet(list') = {t \in AllTasks : queued'[t]}
    BY <1>1, <1>2, <1>3 DEF RunQueueExact, TypeOK
  <2>2. running' = Len(list')
    BY <1>1, <1>2, <1>3 DEF RunQueueExact
  <2>3. list' # <<>> <=> list # <<>> \/ compWaits # <<>>
    <3>1. /\ list' = <<>> <=> ToSet(list') = {}
          /\ list = <<>> <=> ToSet(list) = {}
          /\ compWaits = <<>> <=> ToSet(compWaits) = {}
      BY <1>2, <1>3, ListElems
    <3> QED BY <3>1, <1>3
  <2>4. bitmap' = (list' # <<>>)
    BY <2>3, <1>1, <1>2 DEF RunQueueExact
  <2> QED BY <1>3, <2>1, <2>2, <2>4 DEF RunQueueExact
<1>6. RunnableIsQueued'
  BY <1>1, <1>2, <1>3 DEF RunnableIsQueued, OnList
<1>7. BaseInv'
  <2>1. Len(list') <= running'
    BY <1>5, <1>3 DEF RunQueueExact
  <2>2. \A t \in ToSet(list') : queued'[t] /\ state'[t] # "free"
    <3>1. ToSet(list) \subseteq AllTasks
      BY <1>2, ListElems
    <3> QED BY <3>1, <1>1, <1>2, <1>3 DEF BaseInv
  <2> QED BY <1>1, <1>2, <1>3, <1>4, <2>1, <2>2 DEF BaseInv, OnList, AllTasks
<1>8. RunInv'
  BY <1>1, <1>2, <1>5, <1>6, <1>7 DEF RunInv, NoDoubleAdd
<1>9. ToSet(compWaits') = {} /\ compWaits' \in Seq(Tasks) /\ IsInjective(compWaits')
  BY <1>1 DEF ToSet, IsInjective
<1>10. compNode' \in [Tasks -> {"none", "linked", "poisoned"}]
  BY <1>1 DEF QueueInv
<1> QED BY <1>1, <1>8, <1>9, <1>10 DEF QueueInv

LEMMA TokenStarts == CompInit => TokenInv
<1> SUFFICES ASSUME CompInit PROVE TokenInv
  OBVIOUS
<1>1. RunInv /\ CompInv
  BY RunInit, CompStarts DEF CompInit
<1>2. compWaits = <<>> /\ ToSet(compWaits) = {} /\ IsInjective(compWaits)
  BY DEF CompInit, ToSet, IsInjective
<1>3. QueueInv
  BY <1>1, <1>2 DEF CompInit, QueueInv
<1> QED BY <1>2, <1>3 DEF TokenInv, NoTokenForgotten

\* The queue stays as it is, and nobody who is awake falls asleep.
LEMMA TokenQuiet ==
  ASSUME TokenInv, RunInv', CompInv', UNCHANGED <<compWaits, compNode, compAt>>,
         counter' <= counter,
         \A t \in Tasks : /\ Asleep(t) => Asleep(t)'
                          /\ state[t] = "running" => state'[t] = "running"
  PROVE  TokenInv'
<1>1. QueueInv'
  <2>1. ToSet(compWaits) \subseteq Tasks
    BY ListElems DEF TokenInv, QueueInv
  <2> QED BY <2>1 DEF TokenInv, QueueInv
<1>2. Awake \subseteq Awake' /\ Awake' \subseteq Tasks
  BY DEF Awake
<1>3. /\ Cardinality(Awake) <= Cardinality(Awake')
      /\ Cardinality(Awake) \in Nat /\ Cardinality(Awake') \in Nat
  BY <1>2, CompAssumption, FS_Subset, FS_CardinalityType
<1>4. counter \in Nat /\ counter' \in Nat
  BY CompAssumption DEF TokenInv, QueueInv, CompInv
<1>5. NoTokenForgotten'
  BY <1>3, <1>4 DEF TokenInv, NoTokenForgotten
<1> QED BY <1>1, <1>5 DEF TokenInv

LEMMA TokenStep ==
  ASSUME ~Preempt, ~EarlyIrq, CompTimed = {}, Cardinality(Tasks) <= CompForever
  PROVE  TokenInv /\ [CompNext]_compAllVars => TokenInv'
<1> SUFFICES ASSUME TokenInv, [CompNext]_compAllVars PROVE TokenInv'
  OBVIOUS
<1>1. /\ QueueInv /\ NoTokenForgotten /\ RunInv /\ CompInv
      /\ counter \in Nat /\ CompForever \in Nat
      /\ compTimers = {} /\ compStale = {} /\ \A t \in Tasks : ~compLate[t]
      /\ compWaits \in Seq(Tasks) /\ ToSet(compWaits) \subseteq Tasks
      /\ IsInjective(compWaits) /\ Idle \notin Tasks /\ Tasks \subseteq AllTasks
  BY CompAssumption, IdleAssumption, ListElems DEF TokenInv, QueueInv, CompInv, AllTasks
<1>2. CompInv'
  BY <1>1, CompStep
<1>3. CASE UNCHANGED compAllVars
  BY <1>1, <1>3
  DEF compAllVars, compVars, waitVars, schedOwn, queueVars, taskVars, TokenInv, QueueInv, RunInv,
      BaseInv, TypeOK, RunQueueExact, RunnableIsQueued, NoDoubleAdd, OnList, CompInv, Asleep,
      NoTokenForgotten, Awake
<1>4. ASSUME "broken" \notin listerr, UNCHANGED compVars,
             \/ Resched \/ IdleResched \/ ReschedAgain \/ ReschedDone \/ PreemptIrq
             \/ Tick \/ EnterIdle \/ Yield \/ \E t \in Tasks : Clone(t)
      PROVE  TokenInv'
  <2>1. RunInv'
    BY <1>1, <1>4, RunStep DEF Next, SchedStep
  <2>2. \A t \in Tasks : /\ Asleep(t) => Asleep(t)'
                         /\ state[t] = "running" => state'[t] = "running"
    BY <1>1, <1>4, SleepersSleepOn
  <2>3. UNCHANGED <<compWaits, compNode, compAt>> /\ counter' <= counter
    BY <1>1, <1>4 DEF compVars, waitVars
  <2> QED BY <2>1, <2>2, <2>3, <1>2, TokenQuiet
<1>5. ASSUME CompleteByTask \/ CompleteByIrq PROVE TokenInv'
  <2>1. /\ complete_one \/ complete_all
        /\ UNCHANGED <<compAt, compLate, compTimers, compStale>>
    BY <1>5 DEF CompleteByTask, CompleteByIrq, complete_one, complete_all
  <2>2. \A t \in ToSet(compWaits) : t \in Tasks /\ ~OnList(t) /\ state[t] = "blocked"
    BY <1>1, <1>5, QueuedOffList
  <2>3. CASE complete_all
    BY <2>1, <2>2, <2>3, <1>1, <1>2, WakeAllQueue DEF complete_all, TokenInv, NoTokenForgotten
  <2>4. CASE complete_one /\ compWaits = <<>>
    <3>1. UNCHANGED <<schedOwn, compWaits, compNode, compAt>>
      BY <2>4 DEF complete_one, WakeFirst
    <3>2. QueueInv'
      BY <3>1, <1>1, <1>2
      DEF schedOwn, queueVars, taskVars, QueueInv, RunInv, BaseInv, TypeOK, RunQueueExact,
          RunnableIsQueued, NoDoubleAdd, OnList, Asleep
    <3> QED BY <3>1, <3>2, <2>4 DEF TokenInv, NoTokenForgotten
  <2>5. CASE complete_one /\ compWaits # <<>>
    <3>1. QueueInv' /\ Cardinality(Awake') = Cardinality(Awake) + 1
      BY <2>1, <2>2, <2>5, <1>1, <1>2, WakeFirstQueue DEF complete_one
    <3>2. counter' <= counter + 1 /\ counter <= Cardinality(Awake)
          /\ Cardinality(Awake) \in Nat /\ counter' \in Nat
      BY <2>5, <1>1, AwakeFinite DEF complete_one, NoTokenForgotten
    <3>3. counter' <= Cardinality(Awake')
      BY <3>1, <3>2, <1>1
    <3> QED BY <3>1, <3>3 DEF TokenInv, NoTokenForgotten
  <2> QED BY <2>1, <2>3, <2>4, <2>5
<1>6. ASSUME NEW t \in Tasks, WaitFast(t) PROVE TokenInv'
  <2>1. UNCHANGED <<schedOwn, compWaits, compNode, compAt>> /\ counter' <= counter
    BY <1>1, <1>6 DEF WaitFast, Consume, waitVars
  <2>2. RunInv' /\ \A u \in Tasks : /\ Asleep(u) => Asleep(u)'
                                    /\ state[u] = "running" => state'[u] = "running"
    BY <2>1, <1>1
    DEF schedOwn, queueVars, taskVars, RunInv, BaseInv, TypeOK, RunQueueExact,
        RunnableIsQueued, NoDoubleAdd, OnList, Asleep
  <2> QED BY <2>1, <2>2, <1>2, TokenQuiet
\* The announcement finds the counter 0, so that nothing is asked of who is awake.
<1>7. ASSUME NEW t \in Tasks, WaitSlow(t) \/ WaitAgain(t) PROVE TokenInv'
  <2>1. /\ t = curr /\ pc[t] = "run" /\ counter' = 0 /\ Announce(t) /\ t \notin ToSet(compWaits)
        /\ UNCHANGED <<curr, queueVars, queued, resched, slice, listerr>>
    <3>1. t = curr /\ pc[t] = "run"
      BY <1>7 DEF WaitSlow, WaitAgain, CompFree, CompBack
    <3>2. t \notin ToSet(compWaits)
      BY <3>1, <1>1 DEF QueueInv, Asleep
    <3> QED BY <3>1, <3>2, <1>7 DEF WaitSlow, WaitAgain
  <2>2. RunInv'
    BY <2>1, <1>1, AnnounceRun
  <2>3. /\ \A u \in Tasks : Asleep(u) => Asleep(u)'
        /\ Asleep(t)'
    BY <2>1, <1>1 DEF Announce, Asleep, RunInv, BaseInv, TypeOK
  <2>4. QueueInv'
    <3>1. CASE WaitAgain(t)
      <4>1. UNCHANGED <<compWaits, compNode, compAt>>
        BY <3>1 DEF WaitAgain
      <4> QED BY <4>1, <2>2, <2>3, <1>1, <1>2 DEF QueueInv
    <3>2. CASE WaitSlow(t)
      <4>1. /\ compWaits' = Append(compWaits, t)
            /\ compNode' = [compNode EXCEPT ![t] = "linked"]
            /\ compAt' = [compAt EXCEPT ![t] = "wait"]
        BY <3>2 DEF WaitSlow
      <4>2. /\ compWaits' \in Seq(Tasks) /\ IsInjective(compWaits')
            /\ ToSet(compWaits') = ToSet(compWaits) \cup {t}
        BY <4>1, <2>1, <1>1, ListAddPrev
      <4>3. \A u \in ToSet(compWaits') :
              compAt'[u] = "wait" /\ compNode'[u] = "linked" /\ Asleep(u)'
        BY <4>1, <4>2, <2>3, <1>1 DEF QueueInv, CompInv
      <4>4. compNode' \in [Tasks -> {"none", "linked", "poisoned"}]
        BY <4>1, <1>1 DEF QueueInv
      <4> QED BY <4>2, <4>3, <4>4, <2>2, <1>2 DEF QueueInv
    <3> QED BY <1>7, <3>1, <3>2
  <2>5. Cardinality(Awake') \in Nat
    <3>1. Awake' \subseteq Tasks
      BY DEF Awake
    <3> QED BY <3>1, CompAssumption, FS_Subset, FS_CardinalityType
  <2> QED BY <2>1, <2>4, <2>5 DEF TokenInv, NoTokenForgotten
<1>8. ASSUME NEW t \in Tasks, WaitDone(t) PROVE TokenInv'
  <2>1. /\ t = curr /\ pc[t] = "run" /\ counter # 0 /\ counter' = Consume
        /\ compAt' = [compAt EXCEPT ![t] = "out"]
        /\ UNCHANGED <<schedOwn, compWaits, compNode>>
    BY <1>8 DEF WaitDone, CompBack
  <2>2. t \notin ToSet(compWaits)
    BY <2>1, <1>1 DEF QueueInv, Asleep
  <2>3. QueueInv'
    <3>1. \A u \in ToSet(compWaits) : compAt'[u] = compAt[u]
      BY <2>1, <2>2, <1>1 DEF CompInv
    <3> QED BY <3>1, <2>1, <1>1, <1>2
        DEF schedOwn, queueVars, taskVars, QueueInv, RunInv, BaseInv, TypeOK, RunQueueExact,
            RunnableIsQueued, NoDoubleAdd, OnList, Asleep
  <2>4. ASSUME compWaits # <<>> PROVE counter' <= Cardinality(Awake')
    <3>1. Awake' = Awake \ {t}
      BY <2>1, <1>1 DEF Awake, CompInv, schedOwn, taskVars
    <3>2. /\ Cardinality(Awake) \in Nat /\ counter <= Cardinality(Awake)
          /\ Cardinality(Awake') >= Cardinality(Awake) - 1 /\ Cardinality(Awake') \in Nat
      BY <3>1, <2>4, <1>1, AwakeFinite, FS_RemoveElement DEF NoTokenForgotten
    \* Whoever stands in the queue is not awake, so that not all tasks are.
    <3>3. Cardinality(Awake) < Cardinality(Tasks) /\ Cardinality(Tasks) \in Nat
      <4>1. Head(compWaits) \in ToSet(compWaits) /\ Head(compWaits) \in Tasks
        BY <2>4, <1>1, ListFirst
      <4>2. Awake \subseteq Tasks /\ Awake # Tasks
        BY <4>1, <1>1 DEF Awake, QueueInv
      <4> QED BY <4>2, CompAssumption, FS_Subset, FS_CardinalityType, <3>2
    <3>4. counter # CompForever
      BY <3>2, <3>3, <1>1
    <3> QED BY <3>2, <3>4, <2>1, <1>1 DEF Consume
  <2> QED BY <2>1, <2>3, <2>4 DEF TokenInv, NoTokenForgotten
<1>9. ASSUME NEW t \in Tasks, CompSleepTimed(t) \/ WaitTimedOut(t) \/ CompExpire(t)
      PROVE  FALSE
  BY <1>1, <1>9 DEF CompSleepTimed, WaitTimedOut, CompExpire
<1>10. ASSUME CompNext,
              CompResched \/ CompSchedRest \/ \E t \in Tasks : CompSleepForever(t)
       PROVE  TokenInv'
  <2>1. /\ "broken" \notin listerr /\ UNCHANGED compVars
        /\ \/ Resched \/ IdleResched \/ ReschedAgain \/ ReschedDone \/ PreemptIrq
           \/ Tick \/ EnterIdle \/ Yield \/ \E t \in Tasks : Clone(t)
    BY <1>10 DEF CompNext, CompResched, CompSchedRest, CompSleepForever
  <2> QED BY <2>1, <1>4
<1> QED BY <1>3, <1>5, <1>6, <1>7, <1>8, <1>9, <1>10 DEF CompNext

\* completion.c:11-31 and 50-70, without timeouts: no completion is lying about
\* while a task stands in the queue for it, for any number of tasks, either
\* class, and any mix of complete_one and complete_all.  The count must not
\* reach complete_all's (UINT_MAX) one by one: then the tasks are fewer.
THEOREM TokensAreClaimed ==
  ASSUME ~Preempt, ~EarlyIrq, CompTimed = {}, Cardinality(Tasks) <= CompForever
  PROVE  CompSpec => []NoTokenForgotten
<1>1. TokenInv => NoTokenForgotten
  BY DEF TokenInv
<1>2. TokenInv /\ [CompNext]_compAllVars => TokenInv'
  BY TokenStep
<1> QED BY <1>1, <1>2, TokenStarts, PTL DEF CompSpec

\* And no entry of the run queue is added twice, by complete_all's many wakeups
\* neither.
THEOREM CompletersAddOnce ==
  ASSUME ~Preempt, ~EarlyIrq, CompTimed = {}, Cardinality(Tasks) <= CompForever
  PROVE  CompSpec => [](NoDoubleAdd /\ RunQueueExact /\ RunnableIsQueued)
<1>1. TokenInv => NoDoubleAdd /\ RunQueueExact /\ RunnableIsQueued
  BY DEF TokenInv, QueueInv, RunInv
<1>2. TokenInv /\ [CompNext]_compAllVars => TokenInv'
  BY TokenStep
<1> QED BY <1>1, <1>2, TokenStarts, PTL DEF CompSpec

-----------------------------------------------------------------------------
(* Types *)

LEMMA SoftTypesStep == SoftInv /\ SoftTypeOK /\ [SoftNext]_softVars => SoftTypeOK'
<1> SUFFICES ASSUME SoftInv, SoftTypeOK, [SoftNext]_softVars PROVE SoftTypeOK'
  OBVIOUS
<1> USE DEF SoftTypeOK
<1>1. ASSUME NEW s \in SoftIrqs,
             \/ softirq_pending(s) \/ softirq_clear(s) \/ softirq_register(s)
             \/ UnregisterClear(s) \/ UnregisterFree(s)
      PROVE  SoftTypeOK'
  BY <1>1 DEF softirq_pending, softirq_clear, softirq_register, UnregisterClear, UnregisterFree
<1>2. CASE hardirq_entry
  BY <1>2 DEF hardirq_entry
<1>3. CASE hardirq_exit
  <2>1. loops' \in Seq(SoftIrqs \cup {NoSoftirq})
    BY <1>3 DEF hardirq_exit
  <2> QED BY <1>3, <2>1 DEF hardirq_exit
<1>4. CASE Turn
  <2>1. Len(loops) \in DOMAIN loops
    BY <1>4 DEF Turn, Looping
  <2>2. Lowest \in softPending
    <3>1. softPending \subseteq Nat /\ softPending # {}
      BY <1>4, SoftirqAssumption DEF Turn
    <3>2. \E s \in softPending : \A r \in softPending : s <= r
      BY <3>1, MinNat
    <3> QED BY <3>2 DEF Lowest
  <2>3. loops' \in Seq(SoftIrqs \cup {NoSoftirq})
    BY <1>4, <2>1, <2>2 DEF Turn
  <2> QED BY <1>4, <2>3 DEF Turn
<1>5. CASE Return
  BY <1>5 DEF Return, Looping
<1>6. CASE LoopEnd
  <2>1. Len(loops) - 1 \in 0 .. Len(loops)
    BY <1>6 DEF LoopEnd, Looping
  <2>2. loops' \in Seq(SoftIrqs \cup {NoSoftirq})
    BY <1>6, <2>1 DEF LoopEnd
  <2> QED BY <1>6, <2>2 DEF LoopEnd
<1>7. CASE UNCHANGED softVars
  BY <1>7 DEF softVars
<1> QED BY <1>1, <1>2, <1>3, <1>4, <1>5, <1>6, <1>7 DEF SoftNext

\* The queue of the completion holds tasks, whoever links and wakes them.
CompTypes ==
  /\ CompInv
  /\ compWaits \in Seq(Tasks)
  /\ compNode \in [Tasks -> {"none", "linked", "poisoned"}]

LEMMA CompTypesStart == CompInit => CompTypes
BY CompStarts DEF CompInit, CompTypes

LEMMA CompTypesStep == CompTypes /\ [CompNext]_compAllVars => CompTypes'
<1> SUFFICES ASSUME CompTypes, [CompNext]_compAllVars PROVE CompTypes'
  OBVIOUS
<1>1. CompInv /\ CompInv'
  BY CompStep DEF CompTypes
<1>2. /\ compWaits \in Seq(Tasks)
      /\ compNode \in [Tasks -> {"none", "linked", "poisoned"}]
  BY DEF CompTypes
<1>3. CASE UNCHANGED <<compWaits, compNode>>
  BY <1>1, <1>2, <1>3 DEF CompTypes
<1>4. ASSUME NEW t \in Tasks, WaitSlow(t) PROVE CompTypes'
  <2>1. /\ compWaits' \in Seq(Tasks)
        /\ compNode' \in [Tasks -> {"none", "linked", "poisoned"}]
    BY <1>2, <1>4 DEF WaitSlow
  <2> QED BY <1>1, <2>1 DEF CompTypes
<1>5. CASE complete_one \/ complete_all
  <2>1. CASE UNCHANGED <<compWaits, compNode>>
    BY <1>3, <2>1
  <2>2. CASE WakeFirst /\ compWaits # <<>>
    <3>1. Head(compWaits) \in Tasks /\ Tail(compWaits) \in Seq(Tasks)
      BY <1>2, <2>2
    <3>2. compWaits' = Tail(compWaits)
          /\ compNode' = [compNode EXCEPT ![Head(compWaits)] = "poisoned"]
      BY <2>2 DEF WakeFirst
    <3> QED BY <1>1, <1>2, <3>1, <3>2 DEF CompTypes
  <2>3. CASE /\ compWaits' = <<>>
             /\ compNode' = [t \in Tasks |-> IF t \in ToSet(compWaits) THEN "poisoned"
                                             ELSE compNode[t]]
    BY <1>1, <1>2, <2>3 DEF CompTypes
  <2> QED BY <1>5, <2>1, <2>2, <2>3 DEF complete_one, complete_all, WakeFirst, WakeAll
<1>6. CASE CompResched \/ CompSchedRest
  BY <1>3, <1>6 DEF CompResched, CompSchedRest, compVars, waitVars
<1>7. ASSUME NEW t \in Tasks,
             \/ WaitFast(t) \/ CompSleepForever(t) \/ CompSleepTimed(t)
             \/ WaitDone(t) \/ WaitAgain(t) \/ WaitTimedOut(t) \/ CompExpire(t)
      PROVE  UNCHANGED <<compWaits, compNode>>
  BY <1>7 DEF WaitFast, CompSleepForever, CompSleepTimed, WaitDone, WaitAgain, WaitTimedOut,
              CompExpire, compVars, waitVars
<1>8. UNCHANGED compAllVars => UNCHANGED <<compWaits, compNode>>
  BY DEF compAllVars, compVars, waitVars
<1> QED
  BY <1>3, <1>4, <1>5, <1>6, <1>7, <1>8 DEF CompNext, CompleteByTask, CompleteByIrq

\* Side by side over one scheduler, of which none of the three needs anything
\* here: what it does to the tasks disturbs nobody's own variables.
SyncInv == SemInv /\ CompTypes /\ SoftInv /\ SoftTypeOK

LEMMA SyncStarts == SyncInit => SyncInv
<1> SUFFICES ASSUME SyncInit PROVE SyncInv
  OBVIOUS
<1>1. SoftInv /\ SoftTypeOK
  <2>1. SoftInit
    BY DEF SyncInit
  <2>2. SoftInv
    BY <2>1 DEF SoftInit, SoftInv, RaiseKept
  <2>3. loops \in Seq(SoftIrqs \cup {NoSoftirq})
    BY <2>1 DEF SoftInit
  <2> QED BY <2>1, <2>2, <2>3 DEF SoftInit, SoftTypeOK
<1> QED BY <1>1, SemInitInv, CompTypesStart DEF SyncInit, SyncInv

LEMMA SyncStep == SyncInv /\ [SyncNext]_syncVars => SyncInv'
<1> SUFFICES ASSUME SyncInv, [SyncNext]_syncVars PROVE SyncInv'
  OBVIOUS
<1>1. /\ SemNext \/ UNCHANGED semVars
      /\ CompNext \/ UNCHANGED compVars
      /\ [SoftNext]_softVars
  BY DEF SyncNext, syncVars
<1>2. SemInv'
  <2>1. CASE SemNext
    BY <2>1, SemStepInv DEF SyncInv
  <2>2. CASE UNCHANGED semVars
    BY <2>2 DEF SyncInv, SemInv, SemTypeOK, NoBarging, WaitersExact, semVars
  <2> QED BY <1>1, <2>1, <2>2
<1>3. CompTypes'
  <2>1. CASE CompNext
    BY <2>1, CompTypesStep DEF SyncInv
  <2>2. CASE UNCHANGED compVars
    BY <2>2 DEF SyncInv, CompTypes, CompInv, compVars, waitVars
  <2> QED BY <1>1, <2>1, <2>2
<1>4. SoftInv' /\ SoftTypeOK'
  BY <1>1, SoftStep, SoftTypesStep DEF SyncInv
<1> QED BY <1>2, <1>3, <1>4 DEF SyncInv

\* The variables of every instance keep their types.
THEOREM SyncTypesHold == SyncSpec => []SyncTypeOK
<1>1. SyncInv => SyncTypeOK
  BY DEF SyncInv, SyncTypeOK, SemInv, CompTypes, CompInv, CompTypeOK
<1> QED BY <1>1, SyncStarts, SyncStep, PTL DEF SyncSpec

=============================================================================
