----------------------------- MODULE Completion ------------------------------
(***************************************************************************)
(* kernel/sched/completion.c and the wait queue of waitqueue.c over the    *)
(* scheduler of one CPU (module Sched).  The queue's spin lock turns       *)
(* interrupts off, so what it protects is one step; a waiter is in         *)
(* sched_timeout between two such steps.                                   *)
(*                                                                         *)
(* A waiter's node is on its stack.  The waker takes it off with list_del, *)
(* which poisons it, and waitqueue_wait_prepare_locked links only a node   *)
(* that is empty: a waiter that was woken and must wait again stays        *)
(* unlinked.  A waiter that returns by itself leaves its node behind; what *)
(* the dead frame holds is taken to be intact, as in Semaphore.            *)
(***************************************************************************)
EXTENDS Sched

CONSTANTS
  CompTimed,  \* the tasks that call completion_wait_timeout
  CompForever \* UINT_MAX: the counter value of complete_all

ASSUME CompAssumption ==
  CompTimed \subseteq Tasks /\ CompForever \in Nat \ {0} /\ IsFiniteSet(Tasks)

VARIABLES
  counter,    \* comp->counter
  compWaits,  \* comp->queue.waits: the tasks of the nodes, first come first
  compNode,   \* a waiter's node: "linked" or "poisoned"; "none" before
  compAt,     \* "out" or "wait": inside common_wait
  compLate,   \* the timeout has come down to 0
  compTimers, \* the tasks with a timer in the wheel for the present sleep
  compStale   \* the tasks with a timer left in the wheel by an earlier sleep

waitVars   == <<compNode, compAt, compLate, compTimers, compStale>>
compVars   == <<counter, compWaits, waitVars>>
schedOwn   == <<curr, queueVars, taskVars, pc, listerr>>
compAllVars == <<schedOwn, compVars>>

CompTypeOK ==
  /\ counter    \in 0 .. CompForever
  /\ compWaits  \in Seq(Tasks)
  /\ compNode   \in [Tasks -> {"none", "linked", "poisoned"}]
  /\ compAt     \in [Tasks -> {"out", "wait"}]
  /\ compLate   \in [Tasks -> BOOLEAN]
  /\ compTimers \subseteq CompTimed
  /\ compStale  \subseteq CompTimed

-----------------------------------------------------------------------------
(* completion_wait, completion_wait_timeout *)

CompFree(t) == t = curr /\ pc[t] = "run" /\ compAt[t] = "out"

\* Mutant: complete_all's count is used up like any other.
Consume_always == counter - 1
Consume == IF counter # CompForever THEN counter - 1 ELSE counter

\* Nothing to wait for.
WaitFast(t) ==
  /\ CompFree(t)
  /\ counter # 0
  /\ counter' = Consume
  /\ UNCHANGED <<schedOwn, compWaits, waitVars>>

\* waitqueue_wait_state_locked with a node that DEFINE_WAITQUEUE has just made
\* empty: it is linked, at the tail.  An older node of the same call that is
\* still linked lay in the same place: the list is broken then.
WaitSlow(t) ==
  /\ CompFree(t)
  /\ counter = 0
  /\ Announce(t)
  /\ compWaits' = Append(compWaits, t)
  /\ listerr'   = IF t \in ToSet(compWaits) THEN listerr \cup {"broken"} ELSE listerr
  /\ compNode'  = [compNode EXCEPT ![t] = "linked"]
  /\ compAt'    = [compAt EXCEPT ![t] = "wait"]
  /\ compLate'  = [compLate EXCEPT ![t] = FALSE]
  /\ UNCHANGED <<curr, queueVars, queued, resched, slice, counter, compTimers, compStale>>

\* sched_timeout(TTIME_MAX) is sched_yield ...
CompSleepForever(t) ==
  /\ t = curr /\ pc[t] = "sleep"
  /\ t \notin CompTimed
  /\ Yield
  /\ UNCHANGED compVars

\* ... and with a timeout it starts a timer and reschedules.
CompSleepTimed(t) ==
  /\ t = curr /\ pc[t] = "sleep"
  /\ t \in CompTimed
  /\ compTimers' = compTimers \cup {t}
  /\ Resched
  /\ UNCHANGED <<counter, compWaits, compNode, compAt, compLate, compStale>>

\* A task that is back from sched_timeout leaves the timer behind.
CompLeaveTimer(t) ==
  /\ compTimers' = compTimers \ {t}
  /\ compStale'  = IF t \in compTimers THEN compStale \cup {t} ELSE compStale

CompBack(t) == t = curr /\ pc[t] = "run" /\ compAt[t] = "wait"

\* The loop ends with a completion to consume.
WaitDone(t) ==
  /\ CompBack(t)
  /\ counter # 0
  /\ counter' = Consume
  /\ compAt'  = [compAt EXCEPT ![t] = "out"]
  /\ CompLeaveTimer(t)
  /\ UNCHANGED <<schedOwn, compWaits, compNode, compLate>>

\* Somebody else was faster, or the wakeup was not for it: once more.  The
\* node is linked still or poisoned, in neither case empty.
WaitAgain(t) ==
  /\ CompBack(t)
  /\ counter = 0 /\ ~compLate[t]
  /\ Announce(t)
  /\ CompLeaveTimer(t)
  /\ UNCHANGED <<curr, queueVars, queued, resched, slice, listerr,
                 counter, compWaits, compNode, compAt, compLate>>

\* Mutant: it leaves whatever the counter is.
WaitTimedOut_blind(t) ==
  /\ CompBack(t)
  /\ compLate[t]
  /\ compAt' = [compAt EXCEPT ![t] = "out"]
  /\ CompLeaveTimer(t)
  /\ UNCHANGED <<schedOwn, counter, compWaits, compNode, compLate>>

\* No time left: out, the node where it is.
WaitTimedOut(t) ==
  /\ CompBack(t)
  /\ counter = 0 /\ compLate[t]
  /\ compAt' = [compAt EXCEPT ![t] = "out"]
  /\ CompLeaveTimer(t)
  /\ UNCHANGED <<schedOwn, counter, compWaits, compNode, compLate>>

-----------------------------------------------------------------------------
(* complete_one, complete_all *)

\* waitqueue_wakeup_one_locked.
WakeFirst ==
  IF compWaits = <<>> THEN UNCHANGED <<schedOwn, compWaits, compNode>>
  ELSE /\ running < MaxRunning
       /\ compWaits' = Tail(compWaits)
       /\ compNode'  = [compNode EXCEPT ![Head(compWaits)] = "poisoned"]
       /\ WakeEffect(Head(compWaits))

\* Mutant: the waiters are woken, all but the last.
WakeAll_butlast ==
  /\ compWaits' = IF compWaits = <<>> THEN compWaits ELSE <<Last(compWaits)>>
  /\ compNode'  = [t \in Tasks |-> IF t \in ToSet(Front(compWaits)) THEN "poisoned" ELSE compNode[t]]
  /\ list'      = list \o Front(compWaits)
  /\ running'   = running + Len(Front(compWaits))
  /\ bitmap'    = (bitmap \/ Front(compWaits) # <<>>)
  /\ queued'    = [t \in AllTasks |-> queued[t] \/ t \in ToSet(Front(compWaits))]
  /\ state'     = [t \in AllTasks |-> IF t \in ToSet(Front(compWaits)) THEN "running" ELSE state[t]]
  /\ resched'   = IF Front(compWaits) = <<>> THEN resched ELSE FlagCurr(resched)
  /\ UNCHANGED <<curr, slice, pc, listerr>>

\* waitqueue_wakeup_all_locked: sched_wake_up of one after the other.  A node
\* of a task that is on the run queue is a dead one; what linking that task
\* again and more after it makes of the lists is not followed.
WakeAll ==
  IF \E t \in ToSet(compWaits) : OnList(t)
  THEN /\ listerr' = listerr \cup {"broken"}
       /\ UNCHANGED <<curr, queueVars, taskVars, pc, compWaits, compNode>>
  ELSE /\ running + Len(compWaits) <= MaxRunning
       /\ compWaits' = <<>>
       /\ compNode'  = [t \in Tasks |-> IF t \in ToSet(compWaits) THEN "poisoned" ELSE compNode[t]]
       /\ list'      = list \o compWaits
       /\ running'   = running + Len(compWaits)
       /\ bitmap'    = (bitmap \/ compWaits # <<>>)
       /\ queued'    = [t \in AllTasks |-> queued[t] \/ t \in ToSet(compWaits)]
       /\ state'     = [t \in AllTasks |-> IF t \in ToSet(compWaits) THEN "running" ELSE state[t]]
       /\ resched'   = IF compWaits = <<>> THEN resched ELSE FlagCurr(resched)
       /\ UNCHANGED <<curr, slice, pc, listerr>>

\* Mutant: the counter is raised and nobody is woken.
complete_one_silent ==
  /\ counter' = IF counter # CompForever THEN counter + 1 ELSE counter
  /\ UNCHANGED <<schedOwn, compWaits, waitVars>>

complete_one ==
  /\ counter' = IF counter # CompForever THEN counter + 1 ELSE counter
  /\ WakeFirst
  /\ UNCHANGED <<compAt, compLate, compTimers, compStale>>

complete_all ==
  /\ counter' = CompForever
  /\ WakeAll
  /\ UNCHANGED <<compAt, compLate, compTimers, compStale>>

CompleteByTask ==
  /\ InTask /\ (curr # Idle => compAt[curr] = "out")
  /\ complete_one \/ complete_all

\* From an interrupt, which, as in Sched, finds a waiter that has announced
\* its sleep and not left yet only with EarlyIrq.
CompleteByIrq ==
  /\ \A t \in ToSet(compWaits) : queued[t] /\ state[t] = "blocked" => EarlyIrq
  /\ complete_one \/ complete_all

\* timeout_wakeup, from the present timer or from one left behind.
CompExpire(t) ==
  /\ t \in compTimers \cup compStale
  /\ queued[t] /\ state[t] = "blocked" => EarlyIrq
  /\ running < MaxRunning
  /\ \/ /\ t \in compTimers
        /\ compTimers' = compTimers \ {t}
        /\ compLate'   = [compLate EXCEPT ![t] = TRUE]
        /\ UNCHANGED compStale
     \/ /\ t \in compStale
        /\ compStale' = compStale \ {t}
        /\ UNCHANGED <<compTimers, compLate>>
  /\ WakeEffect(t)
  /\ UNCHANGED <<counter, compWaits, compNode, compAt>>

-----------------------------------------------------------------------------
(* Specification *)

CompInit ==
  /\ Init
  /\ counter    = 0
  /\ compWaits  = <<>>
  /\ compNode   = [t \in Tasks |-> "none"]
  /\ compAt     = [t \in Tasks |-> "out"]
  /\ compLate   = [t \in Tasks |-> FALSE]
  /\ compTimers = {}
  /\ compStale  = {}

\* sched_resched behind task_yield, or called by a task outside of common_wait.
CompResched ==
  /\ pc[curr] = "yield" \/ (curr # Idle /\ CompFree(curr))
  /\ Resched
  /\ UNCHANGED compVars

CompSchedRest ==
  /\ \/ IdleResched \/ ReschedAgain \/ ReschedDone \/ PreemptIrq \/ Tick
     \/ EnterIdle
     \/ \E t \in Tasks : Clone(t)
  /\ UNCHANGED compVars

CompNext ==
  /\ "broken" \notin listerr
  /\ \/ CompResched
     \/ CompSchedRest
     \/ CompleteByTask
     \/ CompleteByIrq
     \/ \E t \in Tasks :
          \/ WaitFast(t) \/ WaitSlow(t)
          \/ CompSleepForever(t) \/ CompSleepTimed(t)
          \/ WaitDone(t) \/ WaitAgain(t) \/ WaitTimedOut(t)
          \/ CompExpire(t)

CompSpec == CompInit /\ [][CompNext]_compAllVars

\* As SemFairness: the tick, finite kernel code, a cooperative kernel.
CompFairness ==
  /\ WF_compAllVars(Tick /\ UNCHANGED compVars)
  /\ WF_compAllVars((IdleResched \/ ReschedAgain \/ EnterIdle) /\ UNCHANGED compVars)
  /\ WF_compAllVars(CompResched)
  /\ \A t \in AllTasks : SF_compAllVars(curr = t /\ ReschedDone /\ UNCHANGED compVars)
  /\ \A t \in Tasks :
       WF_compAllVars(CompSleepForever(t) \/ CompSleepTimed(t) \/ WaitDone(t)
                      \/ WaitAgain(t) \/ WaitTimedOut(t))

CompFairSpec == CompSpec /\ CompFairness

-----------------------------------------------------------------------------
(* Properties *)

\* Waiters that were woken and have not looked at the counter yet.
Awake == {t \in Tasks : /\ compAt[t] = "wait" /\ compNode[t] = "poisoned"
                        /\ state[t] = "running"}

\* No completion is left lying about while a task stands in the queue for it:
\* each one that is not consumed has a woken waiter that is going to look.  A
\* task that takes one on the fast path (completion.c:15 does not look at the
\* queue) may rob a woken waiter, never a queued one.
NoTokenForgotten ==
  compWaits # <<>> => counter <= Cardinality(Awake)

\* A waiter that was woken, found the counter empty and sleeps again, with a
\* node that no waker will find (waitqueue.c:13 tests a poisoned node).
Stranded(t) == compAt[t] = "wait" /\ compNode[t] = "poisoned" /\ state[t] = "blocked"

\* complete_all releases everybody but those who were robbed before it.
AllReleased ==
  \A t \in Tasks : counter = CompForever /\ compAt[t] = "wait" /\ ~Stranded(t)
                     ~> compAt[t] = "out"

CompAbs == INSTANCE AbsCompletion WITH
             CUsers <- Tasks, CImpatient <- CompTimed, CForever <- CompForever,
             posts <- counter, inside <- {t \in Tasks : compAt[t] = "wait"}

\* Completions are counted: none is lost, none is used twice, and a timeout is
\* reported only when there is none.
IsCompletion == CompAbs!AbsCompSpec

=============================================================================
