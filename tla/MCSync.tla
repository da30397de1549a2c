------------------------------- MODULE MCSync --------------------------------
(***************************************************************************)
(* Small instances of what runs over the scheduler: the semaphore, the     *)
(* completion, and, next to them, the softirqs of the same CPU.  The one   *)
(* in focus is used; the tasks of the other stay outside of it.            *)
(***************************************************************************)
EXTENDS Semaphore, Completion, Softirq

CONSTANTS t1, t2, t3

ThreeTasks == {t1, t2, t3}
TwoTasks   == {t1, t2}
NoTasks    == {}

VARIABLE focus

syncVars == <<focus, schedVars, semVars, compVars, softVars>>

SyncInit ==
  /\ SemInit /\ CompInit /\ SoftInit
  /\ focus \in {"semaphore", "completion", "softirq"}
  /\ focus # "semaphore" => count = 0

SyncNext ==
  /\ UNCHANGED focus
  /\ \/ focus = "semaphore"  /\ SemNext  /\ UNCHANGED <<compVars, softVars>>
     \/ focus = "completion" /\ CompNext /\ UNCHANGED <<semVars, softVars>>
     \/ focus = "softirq"    /\ SoftNext /\ UNCHANGED <<schedVars, semVars, compVars>>

SyncSpec == SyncInit /\ [][SyncNext]_syncVars

-----------------------------------------------------------------------------
(* SemFairness, CompFairness and SoftFairness, each where it is in focus;  *)
(* what the first two ask of the scheduler is the same.                    *)

Others == UNCHANGED <<focus, semVars, compVars, softVars>>
AtRest  == UNCHANGED <<focus, schedVars, semVars, compVars>>
Tasking == focus # "softirq"

SleepsOrReturns(t) ==
  \/ /\ focus = "semaphore"
     /\ SleepForever(t) \/ SleepTimed(t) \/ Served(t) \/ Again(t) \/ TimedOut(t)
     /\ UNCHANGED <<focus, compVars, softVars>>
  \/ /\ focus = "completion"
     /\ \/ CompSleepForever(t) \/ CompSleepTimed(t) \/ WaitDone(t)
        \/ WaitAgain(t) \/ WaitTimedOut(t)
     /\ UNCHANGED <<focus, semVars, softVars>>

SyncFairness ==
  /\ WF_syncVars(Tasking /\ Tick /\ Others)
  /\ WF_syncVars(Tasking /\ (IdleResched \/ ReschedAgain \/ EnterIdle) /\ Others)
  /\ WF_syncVars(\/ focus = "semaphore" /\ SemResched /\ Others
                 \/ focus = "completion" /\ CompResched /\ Others)
  /\ \A t \in AllTasks : SF_syncVars(Tasking /\ curr = t /\ ReschedDone /\ Others)
  /\ \A t \in Tasks : WF_syncVars(SleepsOrReturns(t))
  /\ WF_syncVars(focus = "softirq" /\ hardirq_exit /\ AtRest)
  /\ WF_syncVars(focus = "softirq" /\ hardirq_entry /\ AtRest)
  /\ WF_syncVars(focus = "softirq" /\ Turn /\ AtRest)
  /\ WF_syncVars(focus = "softirq" /\ LoopEnd /\ AtRest)
  /\ SF_syncVars(focus = "softirq" /\ Return /\ AtRest)

SyncFairSpec == SyncSpec /\ SyncFairness

\* Types, of every instance.
SyncTypeOK == SemTypeOK /\ CompTypeOK /\ SoftTypeOK

=============================================================================
