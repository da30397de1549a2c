-------------------------------- MODULE Mutex --------------------------------
(***************************************************************************)
(* kernel/lock/mutex.c on one processor.  Every mutex of the sources is    *)
(* zeroed before its first use, and the second trylock of                  *)
(* mutex_common_lock answers non-NULL whatever the first one did, because  *)
(* preemption is off from the one to the other: the waiter list and the    *)
(* three flags are never reached, and the owner word is a task or nothing. *)
(***************************************************************************)
EXTENDS Naturals, FiniteSets

CONSTANTS
  MutexTasks,   \* tasks that use the mutex
  MutexLockers, \* those that call mutex_lock; the others call mutex_trylock
  NoOwner       \* owner 0

ASSUME MutexAssumption ==
  /\ MutexLockers \subseteq MutexTasks
  /\ NoOwner \notin MutexTasks

VARIABLES
  owner,   \* mutex->owner
  place,   \* "out", "slow" behind a failed mutex_fast_lock, "in" between a
           \* call that reported success and the unlock, "unlock" in the loop
           \* of mutex_slowpath_unlock
  expected, \* the owner word that loop has read
  crossed  \* history: some task has been through mutex_common_lock

mutexVars == <<owner, place, expected, crossed>>

MutexTypeOK ==
  /\ owner    \in MutexTasks \cup {NoOwner}
  /\ place    \in [MutexTasks -> {"out", "slow", "in", "unlock"}]
  /\ expected \in [MutexTasks -> MutexTasks \cup {NoOwner}]
  /\ crossed  \in BOOLEAN

MutexInit ==
  /\ owner = NoOwner
  /\ place = [t \in MutexTasks |-> "out"]
  /\ expected = [t \in MutexTasks |-> NoOwner]
  /\ crossed = FALSE

-----------------------------------------------------------------------------

\* The owner the word holds after a task's attempt to take it.  Mutant: a lock
\* word written without the comparison.
Taken_blind(t) == t
Taken(t) == IF owner = NoOwner THEN t ELSE owner

\* mutex_lock: the fast channel, or the way to the slow one.
mutex_lock(t) ==
  /\ t \in MutexLockers /\ place[t] = "out"
  /\ owner' = Taken(t)
  /\ place' = [place EXCEPT ![t] = IF owner = NoOwner THEN "in" ELSE "slow"]
  /\ UNCHANGED <<expected, crossed>>

\* mutex_common_lock, with preemption off throughout: a first trylock that
\* fails is taken for success; one that succeeds makes the second one fail,
\* which is taken for success too.
mutex_common_lock(t) ==
  /\ place[t] = "slow"
  /\ owner' = Taken(t)
  /\ place' = [place EXCEPT ![t] = "in"]
  /\ crossed' = TRUE
  /\ UNCHANGED expected

\* Mutant: the answer of mutex_common_trylock without the negation.
mutex_trylock_positive(t) ==
  /\ t \notin MutexLockers /\ place[t] = "out"
  /\ owner' = Taken(t)
  /\ place' = IF owner = NoOwner THEN place ELSE [place EXCEPT ![t] = "in"]
  /\ UNCHANGED <<expected, crossed>>
mutex_trylock(t) ==
  /\ t \notin MutexLockers /\ place[t] = "out"
  /\ owner' = Taken(t)
  /\ place' = IF owner = NoOwner THEN [place EXCEPT ![t] = "in"] ELSE place
  /\ UNCHANGED <<expected, crossed>>

\* mutex_unlock: the fast channel, or the first read of the slow one.
mutex_unlock(t) ==
  /\ place[t] = "in"
  /\ IF owner = t
     THEN /\ owner' = NoOwner
          /\ place' = [place EXCEPT ![t] = "out"]
          /\ UNCHANGED expected
     ELSE /\ place' = [place EXCEPT ![t] = "unlock"]
          /\ expected' = [expected EXCEPT ![t] = owner]
          /\ UNCHANGED owner
  /\ UNCHANGED crossed

\* One turn of the loop of mutex_slowpath_unlock: the compare-and-exchange of
\* the word for its flags, which are none, or the fresh word for another turn.
mutex_slowpath_unlock(t) ==
  /\ place[t] = "unlock"
  /\ IF owner = expected[t]
     THEN /\ owner' = NoOwner
          /\ place' = [place EXCEPT ![t] = "out"]
          /\ UNCHANGED expected
     ELSE /\ expected' = [expected EXCEPT ![t] = owner]
          /\ UNCHANGED <<owner, place>>
  /\ UNCHANGED crossed

MutexNext ==
  \E t \in MutexTasks :
    \/ mutex_lock(t)
    \/ mutex_common_lock(t)
    \/ mutex_trylock(t)
    \/ mutex_unlock(t)
    \/ mutex_slowpath_unlock(t)

MutexSpec == MutexInit /\ [][MutexNext]_mutexVars

-----------------------------------------------------------------------------
(* Properties *)

Inside == {t \in MutexTasks : place[t] = "in"}

\* Lock the mutex exclusively for this task (mutex.c:274): never two tasks
\* between a successful lock and their unlock.
MutexExclusive == \A t, u \in Inside : t = u

\* A mutex nobody is inside of is free: with mutex_common_lock admitting tasks
\* that do not own it and their unlock clearing whoever does, the word still
\* never names a task that has left.
OwnerIsInside == owner # NoOwner => owner \in Inside

\* Until a task meets a held mutex and goes the slow way, the fast channel and
\* trylock do exclude: every task inside owns the word.
FastPathExclusive == ~crossed => \A t \in Inside : owner = t

=============================================================================
