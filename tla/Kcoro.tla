-------------------------------- MODULE Kcoro --------------------------------
(***************************************************************************)
(* kernel/kcoro.c: coroutines that share one kernel task.  A worker keeps  *)
(* its works in two trees, ready by virtual time and blocked by timeout,   *)
(* and caches in mvtime the least virtual time that is ready.  All of it   *)
(* runs in the worker's task: only ticktime moves by itself.               *)
(***************************************************************************)
EXTENDS Integers, SequencesExt

CONSTANTS
  Works,        \* struct kcoro_work, to be allocated and freed
  NoWork,       \* NULL
  CoroSlices,   \* what a turn on the CPU may add to vtime
  CoroNaps,     \* arguments of kcoro_tsleep
  CoroForever,  \* KTIME_MAX
  CoroMaxVtime, \* bound on vtime
  CoroMaxTick   \* bound on ticktime

ASSUME CoroAssumption ==
  /\ Works \cap {NoWork, "out", "pick", "back", "sleep"} = {}
  /\ CoroSlices \subseteq Nat /\ CoroNaps \subseteq Nat
  /\ CoroMaxVtime \in Nat /\ CoroMaxTick \in Nat /\ CoroForever \in Nat
  /\ \A n \in CoroNaps : CoroMaxTick + n < CoroForever

VARIABLES
  coroState,   \* work->state, "none" for memory that is not allocated
  coroVtime,   \* work->vtime
  coroTimeout, \* work->timeout
  unstarted,   \* works that are created and not yet activated
  ready,       \* worker->ready, in order
  blocked,     \* worker->blocked, in order
  mvtime,      \* worker->mvtime
  curr,        \* worker->curr
  cpu,         \* the work that runs, or where the caller of kcoro_schedule is
  back,        \* the work kcoro_schedule has in its hands
  coroTick     \* ticktime

coroVars == <<coroState, coroVtime, coroTimeout, unstarted, ready, blocked,
              mvtime, curr, cpu, back, coroTick>>

CoroTypeOK ==
  /\ coroState \in [Works -> {"none", "READY", "BLOCK", "EXITED"}]
  /\ coroVtime \in [Works -> 0 .. CoroMaxVtime]
  /\ coroTimeout \in [Works -> 0 .. CoroForever]
  /\ unstarted \subseteq Works
  /\ ready \in Seq(Works) /\ blocked \in Seq(Works)
  /\ mvtime \in 0 .. CoroMaxVtime
  /\ curr \in Works \cup {NoWork} /\ back \in Works \cup {NoWork}
  /\ cpu \in Works \cup {"out", "pick", "back", "sleep"}
  /\ coroTick \in 0 .. CoroMaxTick

CoroInit ==
  /\ coroState = [w \in Works |-> "none"]
  /\ coroVtime = [w \in Works |-> 0] /\ coroTimeout = [w \in Works |-> 0]
  /\ unstarted = {} /\ ready = <<>> /\ blocked = <<>>
  /\ mvtime = 0 /\ curr = NoWork
  /\ cpu = "out" /\ back = NoWork /\ coroTick = 0

-----------------------------------------------------------------------------
(* The trees *)

\* rb_cached_insert: behind the nodes with the same key.
TreeInsert(s, w, key) ==
  InsertAt(s, Min({i \in 1 .. Len(s) + 1 : i <= Len(s) => key[s[i]] > key[w]}), w)

\* A sequence in the order in which inserting its elements one by one into an
\* empty tree leaves them.
Inserted(s, key) ==
  LET place(j) == Cardinality({i \in DOMAIN s : \/ key[s[i]] < key[s[j]]
                                                \/ key[s[i]] = key[s[j]] /\ i <= j})
  IN [n \in DOMAIN s |-> s[CHOOSE j \in DOMAIN s : place(j) = n]]

\* worker_update.  Mutant: the first of the tree is looked for only when
\* nothing runs.
WorkerUpdate_idle(r, c, vt) ==
  IF c # NoWork THEN vt[c] ELSE IF r # <<>> THEN vt[Head(r)] ELSE 0
WorkerUpdate(r, c, vt) ==
  IF r # <<>> THEN vt[Head(r)] ELSE IF c # NoWork THEN vt[c] ELSE 0

\* kcoro_timeout_wakeup takes the head of blocked as long as it is due, and
\* inserts it into ready.
DueNr   == Min({n \in 0 .. Len(blocked) :
                  n < Len(blocked) => coroTimeout[blocked[n + 1]] > coroTick})
CoroDue == SubSeq(blocked, 1, DueNr)
NotDue  == SubSeq(blocked, DueNr + 1, Len(blocked))

ReadyAfterWakeup(vt) == Inserted(ready \o CoroDue, vt)
MvtimeAfterWakeup(vt) ==
  IF CoroDue = <<>> THEN mvtime ELSE WorkerUpdate(ReadyAfterWakeup(vt), curr, vt)
\* Mutant: the state is left at BLOCK.
StateAfterWakeup_kept == coroState
StateAfterWakeup ==
  [w \in Works |-> IF w \in ToSet(CoroDue) THEN "READY" ELSE coroState[w]]

-----------------------------------------------------------------------------
(* The works *)

\* Code that may call kcoro_work_create and kcoro_activate: a work, or the
\* task outside of kcoro_schedule.
CallerRuns == cpu \in Works \cup {"out"}

WorkCreate(w) ==
  /\ CallerRuns /\ coroState[w] = "none"
  /\ coroState' = [coroState EXCEPT ![w] = "READY"]
  /\ coroVtime' = [coroVtime EXCEPT ![w] = mvtime]
  /\ coroTimeout' = [coroTimeout EXCEPT ![w] = 0]
  /\ unstarted' = unstarted \cup {w}
  /\ UNCHANGED <<ready, blocked, mvtime, curr, cpu, back, coroTick>>

Activate(w) ==
  /\ CallerRuns /\ w \in unstarted
  /\ unstarted' = unstarted \ {w}
  /\ coroVtime' = [coroVtime EXCEPT ![w] = mvtime]
  /\ ready' = TreeInsert(ready, w, coroVtime')
  /\ mvtime' = WorkerUpdate(ready', curr, coroVtime')
  /\ UNCHANGED <<coroState, coroTimeout, blocked, curr, cpu, back, coroTick>>

\* swapcontext to retctx, and kcoro_function's last assignments.
BackToLoop(w) == cpu' = "back" /\ back' = w /\ curr' = NoWork

\* kcoro_yield of a work that is not EXITED, once vtime is vt.  It has gone to
\* sleep, it goes on because nobody ready has less, or it joins the ready.
PickNext(w, r, m, vt) ==
  IF r = <<>>
  THEN /\ ready' = r /\ mvtime' = m /\ BackToLoop(w)
  ELSE /\ ready' = Tail(r)
       /\ mvtime' = WorkerUpdate(Tail(r), curr, vt)
       /\ cpu' = Head(r) /\ curr' = Head(r) /\ UNCHANGED back

YieldBlock(w, vt) ==
  /\ blocked' = TreeInsert(NotDue, w, coroTimeout')
  /\ PickNext(w, ReadyAfterWakeup(vt), MvtimeAfterWakeup(vt), vt)

YieldReady(w, vt) ==
  /\ blocked' = NotDue
  /\ \/ /\ vt[w] > MvtimeAfterWakeup(vt)
        /\ PickNext(w, TreeInsert(ReadyAfterWakeup(vt), w, vt), MvtimeAfterWakeup(vt), vt)
     \/ /\ vt[w] <= MvtimeAfterWakeup(vt)
        /\ ready' = ReadyAfterWakeup(vt) /\ mvtime' = MvtimeAfterWakeup(vt)
        /\ UNCHANGED <<curr, cpu, back>>

\* kcoro_yield, called by a work that is READY: by itself or in the loop of one
\* of the delays.
Yield(w, d) ==
  /\ cpu = w /\ coroVtime[w] + d <= CoroMaxVtime
  /\ coroVtime' = [coroVtime EXCEPT ![w] = @ + d]
  /\ coroState' = StateAfterWakeup
  /\ YieldReady(w, coroVtime')
  /\ UNCHANGED <<coroTimeout, unstarted, coroTick>>

\* kcoro_tsleep.
TSleep(w, d, until) ==
  /\ cpu = w /\ coroVtime[w] + d <= CoroMaxVtime
  /\ coroVtime' = [coroVtime EXCEPT ![w] = @ + d]
  /\ coroTimeout' = [coroTimeout EXCEPT ![w] = until]
  /\ coroState' = [StateAfterWakeup EXCEPT ![w] = "BLOCK"]
  /\ YieldBlock(w, coroVtime')
  /\ UNCHANGED <<unstarted, coroTick>>

\* kcoro_exit, or the return of the work's entry, whose link is retctx.
EndWork(w, state) ==
  /\ cpu = w
  /\ coroState' = [coroState EXCEPT ![w] = state]
  /\ BackToLoop(w)
  /\ UNCHANGED <<coroVtime, coroTimeout, unstarted, ready, blocked, mvtime, coroTick>>

-----------------------------------------------------------------------------
(* The loop of kcoro_schedule *)

Schedule ==
  /\ cpu = "out" /\ cpu' = "pick"
  /\ UNCHANGED <<coroState, coroVtime, coroTimeout, unstarted, ready, blocked,
                 mvtime, curr, back, coroTick>>

\* kcoro_function finds a work, or the loop takes the first of the blocked.
LoopPick ==
  /\ cpu = "pick"
  /\ \/ /\ ready # <<>>
        /\ ready' = Tail(ready)
        /\ mvtime' = WorkerUpdate(Tail(ready), curr, coroVtime)
        /\ curr' = Head(ready) /\ cpu' = Head(ready)
        /\ UNCHANGED back
     \/ /\ ready = <<>> /\ blocked # <<>>
        /\ cpu' = "back" /\ back' = Head(blocked)
        /\ UNCHANGED <<ready, mvtime, curr>>
     \/ /\ ready = <<>> /\ blocked = <<>>
        /\ cpu' = "out" /\ back' = NoWork
        /\ UNCHANGED <<ready, mvtime, curr>>
  /\ UNCHANGED <<coroState, coroVtime, coroTimeout, unstarted, blocked, coroTick>>

\* The work has ended; if its return value is not 0 the loop returns it.
LoopDestroy ==
  /\ cpu = "back" /\ coroState[back] \in {"READY", "EXITED"}
  /\ coroState' = [coroState EXCEPT ![back] = "none"]
  /\ cpu' \in {"pick", "out"} /\ back' = NoWork
  /\ UNCHANGED <<coroVtime, coroTimeout, unstarted, ready, blocked, mvtime,
                 curr, coroTick>>

\* It sleeps, for as long as this work wants, before kcoro_timeout_wakeup.
LoopSleep ==
  /\ cpu = "back" /\ coroState[back] = "BLOCK"
  /\ cpu' = IF coroTimeout[back] = CoroForever THEN "out" ELSE "sleep"
  /\ back' = IF cpu' = "out" THEN NoWork ELSE back
  /\ UNCHANGED <<coroState, coroVtime, coroTimeout, unstarted, ready, blocked,
                 mvtime, curr, coroTick>>

\* tsleep returns, early as a timer may be, or is not called.
LoopWakeup ==
  /\ cpu = "sleep"
  /\ coroState' = StateAfterWakeup
  /\ ready' = ReadyAfterWakeup(coroVtime)
  /\ mvtime' = MvtimeAfterWakeup(coroVtime)
  /\ blocked' = NotDue
  /\ cpu' = "pick" /\ back' = NoWork
  /\ UNCHANGED <<coroVtime, coroTimeout, unstarted, curr, coroTick>>

CoroClock ==
  /\ coroTick < CoroMaxTick /\ coroTick' = coroTick + 1
  /\ UNCHANGED <<coroState, coroVtime, coroTimeout, unstarted, ready, blocked,
                 mvtime, curr, cpu, back>>

CoroNext ==
  \/ \E w \in Works :
       \/ WorkCreate(w) \/ Activate(w)
       \/ \E d \in CoroSlices :
            \/ Yield(w, d)
            \/ \E n \in CoroNaps : TSleep(w, d, coroTick + n)
            \/ TSleep(w, d, CoroForever)
       \/ EndWork(w, "EXITED") \/ EndWork(w, "READY")
  \/ Schedule \/ LoopPick \/ LoopDestroy \/ LoopSleep \/ LoopWakeup
  \/ CoroClock

CoroSpec == CoroInit /\ [][CoroNext]_coroVars

-----------------------------------------------------------------------------
(* Properties *)

\* A work that was activated is in one place, the one its state says, until it
\* is destroyed: once in ready, once in blocked, on the CPU as worker->curr, or
\* with kcoro_schedule, which destroys it there.
WorkOnce ==
  LET started   == {w \in Works \ unstarted : coroState[w] # "none"}
      onCpu     == {cpu} \cap Works
      leaving   == IF cpu = "back" /\ back \notin ToSet(blocked) THEN {back} ELSE {}
      places    == <<ToSet(ready), ToSet(blocked), onCpu, leaving>>
  IN /\ IsInjective(ready) /\ IsInjective(blocked)
     /\ started = UNION ToSet(places)
     /\ \A i, j \in DOMAIN places : i # j => places[i] \cap places[j] = {}
     /\ \A w \in started : coroState[w] = "BLOCK" <=> w \in ToSet(blocked)
     /\ onCpu = {curr} \ {NoWork}

\* The work that has the CPU after a yield or a pick has the least virtual time
\* of those ready then: kcoro_yield decides by mvtime, which it has not looked
\* up, whether the caller may go on.
LeastGoesFirst ==
  [][/\ cpu' \in Works
     /\ cpu' # cpu \/ coroVtime'[cpu'] # coroVtime[cpu']
     => \A w \in ToSet(ready') : coroVtime'[cpu'] <= coroVtime'[w]]_coroVars

=============================================================================
