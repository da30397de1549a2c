------------------------------- MODULE Softirq -------------------------------
(***************************************************************************)
(* kernel/irq/softirq.c, hardirq.c and bottom-half.c on one processor.     *)
(* Soft interrupts run on the way out of a hardware interrupt, with        *)
(* interrupts off but for the time of a handler that is not irq safe; a    *)
(* hardware interrupt may come there and raise more.                       *)
(***************************************************************************)
EXTENDS Naturals, Sequences

CONSTANTS
  SoftIrqs,     \* bits of the pending map that may be registered
  SoftIrqSafe,  \* those of softirqs with SOFTIRQ_IRQ_SAFE
  SoftPeriodic, \* those with SOFTIRQ_PERIODIC
  NoSoftirq     \* between two handlers

ASSUME SoftirqAssumption ==
  /\ SoftIrqs \subseteq Nat
  /\ SoftIrqSafe \subseteq SoftIrqs /\ SoftPeriodic \subseteq SoftIrqs
  /\ NoSoftirq \notin SoftIrqs

VARIABLES
  registered, \* the softirqs in softirq_idr
  departing,  \* softirq_unregister has cleared the bit, the idr not yet
  softPending, \* stat->softirq_pending
  loops,      \* the invocations of softirq_irq_entry, each with its handler
  inHard,     \* a hardware interrupt is on top
  owed        \* history: raised, and no handler started since

softVars == <<registered, departing, softPending, loops, inHard, owed>>

SoftTypeOK ==
  /\ registered \subseteq SoftIrqs /\ departing \subseteq registered
  /\ softPending \subseteq SoftIrqs /\ owed \subseteq SoftIrqs
  /\ loops \in Seq(SoftIrqs \cup {NoSoftirq})
  /\ inHard \in BOOLEAN

SoftInit ==
  /\ registered = {} /\ departing = {} /\ softPending = {} /\ owed = {}
  /\ loops = <<>> /\ inHard = FALSE

-----------------------------------------------------------------------------

Looping == loops # <<>>
handler == loops[Len(loops)]

\* The code on top is a task, a handler or a hardware interrupt, and not the
\* loop of softirq_irq_entry.
Raising == Looping /\ ~inHard => handler # NoSoftirq

\* in_irq() as softirq_handle finds it, hardirq_exit having taken the hardware
\* count back.  Mutant: the hardware count alone.
in_irq_hard == FALSE
in_irq == Looping

\* softirq_pending, with interrupts off.
softirq_pending(s) ==
  /\ Raising /\ s \in registered \ departing
  /\ softPending' = softPending \cup {s}
  /\ owed' = owed \cup {s}
  /\ UNCHANGED <<registered, departing, loops, inHard>>

softirq_clear(s) ==
  /\ Raising /\ s \in registered
  /\ softPending' = softPending \ {s}
  /\ owed' = owed \ {s}
  /\ UNCHANGED <<registered, departing, loops, inHard>>

softirq_register(s) ==
  /\ ~inHard /\ ~Looping /\ s \notin registered
  /\ registered' = registered \cup {s}
  /\ UNCHANGED <<departing, softPending, loops, inHard, owed>>

\* softirq_unregister: the bit, and then the node; whoever raises it has been
\* stopped before.
UnregisterClear(s) ==
  /\ ~inHard /\ ~Looping /\ s \in registered \ departing
  /\ departing' = departing \cup {s}
  /\ softPending' = softPending \ {s}
  /\ owed' = owed \ {s}
  /\ UNCHANGED <<registered, loops, inHard>>

UnregisterFree(s) ==
  /\ ~inHard /\ ~Looping /\ s \in departing
  /\ departing' = departing \ {s}
  /\ registered' = registered \ {s}
  /\ UNCHANGED <<softPending, loops, inHard, owed>>

\* hardirq_entry, where interrupts are on.
hardirq_entry ==
  /\ ~inHard
  /\ Looping => handler \notin SoftIrqSafe \cup {NoSoftirq}
  /\ inHard' = TRUE
  /\ UNCHANGED <<registered, departing, softPending, loops, owed>>

\* hardirq_exit and softirq_handle: a loop starts when something is pending
\* outside of any other.
hardirq_exit ==
  /\ inHard /\ inHard' = FALSE
  /\ loops' = IF ~in_irq /\ softPending # {} THEN Append(loops, NoSoftirq) ELSE loops
  /\ UNCHANGED <<registered, departing, softPending, owed>>

\* One turn of softirq_irq_entry up to the call of the handler: the lowest
\* bit, cleared unless the softirq is periodic.  Mutant: the highest bit.
Lowest == CHOOSE s \in softPending : \A r \in softPending : s <= r

Turn_highest ==
  /\ ~inHard /\ Looping /\ handler = NoSoftirq /\ softPending # {}
  /\ LET s == CHOOSE s \in softPending : \A r \in softPending : s >= r
     IN /\ loops' = [loops EXCEPT ![Len(loops)] = s]
        /\ softPending' = IF s \in SoftPeriodic THEN softPending ELSE softPending \ {s}
        /\ owed' = owed \ {s}
  /\ UNCHANGED <<registered, departing, inHard>>
Turn ==
  /\ ~inHard /\ Looping /\ handler = NoSoftirq /\ softPending # {}
  /\ LET s == Lowest
     IN /\ loops' = [loops EXCEPT ![Len(loops)] = s]
        /\ softPending' = IF s \in SoftPeriodic THEN softPending ELSE softPending \ {s}
        /\ owed' = owed \ {s}
  /\ UNCHANGED <<registered, departing, inHard>>

\* The handler returns.  Mutant: the bit is cleared here.
Return_clearing ==
  /\ ~inHard /\ Looping /\ handler # NoSoftirq
  /\ loops' = [loops EXCEPT ![Len(loops)] = NoSoftirq]
  /\ softPending' = softPending \ ({handler} \ SoftPeriodic)
  /\ UNCHANGED <<registered, departing, inHard, owed>>
Return ==
  /\ ~inHard /\ Looping /\ handler # NoSoftirq
  /\ loops' = [loops EXCEPT ![Len(loops)] = NoSoftirq]
  /\ UNCHANGED <<registered, departing, softPending, inHard, owed>>

\* The loop finds no bit and ends.
LoopEnd ==
  /\ ~inHard /\ Looping /\ handler = NoSoftirq /\ softPending = {}
  /\ loops' = SubSeq(loops, 1, Len(loops) - 1)
  /\ UNCHANGED <<registered, departing, softPending, inHard, owed>>

SoftNext ==
  \/ \E s \in SoftIrqs :
       \/ softirq_pending(s) \/ softirq_clear(s) \/ softirq_register(s)
       \/ UnregisterClear(s) \/ UnregisterFree(s)
  \/ hardirq_entry \/ hardirq_exit \/ Turn \/ Return \/ LoopEnd

\* Interrupts end and keep coming, the loop goes on, and a handler that
\* interrupts come into still gets to its end.
SoftFairness ==
  /\ WF_softVars(hardirq_exit) /\ WF_softVars(hardirq_entry)
  /\ WF_softVars(Turn) /\ WF_softVars(LoopEnd) /\ SF_softVars(Return)

SoftSpec     == SoftInit /\ [][SoftNext]_softVars
SoftFairSpec == SoftSpec /\ SoftFairness

-----------------------------------------------------------------------------
(* Properties *)

\* Soft interrupts do not nest, although interrupts come into their handlers
\* and leave through softirq_handle with bits pending.
OneLoop == Len(loops) <= 1

\* A raise is not lost: until its handler starts again or it is cleared, the bit
\* stays, also when the raise comes while that very handler runs.
RaiseKept == owed \subseteq softPending

\* A raised softirq is only ever kept waiting by lower ones that go on running:
\* a bit that stays pending for ever means that they do.
SoftirqServed ==
  \A s \in SoftIrqs \ SoftPeriodic :
    <>[](s \in softPending)
      => []<>(Looping /\ \E r \in SoftIrqs : r < s /\ handler = r)

=============================================================================
