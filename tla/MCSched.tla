------------------------------- MODULE MCSched -------------------------------
(***************************************************************************)
(* Small instances of Sched.  Three tasks: one that runs, one that waits   *)
(* behind it on the queue, and one that sleeps or exits meanwhile.         *)
(***************************************************************************)
EXTENDS Sched

CONSTANTS t1, t2, t3

MCTasks == {t1, t2, t3}
MCOne   == {t1}
MCNone  == {}

=============================================================================
