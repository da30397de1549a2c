----------------------------- MODULE MCSemaphore -----------------------------
(***************************************************************************)
(* The smallest instance of Semaphore in which a timer outlives its sleep. *)
(* What holds of the semaphore is checked in MCSync.                       *)
(***************************************************************************)
EXTENDS Semaphore

CONSTANTS t1, t2

MCTwo   == {t1, t2}
MCNone  == {}

=============================================================================
