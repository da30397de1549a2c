---------------------------- MODULE MCTimerWheel -----------------------------
(***************************************************************************)
(* The smallest instance of TimerWheel that shows a timer called early.    *)
(* What holds of the wheel is checked in MCLib.                            *)
(***************************************************************************)
EXTENDS TimerWheel

CONSTANT t1

OneTimer     == {t1}
NonePeriodic == {}

\* The last delta of level 0.
LastOfLevel0 == {3}

=============================================================================
