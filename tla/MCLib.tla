-------------------------------- MODULE MCLib --------------------------------
(***************************************************************************)
(* Small instances, side by side, of the modules that share nothing with   *)
(* each other: the one in focus moves, the others stay where they began,   *)
(* and each in one place, so that the instances add up and do not multiply.*)
(* The wheel is there twice: two timers of the lower levels for a short    *)
(* time, and two of the highest for a turn of the whole wheel.             *)
(***************************************************************************)
EXTENDS TimerWheel, Kfifo, Mutex, Idr, Buddy, Mempool, Kcoro

CONSTANTS
  t1, t2,
  Soon \* bound on ticktime for the timers of the lower levels

TwoTimers   == {t1, t2}
OnePeriodic == {t2}

\* Inside level 0 and 1; inside level 2 and beyond the last.
WheelDeltas == {3, 6, 11, 17}
SoonDeltas  == {[t \in TwoTimers |-> IF t = t1 THEN 3 ELSE 6]}
FarDeltas   == {[t \in TwoTimers |-> IF t = t1 THEN 17 ELSE 11]}

\* The whole range.
OneRange == {<<0, IdrTop>>}

VARIABLE focus \* the instance that moves

wheelVars == vars
libVars   == <<focus, wheelVars, fifoVars, mutexVars, idrVars, buddyVars, poolVars,
               coroVars>>

Instances == {"soon", "far", "kfifo", "mutex", "idr", "buddy", "mempool", "kcoro"}

LibInit ==
  /\ Init /\ FifoInit /\ MutexInit /\ IdrInit /\ BuddyInit /\ PoolInit /\ CoroInit
  /\ focus \in Instances
  /\ delta \in (IF focus = "soon" THEN SoonDeltas ELSE FarDeltas)
  /\ focus # "kfifo"   => fifoData = CHOOSE d \in [Slots -> FifoValues] : TRUE
  /\ focus # "idr"     => id_next = 0
  /\ focus # "mempool" => poolSlots = CHOOSE s \in [1 .. PoolDemand -> PoolObjects] :
                                        \A i, j \in 1 .. PoolDemand : s[i] = s[j] => i = j

LibNext ==
  /\ UNCHANGED focus
  /\ \/ /\ focus \in {"soon", "far"} /\ Next
        /\ focus = "soon" => ticktime' <= Soon
        /\ UNCHANGED <<fifoVars, mutexVars, idrVars, buddyVars, poolVars, coroVars>>
     \/ /\ focus = "kfifo" /\ FifoNext
        /\ UNCHANGED <<wheelVars, mutexVars, idrVars, buddyVars, poolVars, coroVars>>
     \/ /\ focus = "mutex" /\ MutexNext
        /\ UNCHANGED <<wheelVars, fifoVars, idrVars, buddyVars, poolVars, coroVars>>
     \/ /\ focus = "idr" /\ IdrNext
        /\ UNCHANGED <<wheelVars, fifoVars, mutexVars, buddyVars, poolVars, coroVars>>
     \/ /\ focus = "buddy" /\ BuddyNext
        /\ UNCHANGED <<wheelVars, fifoVars, mutexVars, idrVars, poolVars, coroVars>>
     \/ /\ focus = "mempool" /\ PoolNext
        /\ UNCHANGED <<wheelVars, fifoVars, mutexVars, idrVars, buddyVars, coroVars>>
     \/ /\ focus = "kcoro" /\ CoroNext
        /\ UNCHANGED <<wheelVars, fifoVars, mutexVars, idrVars, buddyVars, poolVars>>

LibSpec == LibInit /\ [][LibNext]_libVars

\* Types, of every instance.
LibTypeOK ==
  /\ WheelTypeOK /\ FifoTypeOK /\ MutexTypeOK /\ IdrTypeOK
  /\ BuddyTypeOK /\ PoolTypeOK /\ CoroTypeOK

=============================================================================
