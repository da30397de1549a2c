-------------------------------- MODULE Kfifo --------------------------------
(***************************************************************************)
(* lib/kfifo.c and the macros of include/kfifo.h in flat mode: one writer  *)
(* and one reader that take no lock.  Each call reads the other side's     *)
(* counter first, copies, and moves its own counter last (the smp_wmb at   *)
(* the end of the copy keeps that order); the other side may do anything   *)
(* between these steps.  A copy is one step: FifoSidesApart says that it   *)
(* meets nothing of the other side.                                        *)
(***************************************************************************)
EXTENDS Integers, SequencesExt

CONSTANTS
  FifoSize,   \* mask + 1, a power of two
  FifoWord,   \* 2^w of the unsigned long counters
  FifoValues, \* the elements
  FifoMaxLen  \* bound on the len of one call

\* BODY_KFIFO and kfifo_dynamic_alloc refuse a size below 2 or off a power of
\* two; both numbers being powers of two, the larger is a multiple.
ASSUME FifoAssumption ==
  /\ FifoSize \in Nat /\ FifoSize >= 2
  /\ FifoWord \in Nat /\ FifoWord > FifoSize /\ FifoWord % FifoSize = 0
  /\ FifoMaxLen \in Nat

VARIABLES
  fifoIn,    \* kfifo->in
  fifoOut,   \* kfifo->out
  fifoData,  \* kfifo->data
  putStage,  \* the writer: "no", "copy" before its copy, "step" behind it
  putting,   \* the elements it has decided to put
  getStage,  \* the reader: "no", "peek" or "copy" before its copy, "step"
  getting,   \* how many elements it has decided to read
  readBuf    \* the caller's buffer

putVars  == <<fifoIn, fifoData, putStage, putting>>
getVars  == <<fifoOut, getStage, getting, readBuf>>
fifoVars == <<putVars, getVars>>

Slots == 0 .. FifoSize - 1

FifoTypeOK ==
  /\ fifoIn   \in 0 .. FifoWord - 1
  /\ fifoOut  \in 0 .. FifoWord - 1
  /\ fifoData \in [Slots -> FifoValues]
  /\ putStage \in {"no", "copy", "step"}
  /\ putting  \in Seq(FifoValues)
  /\ getStage \in {"no", "peek", "copy", "step"}
  /\ getting  \in Nat
  /\ readBuf  \in Seq(FifoValues)

-----------------------------------------------------------------------------
(* Counters *)

\* The sum of a counter and a length, and the difference of two counters, in
\* w bits.
Advance(c, n)  == IF c + n >= FifoWord THEN c + n - FifoWord ELSE c + n
Distance(a, b) == IF a >= b THEN a - b ELSE a - b + FifoWord

kfifo_valid  == Distance(fifoIn, fifoOut)

\* Mutant: one slot too many, as if mask were the size already.
kfifo_unused_plus == FifoSize + 1 - kfifo_valid
kfifo_unused == FifoSize - kfifo_valid

AtMost(a, b) == IF a <= b THEN a ELSE b

\* KFIFO_GENERIC_COPY: llen elements up to the end of the buffer, the rest
\* from its start.  Mutant: without the fold.
Written_flat(s, c) ==
  LET off  == c % FifoSize
  IN [i \in Slots |-> IF i >= off /\ i - off < Len(s) THEN s[i - off + 1] ELSE fifoData[i]]
Written(s, c) ==
  LET off  == c % FifoSize
      llen == AtMost(Len(s), FifoSize - off)
  IN [i \in Slots |->
        IF i >= off /\ i - off < llen THEN s[i - off + 1]
        ELSE IF i < Len(s) - llen THEN s[llen + i + 1]
        ELSE fifoData[i]]
Copied(n, c) ==
  LET off  == c % FifoSize
      llen == AtMost(n, FifoSize - off)
  IN [k \in 1 .. n |-> IF k <= llen THEN fifoData[off + k - 1] ELSE fifoData[k - llen - 1]]

-----------------------------------------------------------------------------
(* The writer *)

\* kfifo_in_flat: clip what the caller has to what is unused.
InFlat(s) ==
  /\ putStage = "no"
  /\ putStage' = "copy"
  /\ putting'  = SubSeq(s, 1, AtMost(Len(s), kfifo_unused))
  /\ UNCHANGED <<fifoIn, fifoData, getVars>>

\* kfifo_put: one element, unless kfifo_check_full.
PutOne(v) ==
  /\ putStage = "no"
  /\ ~(kfifo_valid > FifoSize - 1)
  /\ putStage' = "copy"
  /\ putting'  = <<v>>
  /\ UNCHANGED <<fifoIn, fifoData, getVars>>

InCopy ==
  /\ putStage = "copy"
  /\ putStage' = "step"
  /\ fifoData' = Written(putting, fifoIn)
  /\ UNCHANGED <<fifoIn, putting, getVars>>

InStep ==
  /\ putStage = "step"
  /\ putStage' = "no"
  /\ fifoIn'   = Advance(fifoIn, Len(putting))
  /\ putting'  = <<>>
  /\ UNCHANGED <<fifoData, getVars>>

-----------------------------------------------------------------------------
(* The reader *)

\* kfifo_peek_flat and kfifo_out_flat: clip the caller's len to what is valid.
OutFlat(len, stage) ==
  /\ getStage = "no"
  /\ getStage' = stage
  /\ getting'  = AtMost(len, kfifo_valid)
  /\ UNCHANGED <<fifoOut, readBuf, putVars>>

\* kfifo_peek and kfifo_get: one element, unless kfifo_check_empty.
OutOne(stage) ==
  /\ getStage = "no"
  /\ fifoIn # fifoOut
  /\ getStage' = stage
  /\ getting'  = 1
  /\ UNCHANGED <<fifoOut, readBuf, putVars>>

OutCopy ==
  /\ getStage \in {"peek", "copy"}
  /\ getStage' = IF getStage = "peek" THEN "no" ELSE "step"
  /\ getting'  = IF getStage = "peek" THEN 0 ELSE getting
  /\ readBuf'  = Copied(getting, fifoOut)
  /\ UNCHANGED <<fifoOut, putVars>>

OutStep ==
  /\ getStage = "step"
  /\ getStage' = "no"
  /\ fifoOut'  = Advance(fifoOut, getting)
  /\ getting'  = 0
  /\ UNCHANGED <<readBuf, putVars>>

\* kfifo_homing, called by the reader.
Homing ==
  /\ getStage = "no"
  /\ fifoOut' = fifoIn
  /\ UNCHANGED <<getStage, getting, readBuf, putVars>>

\* kfifo_reset writes both counters: nobody may be inside.
Reset ==
  /\ putStage = "no" /\ getStage = "no"
  /\ fifoIn' = 0 /\ fifoOut' = 0
  /\ UNCHANGED <<fifoData, putStage, putting, getStage, getting, readBuf>>

-----------------------------------------------------------------------------
(* Specification *)

\* KFIFO_INIT, kfifo_dynamic_alloc: the buffer holds whatever it held.
FifoInit ==
  /\ fifoIn = 0 /\ fifoOut = 0
  /\ fifoData \in [Slots -> FifoValues]
  /\ putStage = "no" /\ putting = <<>>
  /\ getStage = "no" /\ getting = 0 /\ readBuf = <<>>

Payloads == UNION {[1 .. n -> FifoValues] : n \in 0 .. FifoMaxLen}

FifoNext ==
  \/ \E s \in Payloads : InFlat(s)
  \/ \E v \in FifoValues : PutOne(v)
  \/ InCopy \/ InStep
  \/ \E len \in 0 .. FifoMaxLen, stage \in {"peek", "copy"} : OutFlat(len, stage)
  \/ \E stage \in {"peek", "copy"} : OutOne(stage)
  \/ OutCopy \/ OutStep
  \/ Homing \/ Reset

FifoSpec == FifoInit /\ [][FifoNext]_fifoVars

-----------------------------------------------------------------------------
(* Properties *)

\* What each side has decided on still fits when it acts on it, whatever the
\* other side did since: kfifo.c:133 and kfifo.c:110 read a counter that moves.
FifoClipsHold ==
  /\ kfifo_valid + Len(putting) <= FifoSize
  /\ getting <= kfifo_valid

\* The slots the writer is about to fill hold nothing that is still to be
\* read: neither side takes a lock, and their copies may overlap in time.
FifoSidesApart ==
  \A i \in 0 .. Len(putting) - 1, j \in 0 .. kfifo_valid - 1 :
    (fifoIn + i) % FifoSize # (fifoOut + j) % FifoSize

Contents == [k \in 1 .. kfifo_valid |-> fifoData[(fifoOut + k - 1) % FifoSize]]

FifoQueue == INSTANCE AbsQueue WITH
  QValues <- FifoValues, QSize <- FifoSize,
  queue <- Contents, offered <- putting, got <- readBuf

\* The unlocked ring is a bounded queue: nothing is lost, doubled, reordered
\* or made up, also when the counters wrap and when it is exactly full.
FifoIsQueue == FifoQueue!AbsQueueSpec

=============================================================================
