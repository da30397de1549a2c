------------------------------ MODULE AbsQueue -------------------------------
(***************************************************************************)
(* What a fifo promises: a bounded queue whose elements leave it in the    *)
(* order they came, each once, and only after they were read.              *)
(***************************************************************************)
EXTENDS Naturals, Sequences

CONSTANTS
  QValues,   \* the elements
  QSize      \* how many fit

VARIABLES
  queue,     \* the elements in the fifo, oldest first
  offered,   \* the writer's elements that are accepted and not yet in it
  got        \* what the reader's buffer holds after the last read

queueAbsVars == <<queue, offered, got>>

AbsQueueInit ==
  /\ queue = <<>>
  /\ offered = <<>>
  /\ got = <<>>

\* The writer's elements are accepted, as many as there is room for.
Offer ==
  /\ offered = <<>>
  /\ offered' \in Seq(QValues)
  /\ Len(queue) + Len(offered') <= QSize
  /\ UNCHANGED <<queue, got>>

\* Just these are put behind the others.
Put ==
  /\ queue' = queue \o offered
  /\ offered' = <<>>
  /\ UNCHANGED got

\* The reader looks at the oldest ones.
Read ==
  /\ \E n \in 0 .. Len(queue) : got' = SubSeq(queue, 1, n)
  /\ UNCHANGED <<queue, offered>>

\* What it has read leaves, nothing more and nothing less.
Consume ==
  /\ Len(got) <= Len(queue)
  /\ got = SubSeq(queue, 1, Len(got))
  /\ queue' = SubSeq(queue, Len(got) + 1, Len(queue))
  /\ UNCHANGED <<offered, got>>

Discard == queue' = <<>> /\ UNCHANGED <<offered, got>>

AbsQueueSpec ==
  AbsQueueInit /\ [][Offer \/ Put \/ Read \/ Consume \/ Discard]_queueAbsVars

=============================================================================
