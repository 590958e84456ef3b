-------------------------------- MODULE Fifo --------------------------------
(***************************************************************************)
(* What a command queue promises: messages leave in the order in which     *)
(* they entered, none is lost, none is handed out twice, and there are     *)
(* never more than Capacity of them inside.                                *)
(***************************************************************************)
EXTENDS Naturals, Sequences

CONSTANTS Messages,   \* what may be queued
          Capacity    \* how many messages the queue holds

VARIABLES queue,      \* the messages inside, oldest first
          handed      \* the messages taken out so far, in order

fifoVars == <<queue, handed>>

FifoInit == /\ queue = << >>
            /\ handed = << >>

Put(m) == /\ Len(queue) < Capacity
          /\ queue' = Append(queue, m)
          /\ UNCHANGED handed

\* One dequeue takes the oldest message, a batch the n oldest.
Take(n) == /\ handed' = handed \o SubSeq(queue, 1, n)
           /\ queue' = SubSeq(queue, n + 1, Len(queue))

FifoNext == \/ \E m \in Messages : Put(m)
            \/ \E n \in 1..Len(queue) : Take(n)

FifoSpec == FifoInit /\ [][FifoNext]_fifoVars
=============================================================================
