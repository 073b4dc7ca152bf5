------------------------------- MODULE TxFifo -------------------------------
(***************************************************************************)
(* What the transmit queues promise their users: each queue is a bounded   *)
(* FIFO of frames, no frame is in two places, and the radio works on the   *)
(* oldest frame of the queue and on nothing else until it is done with it. *)
(* TxQueue, with its slots, counter and generations, implements this.      *)
(***************************************************************************)
EXTENDS Naturals, Sequences

CONSTANTS
  Queues,    \* the EDCA queues
  Frames,    \* the frames that can be queued
  NoFrame,   \* the radio is idle
  Capacity   \* the number of frames a queue holds

VARIABLES
  pending,   \* pending[q]: the frames enqueued and not finished, oldest first
  air        \* air[q]: the frame the radio is transmitting for q, or NoFrame

vars == <<pending, air>>

FramesOf(q) == {pending[q][k] : k \in 1 .. Len(pending[q])}

Init ==
  /\ pending = [q \in Queues |-> <<>>]
  /\ air = [q \in Queues |-> NoFrame]

Enqueue(q, f) ==
  /\ Len(pending[q]) < Capacity
  /\ \A p \in Queues : f \notin FramesOf(p)
  /\ pending' = [pending EXCEPT ![q] = Append(@, f)]
  /\ UNCHANGED air

Start(q) ==
  /\ pending[q] # <<>>
  /\ air[q] = NoFrame
  /\ air' = [air EXCEPT ![q] = Head(pending[q])]
  /\ UNCHANGED pending

(* The radio is done with the frames of the queues in S: one queue after a *)
(* transmission, all active queues when the background task is dropped.    *)
Finish(S) ==
  /\ \A q \in S : air[q] # NoFrame
  /\ pending' = [q \in Queues |-> IF q \in S THEN Tail(pending[q])
                                             ELSE pending[q]]
  /\ air' = [q \in Queues |-> IF q \in S THEN NoFrame ELSE air[q]]

Next ==
  \/ \E q \in Queues, f \in Frames : Enqueue(q, f)
  \/ \E q \in Queues : Start(q)
  \/ \E S \in SUBSET Queues : Finish(S)

Spec == Init /\ [][Next]_vars
=============================================================================
