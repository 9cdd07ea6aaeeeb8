---------------------------- MODULE BoundedFifo ----------------------------
(***************************************************************************)
(* What one direction of an event-bus connection promises its two ends: a  *)
(* FIFO of at most Capacity messages, in which the message the consumer is *)
(* reading keeps its place (and its bytes) until the consumer asks for the *)
(* next one, and a message that does not decode is dropped in its turn.    *)
(***************************************************************************)
EXTENDS Naturals, Sequences

CONSTANTS Capacity, Messages, Undecodable

VARIABLES
    queue,      \* the messages published and not yet released, oldest first
    holding     \* the consumer is reading the oldest of them

fifo == <<queue, holding>>

Start == /\ queue \in Seq(Messages)
         /\ Len(queue) <= Capacity
         /\ holding = FALSE

Put == /\ Len(queue) < Capacity
       /\ \E m \in Messages : queue' = Append(queue, m)
       /\ UNCHANGED holding

Take == /\ ~holding
        /\ queue # <<>>
        /\ Head(queue) \notin Undecodable
        /\ holding' = TRUE
        /\ UNCHANGED queue

Release == /\ holding
           /\ queue' = Tail(queue)
           /\ holding' = FALSE

Drop == /\ ~holding
        /\ queue # <<>>
        /\ Head(queue) \in Undecodable
        /\ queue' = Tail(queue)
        /\ UNCHANGED holding

(* What an emit and a Poll may do, seen from outside the ring. *)
Fifo == Start /\ [][Put \/ Take \/ Release \/ Drop]_fifo
=============================================================================
