---------------------------- MODULE BoundedFifo ----------------------------
(***************************************************************************)
(* What the queue of J2_spsc_queue.cpp promises run() after run(): a FIFO  *)
(* of bounded capacity.  In round r the producer puts the items numbered   *)
(* 0 .. Items[r]-1 and the consumer gets them in that order, intact; the   *)
(* next round starts when all have arrived, on the same queue.             *)
(***************************************************************************)
EXTENDS Integers, Sequences

CONSTANTS
  Capacity,         \* items the queue can hold
  Rounds,           \* how many times the queue is used
  Items             \* Items[r]: how many items round r transfers

VARIABLES
  queue,            \* the items put and not yet got, oldest first
  sent,             \* how many items of this round were put
  received,         \* how many of them were got
  valid,            \* every item got was the one expected
  round

fifoVars == <<queue, sent, received, valid, round>>

Init ==
  /\ queue = << >>
  /\ sent = 0
  /\ received = 0
  /\ valid = TRUE
  /\ round = 1

\* The next item enters the queue, which has room for it.
Put ==
  /\ sent < Items[round]
  /\ Len(queue) < Capacity
  /\ queue' = Append(queue, sent)
  /\ sent' = sent + 1
  /\ UNCHANGED <<received, valid, round>>

\* The oldest item leaves the queue, and is the one the consumer expects.
Get ==
  /\ queue # << >>
  /\ Head(queue) = received
  /\ queue' = Tail(queue)
  /\ received' = received + 1
  /\ UNCHANGED <<sent, valid, round>>

\* All items of a round have arrived: the queue is used again.
NextRound ==
  /\ round < Rounds
  /\ sent = Items[round]
  /\ received = Items[round]
  /\ round' = round + 1
  /\ sent' = 0
  /\ received' = 0
  /\ UNCHANGED <<queue, valid>>

Next == Put \/ Get \/ NextRound

Spec == Init /\ [][Next]_fifoVars

=============================================================================
