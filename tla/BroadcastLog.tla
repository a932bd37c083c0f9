---------------------------- MODULE BroadcastLog ----------------------------
(***************************************************************************)
(* What the ring buffer of J4_disruptor.cpp promises, with no ring in it.  *)
(*                                                                         *)
(* One producer appends Total events to a log.  Every consumer takes every *)
(* event, in order, intact.  A consumer releases what it has taken a batch *)
(* at a time, and the log never holds more than Capacity events that some  *)
(* consumer has not released.  A consumer with a predecessor only takes    *)
(* what the predecessor has released.                                      *)
(***************************************************************************)
EXTENDS Integers

CONSTANTS
  Consumers,        \* the consumers of the log
  Capacity,         \* events that may be outstanding at any time
  Total,            \* events the producer appends
  Upstream(_)       \* Upstream(c): the consumers c must stay behind

VARIABLES
  published,        \* how many events the producer has appended
  taken,            \* taken[c]: how many events c has received
  released,         \* released[c]: how many of them c has given back
  intact            \* intact[c]: everything c received was what was appended

logVars == <<published, taken, released, intact>>

Init ==
  /\ published = 0
  /\ taken = [c \in Consumers |-> 0]
  /\ released = [c \in Consumers |-> 0]
  /\ intact = [c \in Consumers |-> TRUE]

\* The producer appends one event: there must be room left by every consumer.
Append ==
  /\ published < Total
  /\ \A c \in Consumers : published - released[c] < Capacity
  /\ published' = published + 1
  /\ UNCHANGED <<taken, released, intact>>

\* Consumer c receives the next event of the log, the one numbered taken[c].
Take(c) ==
  /\ taken[c] < published
  /\ \A d \in Upstream(c) : taken[c] < released[d]
  /\ taken' = [taken EXCEPT ![c] = @ + 1]
  /\ UNCHANGED <<published, released, intact>>

\* Consumer c gives back, in one step, all it has taken.
Release(c) ==
  /\ released[c] < taken[c]
  /\ released' = [released EXCEPT ![c] = taken[c]]
  /\ UNCHANGED <<published, taken, intact>>

Next ==
  \/ Append
  \/ \E c \in Consumers : Take(c) \/ Release(c)

Spec == Init /\ [][Next]_logVars

=============================================================================
