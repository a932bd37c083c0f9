----------------------------- MODULE PacketFeed -----------------------------
(***************************************************************************)
(* What designs A, B and C of F1_feed_handling.cpp promise, with no mutex  *)
(* and no copies.  Packets are applied to a book one after the other.      *)
(* Every call of a subscriber shows it the book as it was after some       *)
(* packet, never twice after the same one.  on_packet() does not return    *)
(* until everyone who was subscribed when its packet was applied has been  *)
(* called with the book of that moment, and nobody is after it has.  So a  *)
(* subscriber may hear of two packets in the wrong order only while the    *)
(* calls of both are under way, and of one thread's always in theirs.      *)
(***************************************************************************)
EXTENDS Integers, Sequences, FiniteSetsExt

CONSTANTS
  Depth,            \* levels of the book
  Packets,          \* packets are numbered 1..Packets
  First             \* how many subscribers there are at first

VARIABLES
  applied,          \* the packets applied, each with the subscribers it is owed to
  subscribers,      \* how many there are
  heard,            \* heard[s]: the books subscriber s was called with
  finished          \* which of the applied packets' calls have returned

feedVars == <<applied, subscribers, heard, finished>>

\* make_packet(): the level packet p is for.
LevelOf(p) == (p - 1) % Depth

\* The book once n packets are applied: the last packet for each level.
BookAfter(n) ==
  [seq  |-> n,
   bids |-> [l \in 0..(Depth - 1) |->
     LET latest == Max({0} \union {k \in 1..n : LevelOf(applied[k].packet) = l})
     IN  IF latest = 0 THEN 0 ELSE applied[latest].packet]]

Init ==
  /\ applied = << >>
  /\ subscribers = First
  /\ heard = [s \in 1..First |-> << >>]
  /\ finished = {}

\* A packet changes the book.
Apply ==
  \E p \in 1..Packets :
    /\ \A n \in 1..Len(applied) : applied[n].packet # p
    /\ applied' = Append(applied, [packet |-> p, audience |-> subscribers])
    /\ UNCHANGED <<subscribers, heard, finished>>

\* One more subscriber.
Subscribe ==
  /\ subscribers' = subscribers + 1
  /\ heard' = [s \in 1..(subscribers + 1) |-> IF s <= subscribers THEN heard[s] ELSE << >>]
  /\ UNCHANGED <<applied, finished>>

\* A subscriber is called with a book it has not seen, whole.
Hear ==
  \E s \in 1..subscribers : \E n \in 1..Len(applied) \ finished :
    /\ \A k \in 1..Len(heard[s]) : heard[s][k].seq # n
    /\ heard' = [heard EXCEPT ![s] = Append(@, BookAfter(n))]
    /\ UNCHANGED <<applied, subscribers, finished>>

\* A call returns, and nobody it was owed to has been left out.
Finish ==
  \E n \in 1..Len(applied) \ finished :
    /\ \A s \in 1..applied[n].audience : \E k \in 1..Len(heard[s]) : heard[s][k].seq = n
    /\ finished' = finished \union {n}
    /\ UNCHANGED <<applied, subscribers, heard>>

Next == Apply \/ Subscribe \/ Hear \/ Finish

Spec == Init /\ [][Next]_feedVars

=============================================================================
