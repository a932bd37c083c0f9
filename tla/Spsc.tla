-------------------------------- MODULE Spsc --------------------------------
(***************************************************************************)
(* The single-producer single-consumer queue of J2_spsc_queue.cpp: class   *)
(* Spsc, and run(), which drives it with two threads and uses the same     *)
(* static queue again every time it is called for the same queue type.     *)
(*                                                                         *)
(* MEMORY MODEL.  Each index is an atomic that one thread stores to.  The  *)
(* model keeps the sequence of all stores ever made to it.  An acquire     *)
(* load by the other thread may return any store no older than the last    *)
(* one that thread has seen; a seq_cst load returns the newest.  A release *)
(* store carries what its thread had done by then, and the load that       *)
(* returns it learns that.  What matters is which slot accesses are known  *)
(* to be over:                                                             *)
(*   readsKnown   so many reads of slots happened before what the producer *)
(*                does next;                                               *)
(*   writesKnown  so many writes of slots happened before what the         *)
(*                consumer does next.                                      *)
(* The slots are plain memory: touching one while a conflicting access to  *)
(* it is not known to be over is a data race, and what the reader then     *)
(* gets may be Torn.                                                       *)
(*                                                                         *)
(* ABSTRACTION.  An Item is its seq, as payload is mix(seq) and mix is     *)
(* one-to-one.  buffer_{} is zero-initialised and mix(0) = 0, so an        *)
(* unwritten slot looks like item 0.  Padded changes the layout only.      *)
(* Left out: pinning, timing, the consumer's simulated work, and the       *)
(* disassembly of push().                                                  *)
(***************************************************************************)
EXTENDS Integers, Sequences

CONSTANTS
  N,          \* template parameter N: slots of the buffer (kCapacity)
  SeqCst,     \* template parameter M: Model::SeqCst or Model::AcqRel
  Cached,     \* template parameter Cached
  Rounds,     \* how many times run() is called for this queue type
  Items       \* Items[r]: `items' of the r-th call

\* static_assert((N & (N - 1)) == 0): with a power of two, & (N - 1) is % N.
ASSUME PowerOfTwo == \E k \in 0..N : N = 2^k

ASSUME ConstantsAssumption ==
  /\ N \in Nat \ {0}
  /\ SeqCst \in BOOLEAN
  /\ Cached \in BOOLEAN
  /\ Rounds \in Nat \ {0}
  /\ Items \in [1..Rounds -> Nat]

Slots == 0..(N - 1)
Torn == -1                        \* an Item no push() ever wrote

VARIABLES
  buffer,         \* buffer_: the item in each slot
  pStores,        \* every value stored to producer_.index, oldest first
  cStores,        \* every value stored to consumer_.index
  \* the producer thread
  ppc,            \* where it is in its loop and in push()
  sent,           \* i
  pCached,        \* producer_.cached
  pSeen,          \* position in cStores of the newest store it has seen
  readsKnown,     \* see above
  \* the consumer thread
  cpc,            \* where it is in its loop and in pop()
  received,       \* i
  item,           \* item
  cCached,        \* consumer_.cached
  cSeen,          \* position in pStores of the newest store it has seen
  writesKnown,    \* see above
  \* run()
  valid,          \* no call of run() has set `ok' to false
  round           \* the call of run() in progress

producerVars == <<ppc, sent, pCached, pSeen, readsKnown>>
consumerVars == <<cpc, received, item, cCached, cSeen, writesKnown>>
vars == <<buffer, pStores, cStores, producerVars, consumerVars, valid, round>>

Init ==
  /\ buffer = [i \in Slots |-> 0]
  /\ pStores = <<0>>
  /\ cStores = <<0>>
  /\ ppc = "push"
  /\ sent = 0
  /\ pCached = 0
  /\ pSeen = 1
  /\ readsKnown = 0
  /\ cpc = "pop"
  /\ received = 0
  /\ item = 0
  /\ cCached = 0
  /\ cSeen = 1
  /\ writesKnown = 0
  /\ valid = TRUE
  /\ round = 1

-----------------------------------------------------------------------------
(* Indices.                                                                  *)

\* (w + 1) & (N - 1), (r + 1) & (N - 1)
NextIndexUnwrapped(i) == IF i = N THEN 0 ELSE i + 1   \* mutated: one slot too many
NextIndex(i) == (i + 1) % N

\* An index as its owner reads it (kOwn): its own last store.
pIndex == pStores[Len(pStores)]
cIndex == cStores[Len(cStores)]

\* How many stores were made to each index after its initialisation.
pushes == Len(pStores) - 1
pops == Len(cStores) - 1

\* The slot accesses made so far: the current one precedes the index store.
Writes == IF ppc = "store" THEN pushes + 1 ELSE pushes
Reads == IF cpc = "store" THEN pops + 1 ELSE pops

\* The stores that a load by a thread that has seen the one at position
\* `seen' may return (kAcq).
Visible(stores, seen) == IF SeqCst THEN {Len(stores)} ELSE seen..Len(stores)

\* What the thread storing to an index has done when it makes the store at
\* position k, carried to whoever loads that store (kRel).
CarriedRelaxed(k) == 0                          \* mutated: relaxed
Carried(k) == k - 1

MaxOf(a, b) == IF a > b THEN a ELSE b

-----------------------------------------------------------------------------
(* push() and the producer's loop.                                           *)

\* Would the write index run into this value of the read index?
FullUnlessEqual(r) == pIndex = r                \* mutated: no slot kept free
Full(r) == NextIndex(pIndex) = r

Pushing == ppc = "push" /\ sent < Items[round]

\* The private copy of the read index already shows room: no atomic load.
PushFast ==
  /\ Pushing
  /\ Cached /\ ~Full(pCached)
  /\ ppc' = "write"
  /\ UNCHANGED <<buffer, pStores, cStores, sent, pCached, pSeen, readsKnown,
                 consumerVars, valid, round>>

\* The load of consumer_.index, that returns the store at position k.
CanLoadReadIndex(k) ==
  /\ Pushing
  /\ Cached => Full(pCached)
  /\ k \in Visible(cStores, pSeen)

LoadReadIndex(k) ==
  /\ CanLoadReadIndex(k)
  /\ pSeen' = k
  /\ readsKnown' = MaxOf(readsKnown, Carried(k))
  /\ pCached' = IF Cached THEN cStores[k] ELSE pCached
  /\ UNCHANGED <<buffer, pStores, cStores, sent, consumerVars, valid, round>>

\* It shows room.
PushUnchecked(k) == LoadReadIndex(k) /\ ppc' = "write"    \* mutated: no re-check
PushAllowed(k) == LoadReadIndex(k) /\ ~Full(cStores[k]) /\ ppc' = "write"

\* It does not: push() returns false and the producer tries again.
PushRefused(k) == LoadReadIndex(k) /\ Full(cStores[k]) /\ UNCHANGED ppc

\* buffer_[w] = value: a plain write.
PushWrite ==
  /\ ppc = "write"
  /\ buffer' = [buffer EXCEPT ![pIndex] = sent]
  /\ ppc' = "store"
  /\ UNCHANGED <<pStores, cStores, sent, pCached, pSeen, readsKnown,
                 consumerVars, valid, round>>

\* producer_.index.store(next, kRel); push() returns true.
PushStore ==
  /\ ppc = "store"
  /\ pStores' = Append(pStores, NextIndex(pIndex))
  /\ sent' = sent + 1
  /\ ppc' = "push"
  /\ UNCHANGED <<buffer, cStores, pCached, pSeen, readsKnown, consumerVars,
                 valid, round>>

\* The producer's loop ends.
ProducerDone ==
  /\ ppc = "push"
  /\ sent = Items[round]
  /\ ppc' = "done"
  /\ UNCHANGED <<buffer, pStores, cStores, sent, pCached, pSeen, readsKnown,
                 consumerVars, valid, round>>

-----------------------------------------------------------------------------
(* pop() and the consumer's loop.                                            *)

Empty(w) == cIndex = w

Popping == cpc = "pop" /\ received < Items[round]

\* The private copy of the write index already shows an item.
PopFast ==
  /\ Popping
  /\ Cached /\ ~Empty(cCached)
  /\ cpc' = "read"
  /\ UNCHANGED <<buffer, pStores, cStores, producerVars, received, item,
                 cCached, cSeen, writesKnown, valid, round>>

\* The load of producer_.index, that returns the store at position k.
CanLoadWriteIndex(k) ==
  /\ Popping
  /\ Cached => Empty(cCached)
  /\ k \in Visible(pStores, cSeen)

LoadWriteIndex(k) ==
  /\ CanLoadWriteIndex(k)
  /\ cSeen' = k
  /\ writesKnown' = MaxOf(writesKnown, Carried(k))
  /\ cCached' = IF Cached THEN pStores[k] ELSE cCached
  /\ UNCHANGED <<buffer, pStores, cStores, producerVars, received, item, valid, round>>

\* It shows an item.
PopUnchecked(k) == LoadWriteIndex(k) /\ cpc' = "read"     \* mutated: no re-check
PopAllowed(k) == LoadWriteIndex(k) /\ ~Empty(pStores[k]) /\ cpc' = "read"

\* pop() returns false and the consumer tries again.
PopRefused(k) == LoadWriteIndex(k) /\ Empty(pStores[k]) /\ UNCHANGED cpc

\* Write number e goes to, and read number e comes from, this slot.
SlotOf(e) == e % N

\* A write to the slot about to be read is not known to be over.
ReadRaces == \E e \in writesKnown..(Writes - 1) : SlotOf(e) = cIndex

\* out = buffer_[r]: a plain read.
PopRead ==
  /\ cpc = "read"
  /\ item' \in {buffer[cIndex]} \union (IF ReadRaces THEN {Torn} ELSE {})
  /\ cpc' = "store"
  /\ UNCHANGED <<buffer, pStores, cStores, producerVars, received, cCached,
                 cSeen, writesKnown, valid, round>>

\* consumer_.index.store(r + 1, kRel), pop() returns true and run() checks
\* the item.
PopStore ==
  /\ cpc = "store"
  /\ cStores' = Append(cStores, NextIndex(cIndex))
  /\ valid' = (valid /\ item = received)
  /\ received' = received + 1
  /\ cpc' = "pop"
  /\ UNCHANGED <<buffer, pStores, producerVars, item, cCached, cSeen,
                 writesKnown, round>>

\* The consumer's loop ends.
ConsumerDone ==
  /\ cpc = "pop"
  /\ received = Items[round]
  /\ cpc' = "done"
  /\ UNCHANGED <<buffer, pStores, cStores, producerVars, received, item,
                 cCached, cSeen, writesKnown, valid, round>>

-----------------------------------------------------------------------------
Finished == ppc = "done" /\ cpc = "done"

\* Both threads are joined, and run() is called again: two new threads, which
\* know all that happened, on the queue as the old ones left it.
NextRun ==
  /\ Finished
  /\ round < Rounds
  /\ round' = round + 1
  /\ ppc' = "push"
  /\ sent' = 0
  /\ pSeen' = Len(cStores)
  /\ readsKnown' = pops
  /\ cpc' = "pop"
  /\ received' = 0
  /\ item' = 0
  /\ cSeen' = Len(pStores)
  /\ writesKnown' = pushes
  /\ UNCHANGED <<buffer, pStores, cStores, pCached, cCached, valid>>

AllJoined == Finished /\ round = Rounds /\ UNCHANGED vars

Push ==
  \/ PushFast
  \/ \E k \in 1..Len(cStores) : PushAllowed(k) \/ PushRefused(k)
  \/ PushWrite
  \/ PushStore
  \/ ProducerDone

Pop ==
  \/ PopFast
  \/ \E k \in 1..Len(pStores) : PopAllowed(k) \/ PopRefused(k)
  \/ PopRead
  \/ PopStore
  \/ ConsumerDone

Next == Push \/ Pop \/ NextRun \/ AllJoined

Spec == Init /\ [][Next]_vars

(***************************************************************************)
(* FAIRNESS.  Both threads are scheduled, and main goes on: weak fairness. *)
(* A stored index becomes visible in finite time: a thread that loads it   *)
(* over and over does not read an old value for ever.                      *)
(***************************************************************************)
Fairness ==
  /\ WF_vars(Push) /\ WF_vars(Pop) /\ WF_vars(NextRun)
  /\ SF_vars(PushAllowed(Len(cStores)) \/ PushRefused(Len(cStores)))
  /\ SF_vars(PopAllowed(Len(pStores)) \/ PopRefused(Len(pStores)))

FairSpec == Spec /\ Fairness

-----------------------------------------------------------------------------
(* Properties.                                                               *)

\* Every variable has its type; no index ever leaves the buffer.
TypeOK ==
  /\ buffer \in [Slots -> Int]
  /\ pStores \in Seq(Slots) /\ pStores # << >>
  /\ cStores \in Seq(Slots) /\ cStores # << >>
  /\ ppc \in {"push", "write", "store", "done"}
  /\ sent \in Nat
  /\ pCached \in Slots
  /\ pSeen \in 1..Len(cStores)
  /\ readsKnown \in Nat
  /\ cpc \in {"pop", "read", "store", "done"}
  /\ received \in Nat
  /\ item \in Int
  /\ cCached \in Slots
  /\ cSeen \in 1..Len(pStores)
  /\ writesKnown \in Nat
  /\ valid \in BOOLEAN
  /\ round \in 1..Rounds

\* push() never writes a slot with a read of it that may still be going on ...
WriteIsOrdered ==
  ppc = "write" => \A e \in readsKnown..(Reads - 1) : SlotOf(e) # pIndex

\* ... and pop() never reads one with a write that may still be going on.
ReadIsOrdered == cpc = "read" => ~ReadRaces

\* The two orderings of the file are enough, with any index load stale, in
\* the first run() and in the next ones: no two slot accesses race.
NoDataRace == WriteIsOrdered /\ ReadIsOrdered

\* "every item arrived in order with an intact payload": run() returns valid.
EveryItemValid == valid

\* A push() that goes ahead, on a private copy of the read index that is any
\* number of pops old and modulo N, leaves the queue with a free slot.
NeverOverfull ==
  /\ ppc \in {"write", "store"} => pushes - pops <= N - 2
  /\ pushes - pops \in 0..(N - 1)

\* A pop() that goes ahead takes an item that was pushed and not popped.
NeverUnderrun == cpc \in {"read", "store"} => pops < pushes

(* The inductive invariant: an index store says how many pushes (pops) had   *)
(* been made, modulo N, and neither side ever believes in more room (more    *)
(* items) than it knows of.                                                  *)

StoresInv ==
  /\ \A k \in 1..Len(pStores) : pStores[k] = SlotOf(k - 1)
  /\ \A k \in 1..Len(cStores) : cStores[k] = SlotOf(k - 1)

\* How many items may be in the queue: one fewer while one is being pushed.
Room == IF ppc \in {"write", "store"} THEN N - 2 ELSE N - 1

ProducerInv ==
  /\ readsKnown = pSeen - 1
  /\ pushes - readsKnown <= Room
  /\ \E k \in 0..readsKnown : pCached = SlotOf(k) /\ (Cached => pushes - k <= Room)

\* How many items must have been pushed: one more while one is being popped.
Needed == IF cpc \in {"read", "store"} THEN pops + 1 ELSE pops

ConsumerInv ==
  /\ writesKnown = cSeen - 1
  /\ Needed <= writesKnown
  /\ \E k \in 0..writesKnown : cCached = SlotOf(k) /\ (Cached => Needed <= k)

\* The items written and not popped are in their slots, in order.
BufferInv ==
  /\ \A e \in pops..(Writes - 1) : buffer[SlotOf(e)] = e - pushes + sent
  /\ cpc = "store" => item = received
  /\ pushes - sent = pops - received
  /\ valid

RunInv ==
  /\ sent <= Items[round] /\ (ppc = "done" => sent = Items[round])
  /\ ppc \in {"write", "store"} => sent < Items[round]
  /\ received <= Items[round] /\ (cpc = "done" => received = Items[round])
  /\ cpc \in {"read", "store"} => received < Items[round]

\* Both sides' knowledge, the indices modulo N and the contents agree.
IInv == TypeOK /\ StoresInv /\ ProducerInv /\ ConsumerInv /\ BufferInv /\ RunInv

\* What is in the queue: the slots from the read index to the write index.
Contents == [j \in 1..(pushes - pops) |-> buffer[SlotOf(pops + j - 1)]]

\* The queue implements a FIFO of N - 1 items.
Fifo == INSTANCE BoundedFifo WITH Capacity <- N - 1, queue <- Contents
FifoSpec == Fifo!Spec

\* Neither thread waits for the other for ever: every call of run() returns.
AllDelivered == <>(Finished /\ round = Rounds)

=============================================================================
