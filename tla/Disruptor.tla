------------------------------ MODULE Disruptor ------------------------------
(***************************************************************************)
(* The single-producer ring of J4_disruptor.cpp: class Disruptor, the      *)
(* consumer loop run_consumer() and the threads that run() starts.         *)
(*                                                                         *)
(* MEMORY MODEL.  The code is written against the C++ memory model, so the *)
(* model is too.  An atomic is the set of stores made to it.  A load by    *)
(* another thread may return any of them that is no older than one the     *)
(* thread has already loaded from the same atomic (coherence): it may be   *)
(* stale.  A release store carries what its thread knew, an acquire load   *)
(* that returns it learns that.  What matters here is only which slot      *)
(* accesses are known to have happened before:                             *)
(*   writesKnown[c]  every slot write of an event up to this one happened  *)
(*                   before what consumer c does next;                     *)
(*   readsKnown[c]   every read by c of an event up to this one happened   *)
(*                   before what the producer does next.                   *)
(* The slots are plain memory: an access that conflicts with one not known *)
(* to have happened before is a data race.                                 *)
(*                                                                         *)
(* ABSTRACTION.  An Event is its sequence number, since payload is         *)
(* mix(sequence) and mix is one-to-one; slots_{} is zero-initialised and   *)
(* mix(0) = 0, so an unwritten slot already looks like event 0.  Padding,  *)
(* pinning, timing and the statistics that are only printed (stalls_,      *)
(* batches, max_batch) are left out.  `stop' is stored after every thread  *)
(* is joined, so wait_for() never sees it set and its early return is not  *)
(* an action of this model.                                                *)
(***************************************************************************)
EXTENDS Integers

CONSTANTS
  N,              \* entries of the ring (kRing)
  NumConsumers,   \* consumer_count of run()
  Total,          \* total of run(): events published
  Chained         \* consumer i waits on consumer i-1 instead of the cursor

\* static_assert((N & (N - 1)) == 0): with a power of two, sequence & (N - 1)
\* is sequence % N.  Nothing else depends on it.
ASSUME PowerOfTwo == \E k \in 0..N : N = 2^k

ASSUME ConstantsAssumption ==
  /\ N \in Nat \ {0}
  /\ NumConsumers \in Nat
  /\ Total \in Nat
  /\ Chained \in BOOLEAN

Consumers == 0..(NumConsumers - 1)
Slots == 0..(N - 1)
Sequence == -1..(Total - 1)       \* the values a SequenceT ever holds

VARIABLES
  slots,          \* slots_: the event in each slot
  cursor,         \* cursor_: the last value stored
  cursorStores,   \* every store to cursor_: its value and the writes it carries
  gate,           \* gates_[c]: the last value stored
  gateStores,     \* every store to gates_[c]: value, writes and reads it carries
  \* the producer thread
  ppc,            \* where it is
  claimed,        \* `next' of claim(), then `seq' of the loop
  cachedGate,     \* cached_gate_
  scan, lowest,   \* loop position and `lowest' of slowest_consumer()
  seenGate,       \* seenGate[c]: newest value of gates_[c] the producer loaded
  readsKnown,     \* see above
  \* the consumer threads
  cpc,            \* where each is
  next,           \* the next event it will touch: `next', and `s' in the batch
  available,      \* what its last wait_for() returned
  writesKnown,    \* see above
  ordered         \* st.ordered: every check so far succeeded

shared == <<slots, cursor, cursorStores, gate, gateStores>>
producerVars == <<ppc, claimed, cachedGate, scan, lowest, seenGate, readsKnown>>
consumerVars == <<cpc, next, available, writesKnown, ordered>>
vars == <<shared, producerVars, consumerVars>>

MinOfSwapped(a, b) == IF a < b THEN b ELSE a      \* mutated: std::max
MinOf(a, b) == IF a < b THEN a ELSE b
MaxOf(a, b) == IF a > b THEN a ELSE b

-----------------------------------------------------------------------------
Init ==
  /\ slots = [i \in Slots |-> 0]
  /\ cursor = -1
  /\ cursorStores = {[val |-> -1, w |-> -1]}
  /\ gate = [c \in Consumers |-> -1]
  /\ gateStores = [c \in Consumers |-> {[val |-> -1, w |-> -1, r |-> -1]}]
  /\ ppc = "claim"
  /\ claimed = -1
  /\ cachedGate = -1
  /\ scan = 0
  /\ lowest = -1
  /\ seenGate = [c \in Consumers |-> -1]
  /\ readsKnown = [c \in Consumers |-> -1]
  /\ cpc = [c \in Consumers |-> "wait"]
  /\ next = [c \in Consumers |-> 0]
  /\ available = [c \in Consumers |-> -1]
  /\ writesKnown = [c \in Consumers |-> -1]
  /\ ordered = [c \in Consumers |-> TRUE]

\* operator[]: the slot of a sequence number.
SlotOf(s) == s % N

\* The newest event some slot has been written with.
LastWritten == IF ppc = "publish" THEN claimed ELSE cursor

-----------------------------------------------------------------------------
(* The producer: the loop of run(), with claim(), operator[] and publish().  *)

\* Is the entry about to be overwritten beyond this gate position?
Wraps(s, position) == s - N > position

\* The loop of the producer thread has events left.
MoreEventsOffByOne == cursor + 1 <= Total      \* mutated: s <= total
MoreEvents == cursor + 1 < Total

\* claim() when cached_gate_ already allows the slot: no load at all.
ClaimCached ==
  /\ ppc = "claim"
  /\ MoreEvents
  /\ ~Wraps(cursor + 1, cachedGate)
  /\ claimed' = cursor + 1
  /\ ppc' = "write"
  /\ UNCHANGED <<shared, cachedGate, scan, lowest, seenGate, readsKnown, consumerVars>>

\* slowest_consumer() starts its minimum at the cursor.
ScanStartLow == -1                   \* mutated: a minimum no gate can raise
ScanStart == cursor

\* claim() enters slowest_consumer().
ClaimScan ==
  /\ ppc = "claim"
  /\ MoreEvents
  /\ Wraps(cursor + 1, cachedGate)
  /\ claimed' = cursor + 1
  /\ ppc' = "scan"
  /\ scan' = 0
  /\ lowest' = ScanStart
  /\ UNCHANGED <<shared, cachedGate, seenGate, readsKnown, consumerVars>>

\* One acquire load of slowest_consumer(), of the gate at loop position scan;
\* m is the store it reads.
LoadGate(m) ==
  /\ ppc = "scan"
  /\ scan < NumConsumers
  /\ m \in gateStores[scan]
  /\ m.val >= seenGate[scan]
  /\ seenGate' = [seenGate EXCEPT ![scan] = m.val]
  /\ readsKnown' = [readsKnown EXCEPT ![scan] = MaxOf(@, m.r)]
  /\ lowest' = MinOf(lowest, m.val)
  /\ scan' = scan + 1
  /\ UNCHANGED <<shared, ppc, claimed, cachedGate, consumerVars>>

\* slowest_consumer() returns a position that allows the slot.
ScanPass ==
  /\ ppc = "scan"
  /\ scan = NumConsumers
  /\ cachedGate' = lowest
  /\ ~Wraps(claimed, lowest)
  /\ ppc' = "write"
  /\ UNCHANGED <<shared, claimed, scan, lowest, seenGate, readsKnown, consumerVars>>

\* slowest_consumer() returns one that does not: a stall, and it is called again.
ScanStall ==
  /\ ppc = "scan"
  /\ scan = NumConsumers
  /\ cachedGate' = lowest
  /\ Wraps(claimed, lowest)
  /\ scan' = 0
  /\ lowest' = ScanStart
  /\ UNCHANGED <<shared, ppc, claimed, seenGate, readsKnown, consumerVars>>

\* ring[seq] = Event{seq, mix(seq)}: a plain write.
WriteSlot ==
  /\ ppc = "write"
  /\ slots' = [slots EXCEPT ![SlotOf(claimed)] = claimed]
  /\ ppc' = "publish"
  /\ UNCHANGED <<cursor, cursorStores, gate, gateStores, claimed, cachedGate,
                 scan, lowest, seenGate, readsKnown, consumerVars>>

\* A store to cursor_ with memory_order_release carries the writes before it.
CursorStoreRelaxed(s) == [val |-> s, w |-> -1]    \* mutated: relaxed
CursorStore(s) == [val |-> s, w |-> s]

\* publish().
Publish ==
  /\ ppc = "publish"
  /\ cursor' = claimed
  /\ cursorStores' = cursorStores \union {CursorStore(claimed)}
  /\ ppc' = "claim"
  /\ UNCHANGED <<slots, gate, gateStores, claimed, cachedGate, scan, lowest,
                 seenGate, readsKnown, consumerVars>>

\* The producer's loop ends.
ProducerDone ==
  /\ ppc = "claim"
  /\ ~MoreEvents
  /\ ppc' = "done"
  /\ UNCHANGED <<shared, claimed, cachedGate, scan, lowest, seenGate,
                 readsKnown, consumerVars>>

-----------------------------------------------------------------------------
(* A consumer: run_consumer() with wait_for() inlined.                        *)

\* The consumers c must stay behind: depends_on, as run() chooses it.
Upstream(c) == IF Chained /\ c > 0 THEN {c - 1} ELSE {}

\* The atomic wait_for() loads.
AwaitedCursor(c) == cursorStores                  \* mutated: depends_on ignored
AwaitedOwn(c) ==                                  \* mutated: &gates_[c], its own
  IF Upstream(c) = {} THEN cursorStores ELSE gateStores[c]
Awaited(c) ==
  IF Upstream(c) = {} THEN cursorStores ELSE gateStores[c - 1]

\* wait_for() returns: its acquire load reads a store m at or past next.  A
\* load of an older store only spins, so it is not a step.
WaitFor(c, m) ==
  /\ cpc[c] = "wait"
  /\ next[c] < Total
  /\ m \in Awaited(c)
  /\ m.val >= next[c]
  /\ available' = [available EXCEPT ![c] = m.val]
  /\ writesKnown' = [writesKnown EXCEPT ![c] = MaxOf(@, m.w)]
  /\ cpc' = [cpc EXCEPT ![c] = "drain"]
  /\ UNCHANGED <<shared, producerVars, next, ordered>>

\* Some write to the slot c is about to read is not known to c: a data race.
ReadRaces(c) ==
  \E e \in 0..LastWritten :
    SlotOf(e) = SlotOf(next[c]) /\ e > writesKnown[c]

\* What the check of one event may yield.  A race is undefined behaviour: the
\* check may come out either way.
CheckOutcomes(c) ==
  IF ReadRaces(c) THEN BOOLEAN
  ELSE {ordered[c] /\ slots[SlotOf(next[c])] = next[c]}

\* One event of the batch is read and checked.
Process(c) ==
  /\ cpc[c] = "drain"
  /\ next[c] <= available[c]
  /\ \E ok \in CheckOutcomes(c) : ordered' = [ordered EXCEPT ![c] = ok]
  /\ next' = [next EXCEPT ![c] = @ + 1]
  /\ UNCHANGED <<shared, producerVars, cpc, available, writesKnown>>

\* A release store to a gate carries the writes c knows of and c's own reads.
GateStoreRelaxed(c) ==                            \* mutated: relaxed
  [val |-> available[c], w |-> -1, r |-> -1]
GateStore(c) ==
  [val |-> available[c], w |-> writesKnown[c], r |-> next[c] - 1]

\* The batch is over: mine.store(available, release).
ReleaseGate(c) ==
  /\ cpc[c] = "drain"
  /\ next[c] > available[c]
  /\ gate' = [gate EXCEPT ![c] = available[c]]
  /\ gateStores' = [gateStores EXCEPT ![c] = @ \union {GateStore(c)}]
  /\ cpc' = [cpc EXCEPT ![c] = "wait"]
  /\ UNCHANGED <<slots, cursor, cursorStores, producerVars, next, available,
                 writesKnown, ordered>>

\* The consumer's loop ends.
ConsumerDone(c) ==
  /\ cpc[c] = "wait"
  /\ next[c] >= Total
  /\ cpc' = [cpc EXCEPT ![c] = "done"]
  /\ UNCHANGED <<shared, producerVars, next, available, writesKnown, ordered>>

-----------------------------------------------------------------------------
AllDone == ppc = "done" /\ \A c \in Consumers : cpc[c] = "done"

\* run() has joined every thread and returns.
Joined == AllDone /\ UNCHANGED vars

LoadSomeGate == ppc = "scan" /\ scan < NumConsumers /\ \E m \in gateStores[scan] : LoadGate(m)

Producer ==
  \/ ClaimCached
  \/ ClaimScan
  \/ LoadSomeGate
  \/ ScanPass
  \/ ScanStall
  \/ WriteSlot
  \/ Publish
  \/ ProducerDone

Consumer(c) ==
  \/ \E m \in Awaited(c) : WaitFor(c, m)
  \/ Process(c)
  \/ ReleaseGate(c)
  \/ ConsumerDone(c)

Next ==
  \/ Producer
  \/ \E c \in Consumers : Consumer(c)
  \/ Joined

Spec == Init /\ [][Next]_vars

(***************************************************************************)
(* FAIRNESS.  Every thread is scheduled: weak fairness of its next step.   *)
(* A stored value becomes visible to other threads in finite time          *)
(* ([intro.progress]): the producer, loading a gate over and over, cannot  *)
(* read stale values of it for ever, and a wait_for() that spins comes to  *)
(* load a store that lets it return, if there is one.                      *)
(***************************************************************************)
LoadFreshGate(c) ==
  /\ scan = c
  /\ \E m \in gateStores[c] : m.val = gate[c] /\ LoadGate(m)

Fairness ==
  /\ WF_vars(Producer)
  /\ \A c \in Consumers : WF_vars(Consumer(c)) /\ SF_vars(LoadFreshGate(c))

FairSpec == Spec /\ Fairness

-----------------------------------------------------------------------------
(* Properties.                                                               *)

CursorStores == [val : Sequence, w : Sequence]
GateStores == [val : Sequence, w : Sequence, r : Sequence]

\* Every variable has its type; no sequence number leaves -1..Total-1 and no
\* slot outside the ring is touched.
TypeOK ==
  /\ slots \in [Slots -> Int]
  /\ cursor \in Sequence
  /\ cursorStores \subseteq CursorStores
  /\ gate \in [Consumers -> Sequence]
  /\ gateStores \in [Consumers -> SUBSET GateStores]
  /\ ppc \in {"claim", "scan", "write", "publish", "done"}
  /\ claimed \in Sequence
  /\ cachedGate \in Sequence
  /\ scan \in 0..NumConsumers
  /\ lowest \in Sequence
  /\ seenGate \in [Consumers -> Sequence]
  /\ readsKnown \in [Consumers -> Sequence]
  /\ cpc \in [Consumers -> {"wait", "drain", "done"}]
  /\ next \in [Consumers -> 0..Total]
  /\ available \in [Consumers -> Sequence]
  /\ writesKnown \in [Consumers -> Sequence]
  /\ ordered \in [Consumers -> BOOLEAN]

\* The producer never overwrites an entry that a consumer's read of is not
\* known to be over ...
WriteIsOrdered ==
  ppc = "write" =>
    \A c \in Consumers : \A s \in 0..(next[c] - 1) :
      SlotOf(s) = SlotOf(claimed) => s <= readsKnown[c]

\* ... and a consumer never reads an entry with a write not known to be over.
ReadIsOrdered ==
  \A c \in Consumers :
    cpc[c] = "drain" /\ next[c] <= available[c] => ~ReadRaces(c)

\* The plain accesses to the slots never race: the acquire and release orders
\* on cursor_ and gates_ are enough, with any loads stale (J4, publish(),
\* wait_for(), slowest_consumer()).
NoDataRace == WriteIsOrdered /\ ReadIsOrdered

\* "saw every sequence, exactly once, in order", with an intact payload:
\* st.ordered never becomes false for any consumer.
EveryEventIntact == \A c \in Consumers : ordered[c]

\* Gating: the entry being overwritten has been passed by the slowest
\* consumer ("the producer may not overwrite an entry until the SLOWEST
\* consumer has passed it").
NeverLapped ==
  ppc \in {"write", "publish"} => \A c \in Consumers : claimed - N <= gate[c]

\* cached_gate_ is refreshed only when it looks too low and from loads that
\* may be stale; it never promises room that some consumer has not given.
StaleGateIsSafe == \A c \in Consumers : cachedGate <= gate[c]

\* No batch is longer than the ring: what wait_for() returns, less what the
\* consumer had released, however late it asks.
BatchFitsRing == \A c \in Consumers : available[c] - gate[c] <= N

\* In a chain, no consumer touches event n until the one before it has
\* published being finished with n.
ChainOrder ==
  \A c \in Consumers : \A d \in Upstream(c) : next[c] - 1 <= gate[d]

\* A thread is held up: not even a load of the newest store lets it pass.
ProducerWaits ==
  /\ ppc \in {"claim", "scan"} /\ MoreEvents
  /\ \E c \in Consumers : Wraps(cursor + 1, gate[c])
ConsumerWaits(c) ==
  cpc[c] = "wait" /\ next[c] < Total /\ ~\E m \in Awaited(c) : m.val >= next[c]

\* The producer waits on the gates, the consumers on the cursor and, in a
\* chain, on one another; still, until run() is over, some thread that has not
\* ended is not held up by the others (claim(), wait_for()).
NoStandstill ==
  \/ AllDone
  \/ ppc # "done" /\ ~ProducerWaits
  \/ \E c \in Consumers : cpc[c] # "done" /\ ~ConsumerWaits(c)

(* The inductive invariant behind the properties above: what each thread     *)
(* knows, and what each store carries, never exceeds what has happened.      *)

ProducerInv ==
  /\ ppc \in {"scan", "write", "publish"} => claimed = cursor + 1
  /\ \A c \in Consumers :
       /\ cachedGate <= readsKnown[c]
       /\ readsKnown[c] <= gate[c]
       /\ cursor - N <= gate[c]
       /\ ppc = "scan" /\ c < scan => lowest <= readsKnown[c]
       /\ ppc \in {"write", "publish"} => claimed - N <= readsKnown[c]

StoresInv ==
  /\ \A m \in cursorStores : m.val <= cursor /\ m.w = m.val
  /\ \A c \in Consumers : \A m \in gateStores[c] :
       /\ m.val <= gate[c] /\ m.r = m.val
       /\ m.val <= m.w /\ m.w <= cursor

ConsumerInv ==
  \A c \in Consumers :
    /\ gate[c] < next[c] /\ next[c] <= available[c] + 1
    /\ available[c] <= writesKnown[c] /\ writesKnown[c] <= cursor
    /\ cpc[c] # "drain" => next[c] = gate[c] + 1
    /\ \A d \in Upstream(c) : available[c] <= gate[d]

\* The last N events written are each in their slot.
SlotsInv ==
  \A s \in 0..LastWritten : LastWritten - N < s => slots[SlotOf(s)] = s

\* The newest store of each atomic can be loaded, and a thread has ended only
\* when its loop has.
NewestInv ==
  /\ \E m \in cursorStores : m.val = cursor
  /\ ppc = "done" => ~MoreEvents
  /\ \A c \in Consumers :
       /\ \E m \in gateStores[c] : m.val = gate[c]
       /\ seenGate[c] <= gate[c]
       /\ cpc[c] = "done" => next[c] >= Total

\* At every moment the knowledge each thread acts on is true, each store
\* carries at least what its value promises, and the window of events that
\* may still be read is in the ring, untouched.
IInv ==
  /\ TypeOK /\ ProducerInv /\ StoresInv /\ ConsumerInv /\ SlotsInv
  /\ EveryEventIntact /\ NewestInv

\* The ring implements the broadcast log: a step of the program is one step
\* of the log or none.
Log == INSTANCE BroadcastLog WITH
  Capacity <- N,
  published <- cursor + 1,
  taken <- next,
  released <- [c \in Consumers |-> gate[c] + 1],
  intact <- ordered
LogSpec == Log!Spec

\* Back-pressure never wedges the run: every thread ends, having published
\* or consumed every event.
AllConsumed ==
  <>(AllDone /\ cursor = Total - 1 /\ \A c \in Consumers : next[c] = Total)

=============================================================================
