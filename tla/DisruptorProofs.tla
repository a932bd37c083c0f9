--------------------------- MODULE DisruptorProofs ---------------------------
(***************************************************************************)
(* Proofs about Disruptor, for every ring size, every number of consumers, *)
(* every number of events, chained or not.                                 *)
(***************************************************************************)
EXTENDS Disruptor, WellFoundedInduction, TLAPS

-----------------------------------------------------------------------------
(* Remainders.                                                               *)

\* Two numbers with the same remainder are at least a period apart: a ring of
\* n slots never aliases two entries of one window of n.
LEMMA ModWindow ==
  ASSUME NEW n \in Nat \ {0}, NEW a \in Nat, NEW b \in Nat, a < b, a % n = b % n
  PROVE  a <= b - n
<1> DEFINE qa == a \div n
           qb == b \div n
<1>1. qa \in Int /\ qb \in Int /\ a = n * qa + (a % n) /\ b = n * qb + (b % n)
  OBVIOUS
<1>2. b - a = n * (qb - qa)
  BY <1>1
<1>3. qb - qa >= 1
  BY <1>1, <1>2
<1>4. n * (qb - qa) >= n
  BY <1>1, <1>3
<1>5. QED
  BY <1>2, <1>4

-----------------------------------------------------------------------------
(* Sequence numbers and slots.                                               *)

\* Two events of one slot are at least a ring apart: the index computation
\* of operator[] never aliases two events of one window.
LEMMA SlotWindow ==
  ASSUME NEW a \in Nat, NEW b \in Nat, a < b, SlotOf(a) = SlotOf(b)
  PROVE  a <= b - N
BY ModWindow, ConstantsAssumption DEF SlotOf

\* The index computation stays inside the ring.
LEMMA SlotInRing ==
  ASSUME NEW s \in Nat
  PROVE  SlotOf(s) \in Slots
BY ConstantsAssumption DEF SlotOf, Slots

\* What std::min and its counterpart return.
LEMMA MinMax ==
  ASSUME NEW a \in Int, NEW b \in Int
  PROVE  /\ MinOf(a, b) \in {a, b} /\ MinOf(a, b) <= a /\ MinOf(a, b) <= b
         /\ MaxOf(a, b) \in {a, b} /\ MaxOf(a, b) >= a /\ MaxOf(a, b) >= b
BY DEF MinOf, MaxOf

-----------------------------------------------------------------------------
(* Type correctness.                                                         *)

LEMMA TypeInit == Init => TypeOK
<1> SUFFICES ASSUME Init PROVE TypeOK
  OBVIOUS
<1>1. -1 \in Sequence /\ 0 \in 0..NumConsumers /\ 0 \in 0..Total
  BY ConstantsAssumption DEF Sequence
<1>2. QED
  BY <1>1 DEF Init, TypeOK, CursorStores, GateStores

LEMMA TypeStep == TypeOK /\ [Next]_vars => TypeOK'
<1> SUFFICES ASSUME TypeOK, [Next]_vars PROVE TypeOK'
  OBVIOUS
<1>1. CASE ClaimCached
  <2>1. cursor + 1 \in Sequence
    BY <1>1, ConstantsAssumption DEF ClaimCached, MoreEvents, TypeOK, Sequence
  <2>2. QED
    BY <1>1, <2>1 DEF ClaimCached, TypeOK, shared, consumerVars
<1>2. CASE ClaimScan
  <2>1. cursor + 1 \in Sequence /\ 0 \in 0..NumConsumers
    BY <1>2, ConstantsAssumption DEF ClaimScan, MoreEvents, TypeOK, Sequence
  <2>2. QED
    BY <1>2, <2>1 DEF ClaimScan, ScanStart, TypeOK, shared, consumerVars
<1>3. ASSUME NEW m, LoadGate(m) PROVE TypeOK'
  <2>1. /\ scan \in Consumers /\ scan + 1 \in 0..NumConsumers
        /\ m \in GateStores
    BY <1>3, ConstantsAssumption DEF LoadGate, TypeOK, Consumers
  <2>2. m.val \in Sequence /\ m.r \in Sequence
    BY <2>1 DEF GateStores
  <2>3. MinOf(lowest, m.val) \in Sequence /\ MaxOf(readsKnown[scan], m.r) \in Sequence
    BY <2>1, <2>2 DEF MinOf, MaxOf, TypeOK
  <2>4. QED
    BY <1>3, <2>1, <2>2, <2>3 DEF LoadGate, TypeOK, shared, consumerVars
<1>4. CASE ScanPass
  BY <1>4 DEF ScanPass, TypeOK, shared, consumerVars
<1>5. CASE ScanStall
  <2>1. 0 \in 0..NumConsumers
    BY ConstantsAssumption
  <2>2. QED
    BY <1>5, <2>1 DEF ScanStall, ScanStart, TypeOK, shared, consumerVars
<1>6. CASE WriteSlot
  <2>1. slots' \in [Slots -> Int]
    <3>1. claimed \in Int
      BY DEF TypeOK, Sequence
    <3>2. QED
      BY <1>6, <3>1 DEF WriteSlot, TypeOK
  <2>2. QED
    BY <1>6, <2>1 DEF WriteSlot, TypeOK, consumerVars
<1>7. CASE Publish
  <2>1. CursorStore(claimed) \in CursorStores
    BY DEF CursorStore, CursorStores, TypeOK
  <2>2. cursorStores' \subseteq CursorStores
    BY <1>7, <2>1 DEF Publish, TypeOK
  <2>3. QED
    BY <1>7, <2>2 DEF Publish, TypeOK, consumerVars
<1>8. CASE ProducerDone
  BY <1>8 DEF ProducerDone, TypeOK, shared, consumerVars
<1>9. ASSUME NEW c \in Consumers, NEW m, WaitFor(c, m) PROVE TypeOK'
  <2>1. m.val \in Sequence /\ m.w \in Sequence
    <3>1. CASE Upstream(c) = {}
      BY <1>9, <3>1 DEF WaitFor, Awaited, TypeOK, CursorStores
    <3>2. CASE Upstream(c) # {}
      <4>1. c - 1 \in Consumers
        BY <3>2, ConstantsAssumption DEF Upstream, Consumers
      <4>2. m \in GateStores
        BY <1>9, <3>2, <4>1 DEF WaitFor, Awaited, TypeOK
      <4>3. QED
        BY <4>2 DEF GateStores
    <3>3. QED
      BY <3>1, <3>2
  <2>2. MaxOf(writesKnown[c], m.w) \in Sequence
    BY <2>1 DEF MaxOf, TypeOK
  <2>3. QED
    BY <1>9, <2>1, <2>2 DEF WaitFor, TypeOK, shared, producerVars
<1>10. ASSUME NEW c \in Consumers, Process(c) PROVE TypeOK'
  <2>1. CheckOutcomes(c) \subseteq BOOLEAN
    BY DEF CheckOutcomes, TypeOK
  <2>2. next[c] \in 0..Total /\ available[c] \in Sequence
    BY DEF TypeOK
  <2>3. next[c] + 1 \in 0..Total
    BY <1>10, <2>2, ConstantsAssumption DEF Process, Sequence
  <2>4. QED
    BY <1>10, <2>1, <2>3 DEF Process, TypeOK, shared, producerVars
<1>11. ASSUME NEW c \in Consumers, ReleaseGate(c) PROVE TypeOK'
  <2>1. next[c] - 1 \in Sequence
    <3>1. next[c] \in 0..Total
      BY DEF TypeOK
    <3>2. QED
      BY <3>1, ConstantsAssumption DEF Sequence
  <2>2. GateStore(c) \in GateStores
    BY <2>1 DEF GateStore, GateStores, TypeOK
  <2>3. QED
    BY <1>11, <2>1, <2>2 DEF ReleaseGate, TypeOK, producerVars
<1>12. ASSUME NEW c \in Consumers, ConsumerDone(c) PROVE TypeOK'
  BY <1>12 DEF ConsumerDone, TypeOK, shared, producerVars
<1>13. CASE UNCHANGED vars
  BY <1>13 DEF vars, shared, producerVars, consumerVars, TypeOK
<1>14. QED
  BY <1>1, <1>2, <1>3, <1>4, <1>5, <1>6, <1>7, <1>8, <1>9, <1>10, <1>11,
     <1>12, <1>13 DEF Next, Producer, LoadSomeGate, Consumer, Joined

\* Every variable of the ring and of its threads keeps its type.
THEOREM TypeCorrect == Spec => []TypeOK
BY TypeInit, TypeStep, PTL DEF Spec

-----------------------------------------------------------------------------
(* The inductive invariant.  A store never says more than has happened, so   *)
(* a load, however stale, never teaches a thread anything false; the rest    *)
(* is that each thread acts on no more than it knows.                        *)

\* The integers the invariant compares, in one place.
LEMMA Ranges ==
  ASSUME TypeOK
  PROVE  /\ N \in Nat /\ N > 0 /\ cursor \in Int /\ claimed \in Int
         /\ cachedGate \in Int /\ lowest \in Int
         /\ cursor >= -1 /\ claimed >= -1
         /\ \A c \in Consumers :
              /\ gate[c] \in Int /\ readsKnown[c] \in Int /\ seenGate[c] \in Int
              /\ next[c] \in Nat /\ available[c] \in Int /\ writesKnown[c] \in Int
         /\ \A m \in cursorStores : m.val \in Int /\ m.w \in Int
         /\ \A c \in Consumers : \A m \in gateStores[c] :
              m.val \in Int /\ m.w \in Int /\ m.r \in Int
<1>1. Sequence \subseteq Int /\ 0..Total \subseteq Nat
  BY ConstantsAssumption DEF Sequence
<1>2. cursor >= -1 /\ claimed >= -1 /\ N \in Nat /\ N > 0
  BY ConstantsAssumption DEF TypeOK, Sequence
<1>3. \A c \in Consumers :
        /\ gate[c] \in Sequence /\ readsKnown[c] \in Sequence /\ seenGate[c] \in Sequence
        /\ next[c] \in 0..Total /\ available[c] \in Sequence /\ writesKnown[c] \in Sequence
  BY DEF TypeOK
<1>4. \A m \in cursorStores : m.val \in Sequence /\ m.w \in Sequence
  BY DEF TypeOK, CursorStores
<1>5. \A c \in Consumers : \A m \in gateStores[c] :
        m.val \in Sequence /\ m.w \in Sequence /\ m.r \in Sequence
  BY DEF TypeOK, GateStores
<1>6. cursor \in Sequence /\ claimed \in Sequence /\ cachedGate \in Sequence /\ lowest \in Sequence
  BY DEF TypeOK
<1>7. QED
  BY <1>1, <1>2, <1>3, <1>4, <1>5, <1>6

\* Every consumer has passed all but the last N events written.
LEMMA WindowAhead ==
  ASSUME TypeOK, ProducerInv
  PROVE  /\ LastWritten \in Int /\ cursor <= LastWritten
         /\ \A c \in Consumers : LastWritten - N <= gate[c]
<1>1. CASE ppc = "publish"
  <2>1. LastWritten = claimed /\ claimed = cursor + 1
    BY <1>1 DEF LastWritten, ProducerInv
  <2>2. \A c \in Consumers : claimed - N <= readsKnown[c] /\ readsKnown[c] <= gate[c]
    BY <1>1 DEF ProducerInv
  <2>3. QED
    BY <2>1, <2>2, Ranges
<1>2. CASE ppc # "publish"
  BY <1>2, Ranges DEF LastWritten, ProducerInv
<1>3. QED
  BY <1>1, <1>2

\* A consumer about to read an event knows of every write to its slot, and
\* finds the event there.
LEMMA ReadIsSafe ==
  ASSUME TypeOK, ProducerInv, ConsumerInv, SlotsInv,
         NEW c \in Consumers, next[c] <= available[c]
  PROVE  ~ReadRaces(c) /\ slots[SlotOf(next[c])] = next[c]
<1>1. /\ gate[c] < next[c] /\ next[c] <= writesKnown[c] /\ writesKnown[c] <= cursor
      /\ next[c] \in Nat
  BY Ranges DEF ConsumerInv
<1>2. /\ LastWritten \in Int /\ cursor <= LastWritten /\ LastWritten - N < next[c]
  BY <1>1, WindowAhead, Ranges
<1>3. ~ReadRaces(c)
  <2>1. SUFFICES ASSUME NEW e \in 0..LastWritten,
                        SlotOf(e) = SlotOf(next[c]), e > writesKnown[c]
                 PROVE  FALSE
    BY DEF ReadRaces
  <2>2. e \in Nat /\ next[c] < e
    BY <2>1, <1>1, <1>2, Ranges
  <2>3. next[c] <= e - N
    BY <2>1, <2>2, <1>1, SlotWindow
  <2>4. QED
    BY <2>1, <2>2, <2>3, <1>1, <1>2, Ranges
<1>4. next[c] \in 0..LastWritten
  BY <1>1, <1>2, Ranges
<1>5. QED
  BY <1>2, <1>3, <1>4 DEF SlotsInv

LEMMA InitInvariant == Init => IInv
<1> SUFFICES ASSUME Init PROVE IInv
  OBVIOUS
<1>1. TypeOK
  BY TypeInit
<1>2. ProducerInv
  BY <1>1, ConstantsAssumption DEF Init, ProducerInv
<1>3. StoresInv
  BY DEF Init, StoresInv
<1>4. ConsumerInv
  <2>1. \A c \in Consumers : \A d \in Upstream(c) : d \in Consumers
    BY ConstantsAssumption DEF Upstream, Consumers
  <2>2. QED
    BY <2>1 DEF Init, ConsumerInv
<1>5. SlotsInv
  BY DEF Init, SlotsInv, LastWritten
<1>6. NewestInv
  <2>1. \A c \in Consumers : gate[c] = -1 /\ seenGate[c] = -1 /\ cpc[c] = "wait"
    BY DEF Init
  <2>2. \A c \in Consumers : gateStores[c] = {[val |-> -1, w |-> -1, r |-> -1]}
    BY DEF Init
  <2>3. ppc = "claim" /\ cursor = -1 /\ cursorStores = {[val |-> -1, w |-> -1]}
    BY DEF Init
  <2>4. \E m \in cursorStores : m.val = cursor
    BY <2>3
  <2>5. ASSUME NEW c \in Consumers PROVE \E m \in gateStores[c] : m.val = gate[c]
    <3>1. [val |-> -1, w |-> -1, r |-> -1] \in gateStores[c]
      BY <2>2
    <3>2. QED
      BY <2>1, <3>1
  <2>6. QED
    BY <2>1, <2>3, <2>4, <2>5 DEF NewestInv
<1>7. QED
  BY <1>1, <1>2, <1>3, <1>4, <1>5, <1>6 DEF Init, IInv, EveryEventIntact

\* A step of the producer preserves what relates it to the consumers.
LEMMA ProducerStep ==
  ASSUME IInv, Producer
  PROVE  ProducerInv' /\ StoresInv' /\ ConsumerInv' /\ SlotsInv'
<1> USE DEF IInv
<1>1. CASE ClaimCached
  <2>1. ProducerInv'
    <3>1. \A c \in Consumers : cursor + 1 - N <= readsKnown[c]
      BY <1>1, Ranges DEF ClaimCached, Wraps, ProducerInv
    <3>2. QED
      BY <1>1, <3>1, Ranges DEF ClaimCached, ProducerInv, shared
  <2>2. StoresInv' /\ ConsumerInv'
    BY <1>1 DEF ClaimCached, StoresInv, ConsumerInv, shared, consumerVars
  <2>3. SlotsInv'
    BY <1>1 DEF ClaimCached, SlotsInv, LastWritten, shared
  <2>4. QED
    BY <2>1, <2>2, <2>3
<1>2. CASE ClaimScan
  <2>1. ProducerInv'
    BY <1>2, Ranges, ConstantsAssumption DEF ClaimScan, ProducerInv, shared, Consumers
  <2>2. StoresInv' /\ ConsumerInv'
    BY <1>2 DEF ClaimScan, StoresInv, ConsumerInv, shared, consumerVars
  <2>3. SlotsInv'
    BY <1>2 DEF ClaimScan, SlotsInv, LastWritten, shared
  <2>4. QED
    BY <2>1, <2>2, <2>3
<1>3. ASSUME NEW m, LoadGate(m)
      PROVE  ProducerInv' /\ StoresInv' /\ ConsumerInv' /\ SlotsInv'
  <2>1. scan \in Consumers /\ scan \in Int
    BY <1>3, ConstantsAssumption DEF LoadGate, TypeOK, Consumers
  <2>2. m.val \in Int /\ m.r = m.val /\ m.val <= gate[scan]
    BY <1>3, <2>1, Ranges DEF LoadGate, StoresInv
  <2>3. /\ MinOf(lowest, m.val) <= lowest /\ MinOf(lowest, m.val) <= m.val
        /\ MinOf(lowest, m.val) \in Int
    BY <2>2, MinMax, Ranges
  <2>4. /\ MaxOf(readsKnown[scan], m.r) \in Int
        /\ MaxOf(readsKnown[scan], m.r) <= gate[scan]
        /\ MaxOf(readsKnown[scan], m.r) >= readsKnown[scan]
        /\ MaxOf(readsKnown[scan], m.r) >= m.val
    BY <2>1, <2>2, MinMax, Ranges DEF ProducerInv
  <2>5. /\ readsKnown'[scan] = MaxOf(readsKnown[scan], m.r)
        /\ \A c \in Consumers : c # scan => readsKnown'[c] = readsKnown[c]
        /\ lowest' = MinOf(lowest, m.val) /\ scan' = scan + 1
        /\ UNCHANGED <<shared, ppc, claimed, cachedGate, consumerVars>>
    BY <1>3, <2>1 DEF LoadGate, TypeOK
  <2>6. ProducerInv'
    <3>1. ASSUME NEW c \in Consumers
          PROVE  /\ cachedGate <= readsKnown'[c] /\ readsKnown'[c] <= gate[c]
                 /\ c < scan + 1 => lowest' <= readsKnown'[c]
      <4>1. CASE c = scan
        BY <4>1, <2>1, <2>2, <2>3, <2>4, <2>5, Ranges DEF ProducerInv
      <4>2. CASE c # scan
        <5>1. c \in Int /\ (c < scan + 1 => c < scan)
          BY <4>2, <2>1, ConstantsAssumption DEF Consumers
        <5>2. ppc = "scan" /\ readsKnown'[c] = readsKnown[c]
          BY <1>3, <4>2, <2>5 DEF LoadGate
        <5>3. QED
          BY <5>1, <5>2, <2>3, <2>5, Ranges DEF ProducerInv
      <4>3. QED
        BY <4>1, <4>2
    <3>2. ppc = "scan"
      BY <1>3 DEF LoadGate
    <3>3. QED
      BY <2>5, <3>1, <3>2 DEF ProducerInv, shared
  <2>7. StoresInv' /\ ConsumerInv'
    BY <2>5 DEF StoresInv, ConsumerInv, shared, consumerVars
  <2>8. SlotsInv'
    BY <2>5 DEF SlotsInv, LastWritten, shared
  <2>9. QED
    BY <2>6, <2>7, <2>8
<1>4. ASSUME ScanPass \/ ScanStall
      PROVE  ProducerInv' /\ StoresInv' /\ ConsumerInv' /\ SlotsInv'
  <2>1. \A c \in Consumers : lowest <= readsKnown[c]
    <3>1. \A c \in Consumers : c < NumConsumers
      BY ConstantsAssumption DEF Consumers
    <3>2. QED
      BY <1>4, <3>1 DEF ScanPass, ScanStall, ProducerInv
  <2>2. CASE ScanPass
    <3>1. \A c \in Consumers : claimed - N <= readsKnown[c]
      BY <2>1, <2>2, Ranges DEF ScanPass, Wraps
    <3>2. ProducerInv'
      BY <2>1, <2>2, <3>1 DEF ScanPass, ProducerInv, shared
    <3>3. QED
      BY <2>2, <3>2 DEF ScanPass, StoresInv, ConsumerInv, SlotsInv, LastWritten, shared, consumerVars
  <2>3. CASE ScanStall
    <3>1. \A c \in Consumers : ~(c < 0)
      BY ConstantsAssumption DEF Consumers
    <3>2. ProducerInv'
      BY <2>1, <2>3, <3>1 DEF ScanStall, ProducerInv, shared
    <3>3. QED
      BY <2>3, <3>2 DEF ScanStall, StoresInv, ConsumerInv, SlotsInv, LastWritten, shared, consumerVars
  <2>4. QED
    BY <1>4, <2>2, <2>3
<1>5. CASE WriteSlot
  <2>1. ProducerInv' /\ StoresInv' /\ ConsumerInv'
    BY <1>5 DEF WriteSlot, ProducerInv, StoresInv, ConsumerInv, consumerVars
  <2>2. SlotsInv'
    <3>1. /\ LastWritten' = claimed /\ claimed = cursor + 1 /\ LastWritten = cursor
          /\ claimed \in Nat /\ slots \in [Slots -> Int]
          /\ slots' = [slots EXCEPT ![SlotOf(claimed)] = claimed]
      BY <1>5, Ranges DEF WriteSlot, LastWritten, ProducerInv, TypeOK
    <3>2. SUFFICES ASSUME NEW s \in 0..claimed, claimed - N < s
                   PROVE  slots'[SlotOf(s)] = s
      BY <3>1 DEF SlotsInv
    <3>3. s \in Nat /\ SlotOf(s) \in Slots /\ SlotOf(claimed) \in Slots
      BY <3>1, SlotInRing
    <3>4. CASE s = claimed
      BY <3>1, <3>3, <3>4
    <3>5. CASE s < claimed
      <4>1. SlotOf(s) # SlotOf(claimed)
        BY <3>1, <3>2, <3>3, <3>5, SlotWindow, Ranges
      <4>2. s \in 0..cursor /\ cursor - N < s
        BY <3>1, <3>2, <3>3, <3>5, Ranges
      <4>3. slots[SlotOf(s)] = s
        BY <3>1, <4>2 DEF SlotsInv
      <4>4. QED
        BY <3>1, <3>3, <4>1, <4>3
    <3>6. QED
      BY <3>1, <3>3, <3>4, <3>5
  <2>3. QED
    BY <2>1, <2>2
<1>6. CASE Publish
  <2>1. claimed = cursor + 1 /\ cursor' = cursor + 1 /\ ppc' = "claim"
    BY <1>6 DEF Publish, ProducerInv
  <2>2. ProducerInv'
    <3>1. \A c \in Consumers : cursor' - N <= gate[c]
      BY <1>6, <2>1, Ranges DEF Publish, ProducerInv
    <3>2. QED
      BY <1>6, <2>1, <3>1 DEF Publish, ProducerInv
  <2>3. StoresInv'
    <3>1. \A m \in cursorStores' : m.val <= cursor' /\ m.w = m.val
      <4>1. CursorStore(claimed).val = cursor' /\ CursorStore(claimed).w = cursor'
        BY <1>6 DEF Publish, CursorStore
      <4>2. \A m \in cursorStores : m.val <= cursor' /\ m.w = m.val
        BY <2>1, Ranges DEF StoresInv
      <4>3. cursor' \in Int
        BY <2>1, Ranges
      <4>4. QED
        BY <1>6, <4>1, <4>2, <4>3 DEF Publish
    <3>2. \A c \in Consumers : \A m \in gateStores[c] : m.w <= cursor'
      BY <2>1, Ranges DEF StoresInv
    <3>3. QED
      BY <1>6, <3>1, <3>2 DEF Publish, StoresInv
  <2>4. ConsumerInv'
    <3>1. \A c \in Consumers : writesKnown[c] <= cursor'
      BY <2>1, Ranges DEF ConsumerInv
    <3>2. QED
      BY <1>6, <3>1 DEF Publish, ConsumerInv, consumerVars
  <2>5. SlotsInv'
    BY <1>6, <2>1 DEF Publish, SlotsInv, LastWritten
  <2>6. QED
    BY <2>2, <2>3, <2>4, <2>5
<1>7. CASE ProducerDone
  BY <1>7 DEF ProducerDone, ProducerInv, StoresInv, ConsumerInv, SlotsInv, LastWritten,
     shared, consumerVars
<1>8. QED
  BY <1>1, <1>2, <1>3, <1>4, <1>5, <1>6, <1>7 DEF Producer, LoadSomeGate

\* A step of a consumer does, and what it reads is what was published.
LEMMA ConsumerStep ==
  ASSUME IInv, NEW c \in Consumers, Consumer(c)
  PROVE  ProducerInv' /\ StoresInv' /\ ConsumerInv' /\ SlotsInv' /\ EveryEventIntact'
<1> USE DEF IInv
<1>0. \A d \in Consumers : Upstream(d) \subseteq Consumers /\ d \notin Upstream(d)
  BY ConstantsAssumption DEF Upstream, Consumers
<1>1. ASSUME NEW m, WaitFor(c, m)
      PROVE  ProducerInv' /\ StoresInv' /\ ConsumerInv' /\ SlotsInv' /\ EveryEventIntact'
  <2>1. /\ m.val \in Int /\ m.w \in Int /\ m.val <= m.w /\ m.w <= cursor
        /\ \A d \in Upstream(c) : m.val <= gate[d]
    <3>1. CASE Upstream(c) = {}
      BY <1>1, <3>1, Ranges DEF WaitFor, Awaited, StoresInv
    <3>2. CASE Upstream(c) # {}
      <4>1. c - 1 \in Consumers /\ Upstream(c) = {c - 1}
        BY <3>2, <1>0 DEF Upstream
      <4>2. QED
        BY <1>1, <3>2, <4>1, Ranges DEF WaitFor, Awaited, StoresInv
    <3>3. QED
      BY <3>1, <3>2
  <2>2. /\ MaxOf(writesKnown[c], m.w) \in Int /\ m.val <= MaxOf(writesKnown[c], m.w)
        /\ MaxOf(writesKnown[c], m.w) <= cursor
    BY <2>1, MinMax, Ranges DEF ConsumerInv
  <2>3. /\ available' = [available EXCEPT ![c] = m.val]
        /\ writesKnown' = [writesKnown EXCEPT ![c] = MaxOf(writesKnown[c], m.w)]
        /\ cpc' = [cpc EXCEPT ![c] = "drain"]
        /\ m.val >= next[c]
        /\ UNCHANGED <<shared, producerVars, next, ordered>>
    BY <1>1 DEF WaitFor
  <2>4. ConsumerInv'
    <3>1. available'[c] = m.val /\ writesKnown'[c] = MaxOf(writesKnown[c], m.w) /\ cpc'[c] = "drain"
      BY <2>3 DEF TypeOK
    <3>2. \A d \in Consumers : d # c => /\ available'[d] = available[d]
                                        /\ writesKnown'[d] = writesKnown[d] /\ cpc'[d] = cpc[d]
      BY <2>3 DEF TypeOK
    <3>3. next[c] <= m.val + 1
      BY <2>1, <2>3, Ranges
    <3>4. QED
      BY <2>1, <2>2, <2>3, <3>1, <3>2, <3>3 DEF ConsumerInv, shared
  <2>5. QED
    BY <2>3, <2>4 DEF ProducerInv, StoresInv, SlotsInv, LastWritten, EveryEventIntact,
       shared, producerVars
<1>2. CASE Process(c)
  <2>1. /\ cpc[c] = "drain" /\ next[c] <= available[c]
        /\ next' = [next EXCEPT ![c] = next[c] + 1]
        /\ UNCHANGED <<shared, producerVars, cpc, available, writesKnown>>
    BY <1>2 DEF Process
  <2>2. ordered' = [ordered EXCEPT ![c] = TRUE]
    <3>1. CheckOutcomes(c) = {TRUE}
      BY <2>1, ReadIsSafe DEF CheckOutcomes, EveryEventIntact
    <3>2. QED
      BY <1>2, <3>1 DEF Process
  <2>3. ConsumerInv'
    <3>1. next'[c] = next[c] + 1 /\ \A d \in Consumers : d # c => next'[d] = next[d]
      BY <2>1 DEF TypeOK
    <3>2. gate[c] < next[c] + 1 /\ next[c] + 1 <= available[c] + 1
      BY <2>1, Ranges DEF ConsumerInv
    <3>3. QED
      BY <2>1, <3>1, <3>2 DEF ConsumerInv, shared
  <2>4. EveryEventIntact'
    BY <2>2 DEF EveryEventIntact, TypeOK
  <2>5. QED
    BY <2>1, <2>3, <2>4 DEF ProducerInv, StoresInv, SlotsInv, LastWritten, shared, producerVars
<1>3. CASE ReleaseGate(c)
  <2>1. /\ next[c] > available[c]
        /\ gate' = [gate EXCEPT ![c] = available[c]]
        /\ gateStores' = [gateStores EXCEPT ![c] = gateStores[c] \union {GateStore(c)}]
        /\ cpc' = [cpc EXCEPT ![c] = "wait"]
        /\ UNCHANGED <<slots, cursor, cursorStores, producerVars, next, available,
                       writesKnown, ordered>>
    BY <1>3 DEF ReleaseGate
  <2>2. next[c] = available[c] + 1 /\ gate[c] <= available[c]
    BY <2>1, Ranges DEF ConsumerInv
  <2>3. gate'[c] = available[c] /\ \A d \in Consumers : d # c => gate'[d] = gate[d]
    BY <2>1 DEF TypeOK
  <2>4. \A d \in Consumers : gate'[d] \in Int /\ gate[d] <= gate'[d]
    BY <2>2, <2>3, Ranges
  <2>5. ProducerInv'
    <3>1. \A d \in Consumers : readsKnown[d] <= gate'[d] /\ cursor - N <= gate'[d]
      BY <2>4, Ranges DEF ProducerInv
    <3>2. QED
      BY <2>1, <3>1 DEF ProducerInv, producerVars
  <2>6. StoresInv'
    <3>1. GateStore(c).val = available[c] /\ GateStore(c).r = available[c]
          /\ GateStore(c).w = writesKnown[c]
      BY <2>2, Ranges DEF GateStore
    <3>2. available[c] <= writesKnown[c] /\ writesKnown[c] <= cursor
      BY DEF ConsumerInv
    <3>3. ASSUME NEW d \in Consumers, NEW m \in gateStores'[d]
          PROVE  m.val <= gate'[d] /\ m.r = m.val /\ m.val <= m.w /\ m.w <= cursor
      <4>1. CASE m \in gateStores[d]
        BY <4>1, <2>4, Ranges DEF StoresInv
      <4>2. CASE m \notin gateStores[d]
        <5>1. d = c /\ m = GateStore(c)
          BY <2>1, <3>3, <4>2 DEF TypeOK
        <5>2. QED
          BY <5>1, <2>3, <3>1, <3>2, Ranges
      <4>3. QED
        BY <4>1, <4>2
    <3>4. QED
      BY <2>1, <3>3 DEF StoresInv
  <2>7. ConsumerInv'
    <3>1. cpc'[c] = "wait" /\ \A d \in Consumers : d # c => cpc'[d] = cpc[d]
      BY <2>1 DEF TypeOK
    <3>2. gate'[c] < next[c] /\ next[c] = gate'[c] + 1
      BY <2>2, <2>3, Ranges
    <3>3. \A d \in Consumers : \A u \in Upstream(d) : available[d] <= gate'[u]
      BY <1>0, <2>4, Ranges DEF ConsumerInv
    <3>4. QED
      BY <2>1, <2>3, <3>1, <3>2, <3>3 DEF ConsumerInv
  <2>8. QED
    BY <2>1, <2>5, <2>6, <2>7 DEF SlotsInv, LastWritten, EveryEventIntact, producerVars
<1>4. CASE ConsumerDone(c)
  <2>1. /\ cpc[c] = "wait" /\ cpc' = [cpc EXCEPT ![c] = "done"]
        /\ UNCHANGED <<shared, producerVars, next, available, writesKnown, ordered>>
    BY <1>4 DEF ConsumerDone
  <2>2. \A d \in Consumers : cpc'[d] # "drain" => cpc[d] # "drain"
    BY <2>1 DEF TypeOK
  <2>3. QED
    BY <2>1, <2>2 DEF ProducerInv, StoresInv, ConsumerInv, SlotsInv, LastWritten,
       EveryEventIntact, shared, producerVars
<1>5. QED
  BY <1>1, <1>2, <1>3, <1>4 DEF Consumer

\* A store is never unmade, and the newest one is what the thread stored last.
LEMMA NewestStep ==
  ASSUME IInv, [Next]_vars
  PROVE  NewestInv'
<1> USE DEF IInv
<1>1. CASE ClaimCached \/ ClaimScan \/ ScanPass \/ ScanStall \/ WriteSlot \/ ProducerDone
  BY <1>1 DEF ClaimCached, ClaimScan, ScanPass, ScanStall, WriteSlot, ProducerDone,
     NewestInv, MoreEvents, shared, consumerVars
<1>2. ASSUME NEW m, LoadGate(m) PROVE NewestInv'
  <2>1. scan \in Consumers
    BY <1>2, ConstantsAssumption DEF LoadGate, TypeOK, Consumers
  <2>2. m.val <= gate[scan]
    BY <1>2, <2>1 DEF LoadGate, StoresInv
  <2>3. \A c \in Consumers : seenGate'[c] <= gate[c]
    BY <1>2, <2>1, <2>2 DEF LoadGate, NewestInv, TypeOK
  <2>4. QED
    BY <1>2, <2>3 DEF LoadGate, NewestInv, MoreEvents, shared, consumerVars
<1>3. CASE Publish
  <2>1. CursorStore(claimed) \in cursorStores' /\ CursorStore(claimed).val = cursor'
    BY <1>3 DEF Publish, CursorStore
  <2>2. QED
    BY <1>3, <2>1 DEF Publish, NewestInv, consumerVars
<1>4. ASSUME NEW c \in Consumers, NEW m, WaitFor(c, m) PROVE NewestInv'
  BY <1>4 DEF WaitFor, NewestInv, MoreEvents, TypeOK, shared, producerVars
<1>5. ASSUME NEW c \in Consumers, Process(c) PROVE NewestInv'
  <2>1. \A d \in Consumers : cpc[d] = "done" => next'[d] = next[d]
    BY <1>5 DEF Process, TypeOK
  <2>2. QED
    BY <1>5, <2>1 DEF Process, NewestInv, MoreEvents, shared, producerVars
<1>6. ASSUME NEW c \in Consumers, ReleaseGate(c) PROVE NewestInv'
  <2>1. gate[c] <= available[c]
    BY <1>6, Ranges DEF ReleaseGate, ConsumerInv
  <2>2. ASSUME NEW d \in Consumers
        PROVE  /\ \E m \in gateStores'[d] : m.val = gate'[d]
               /\ seenGate[d] <= gate'[d]
    <3>1. CASE d = c
      <4>1. /\ GateStore(c) \in gateStores'[d] /\ GateStore(c).val = gate'[d]
            /\ gate'[d] = available[c]
        BY <1>6, <3>1 DEF ReleaseGate, GateStore, TypeOK
      <4>2. QED
        BY <3>1, <4>1, <2>1, Ranges DEF NewestInv
    <3>2. CASE d # c
      BY <1>6, <3>2 DEF ReleaseGate, NewestInv, TypeOK
    <3>3. QED
      BY <3>1, <3>2
  <2>3. QED
    BY <1>6, <2>2 DEF ReleaseGate, NewestInv, MoreEvents, TypeOK, producerVars
<1>7. ASSUME NEW c \in Consumers, ConsumerDone(c) PROVE NewestInv'
  BY <1>7 DEF ConsumerDone, NewestInv, MoreEvents, TypeOK, shared, producerVars
<1>8. CASE UNCHANGED vars
  BY <1>8 DEF vars, shared, producerVars, consumerVars, NewestInv, MoreEvents
<1>9. QED
  BY <1>1, <1>2, <1>3, <1>4, <1>5, <1>6, <1>7, <1>8
     DEF Next, Producer, LoadSomeGate, Consumer, Joined

LEMMA StepInvariant == IInv /\ [Next]_vars => IInv'
<1> SUFFICES ASSUME IInv, [Next]_vars PROVE IInv'
  OBVIOUS
<1>1. TypeOK' /\ NewestInv'
  BY TypeStep, NewestStep DEF IInv
<1>2. CASE Producer
  <2>1. ordered' = ordered
    BY <1>2 DEF Producer, ClaimCached, ClaimScan, LoadSomeGate, LoadGate, ScanPass, ScanStall,
       WriteSlot, Publish, ProducerDone, consumerVars
  <2>2. QED
    BY <1>1, <1>2, <2>1, ProducerStep DEF IInv, EveryEventIntact
<1>3. ASSUME NEW c \in Consumers, Consumer(c) PROVE IInv'
  BY <1>1, <1>3, ConsumerStep DEF IInv
<1>4. CASE UNCHANGED vars
  BY <1>1, <1>4 DEF IInv, ProducerInv, StoresInv, ConsumerInv, SlotsInv,
     LastWritten, EveryEventIntact, vars, shared, producerVars, consumerVars
<1>5. QED
  BY <1>2, <1>3, <1>4 DEF Next, Joined

\* The inductive invariant holds in every reachable state.
THEOREM Invariant == Spec => []IInv
BY InitInvariant, StepInvariant, PTL DEF Spec

-----------------------------------------------------------------------------
(* What the invariant means for the program.                                 *)

\* No two accesses to a slot race: the release and acquire orders of J4 are
\* enough for any ring size, any number of consumers, in either topology.
THEOREM RaceFree == Spec => []NoDataRace
<1>1. IInv => NoDataRace
  <2>1. SUFFICES ASSUME IInv PROVE NoDataRace
    OBVIOUS
  <2>2. ReadIsOrdered
    BY <2>1, ReadIsSafe DEF IInv, ReadIsOrdered
  <2>3. WriteIsOrdered
    <3>1. SUFFICES ASSUME ppc = "write", NEW c \in Consumers, NEW s \in 0..(next[c] - 1),
                          SlotOf(s) = SlotOf(claimed)
                   PROVE  s <= readsKnown[c]
      BY DEF WriteIsOrdered
    <3>2. claimed = cursor + 1 /\ claimed - N <= readsKnown[c]
      BY <2>1, <3>1 DEF IInv, ProducerInv
    <3>3. next[c] <= available[c] + 1 /\ available[c] <= writesKnown[c] /\ writesKnown[c] <= cursor
      BY <2>1 DEF IInv, ConsumerInv
    <3>4. TypeOK
      BY <2>1 DEF IInv
    <3>5. s \in Nat /\ claimed \in Nat /\ s < claimed
      BY <3>2, <3>3, <3>4, Ranges
    <3>6. s <= claimed - N
      BY <3>1, <3>5, SlotWindow
    <3>7. QED
      BY <3>2, <3>4, <3>5, <3>6, Ranges
  <2>4. QED
    BY <2>2, <2>3 DEF NoDataRace
<1>2. QED
  BY <1>1, Invariant, PTL

\* Every consumer sees every event, once, in order and intact.
THEOREM Intact == Spec => []EveryEventIntact
<1>1. IInv => EveryEventIntact
  BY DEF IInv
<1>2. QED
  BY <1>1, Invariant, PTL

\* The producer never laps the slowest consumer.
THEOREM Gating == Spec => []NeverLapped
<1>1. IInv => NeverLapped
  <2>1. SUFFICES ASSUME IInv, ppc \in {"write", "publish"}, NEW c \in Consumers
                 PROVE  claimed - N <= gate[c]
    BY DEF NeverLapped
  <2>2. claimed - N <= readsKnown[c] /\ readsKnown[c] <= gate[c]
    BY <2>1 DEF IInv, ProducerInv
  <2>3. QED
    BY <2>1, <2>2, Ranges DEF IInv
<1>2. QED
  BY <1>1, Invariant, PTL

\* cached_gate_, however stale, never promises room no consumer has given.
THEOREM CachedGateSafe == Spec => []StaleGateIsSafe
<1>1. IInv => StaleGateIsSafe
  <2>1. SUFFICES ASSUME IInv, NEW c \in Consumers PROVE cachedGate <= gate[c]
    BY DEF StaleGateIsSafe
  <2>2. cachedGate <= readsKnown[c] /\ readsKnown[c] <= gate[c]
    BY <2>1 DEF IInv, ProducerInv
  <2>3. QED
    BY <2>1, <2>2, Ranges DEF IInv
<1>2. QED
  BY <1>1, Invariant, PTL

\* A batch is never longer than the ring.
THEOREM BatchBound == Spec => []BatchFitsRing
<1>1. IInv => BatchFitsRing
  <2>1. SUFFICES ASSUME IInv, NEW c \in Consumers PROVE available[c] - gate[c] <= N
    BY DEF BatchFitsRing
  <2>2. available[c] <= writesKnown[c] /\ writesKnown[c] <= cursor /\ cursor - N <= gate[c]
    BY <2>1 DEF IInv, ProducerInv, ConsumerInv
  <2>3. QED
    BY <2>1, <2>2, Ranges DEF IInv
<1>2. QED
  BY <1>1, Invariant, PTL

\* In a chain every consumer stays behind the one it depends on.
THEOREM Chain == Spec => []ChainOrder
<1>1. IInv => ChainOrder
  <2>1. SUFFICES ASSUME IInv, NEW c \in Consumers, NEW d \in Upstream(c)
                 PROVE  next[c] - 1 <= gate[d]
    BY DEF ChainOrder
  <2>2. d \in Consumers
    BY <2>1, ConstantsAssumption DEF Upstream, Consumers
  <2>3. next[c] <= available[c] + 1 /\ available[c] <= gate[d]
    BY <2>1 DEF IInv, ConsumerInv
  <2>4. QED
    BY <2>1, <2>2, <2>3, Ranges DEF IInv
<1>2. QED
  BY <1>1, Invariant, PTL

-----------------------------------------------------------------------------
(* Nobody waits for ever on one another.                                     *)

\* Of the numbers with a property there is a least one.
LEMMA LeastOf ==
  ASSUME NEW S \in SUBSET Nat, S # {}
  PROVE  \E n \in S : \A k \in S : n <= k
<1> DEFINE R == OpToRel(<, Nat)
<1>1. IsWellFoundedOn(R, Nat)
  BY NatLessThanWellFounded
<1>2. PICK n \in S : \A k \in S : ~(<<k, n>> \in R)
  <2> HIDE DEF R
  <2>1. QED
    BY <1>1, WFMin
<1>3. \A x, y \in Nat : <<x, y>> \in R <=> x < y
  BY DEF OpToRel
<1> HIDE DEF R
<1>4. ASSUME NEW k \in S PROVE n <= k
  <2>1. n \in Nat /\ k \in Nat /\ ~(k < n)
    BY <1>2, <1>3
  <2>2. QED
    BY <2>1
<1>5. QED
  BY <1>2, <1>4

\* The first consumer, in the order of the chain, that is behind the cursor is
\* not waiting: what it waits for has passed the event it wants.
LEMMA FirstBehindGoesOn ==
  ASSUME IInv, NEW c \in Consumers, gate[c] < cursor,
         \A d \in Consumers : gate[d] < cursor => c <= d
  PROVE  cpc[c] # "done" /\ ~ConsumerWaits(c)
<1> USE DEF IInv
<1>1. cursor < Total /\ Total \in Nat /\ gate[c] \in Int /\ next[c] \in Nat
  BY Ranges, ConstantsAssumption DEF TypeOK, Sequence
<1>2. ASSUME cpc[c] # "drain" PROVE next[c] <= cursor /\ next[c] < Total
  BY <1>1, <1>2, Ranges DEF ConsumerInv
<1>3. cpc[c] # "done"
  BY <1>1, <1>2 DEF NewestInv
<1>4. ASSUME cpc[c] = "wait" PROVE \E m \in Awaited(c) : m.val >= next[c]
  <2>1. CASE Upstream(c) = {}
    BY <1>2, <1>4, <2>1 DEF Awaited, NewestInv
  <2>2. CASE Upstream(c) # {}
    <3>1. c \in Int /\ c - 1 \in Consumers /\ c - 1 < c
      BY <2>2, ConstantsAssumption DEF Upstream, Consumers
    <3>2. gate[c - 1] >= cursor
      BY <3>1, Ranges
    <3>3. \E m \in gateStores[c - 1] : m.val = gate[c - 1]
      BY <3>1 DEF NewestInv
    <3>4. QED
      BY <1>1, <1>2, <1>4, <2>2, <3>1, <3>2, <3>3, Ranges DEF Awaited
  <2>3. QED
    BY <2>1, <2>2
<1>5. QED
  BY <1>3, <1>4 DEF ConsumerWaits

\* Back-pressure never becomes a circle, whatever the ring's size and the
\* topology: until run() is over some thread is held up by no other.
THEOREM Standstill == Spec => []NoStandstill
<1>1. IInv => NoStandstill
  <2> SUFFICES ASSUME IInv PROVE NoStandstill
    OBVIOUS
  <2> USE DEF IInv
  <2>1. CASE \E c \in Consumers : gate[c] < cursor
    <3> DEFINE Behind == {c \in Consumers : gate[c] < cursor}
    <3>1. Behind \in SUBSET Nat /\ Behind # {}
      BY <2>1, ConstantsAssumption DEF Consumers
    <3>2. PICK c \in Behind : \A d \in Behind : c <= d
      BY <3>1, LeastOf
    <3>3. QED
      BY <3>2, FirstBehindGoesOn DEF NoStandstill
  <2>2. CASE \A c \in Consumers : ~(gate[c] < cursor)
    <3>1. \A c \in Consumers : ~Wraps(cursor + 1, gate[c])
      BY <2>2, Ranges DEF Wraps
    <3>2. CASE ppc # "done"
      BY <3>1, <3>2 DEF NoStandstill, ProducerWaits
    <3>3. CASE ppc = "done"
      <4>1. cursor + 1 >= Total /\ Total \in Nat
        BY <3>3, ConstantsAssumption, Ranges DEF NewestInv, MoreEvents
      <4>2. \A c \in Consumers : cpc[c] = "wait" => next[c] >= Total
        BY <2>2, <4>1, Ranges DEF ConsumerInv
      <4>3. QED
        BY <3>3, <4>1, <4>2, Ranges DEF NoStandstill, AllDone, ConsumerWaits
    <3>4. QED
      BY <3>2, <3>3
  <2>3. QED
    BY <2>1, <2>2
<1>2. QED
  BY <1>1, Invariant, PTL

\* The scan of the gates is never stuck on what it has seen: the newest store
\* of the next gate is always one that it may load.
FreshGateLoads ==
  ppc = "scan" /\ scan < NumConsumers =>
    \E m \in gateStores[scan] : m.val = gate[scan] /\ m.val >= seenGate[scan]

\* What the fairness of LoadFreshGate asks for can always be done.
THEOREM FreshGates == Spec => []FreshGateLoads
<1>1. IInv => FreshGateLoads
  <2>1. SUFFICES ASSUME IInv, ppc = "scan", scan < NumConsumers
                 PROVE  \E m \in gateStores[scan] : m.val = gate[scan] /\ m.val >= seenGate[scan]
    BY DEF FreshGateLoads
  <2>2. scan \in Consumers
    BY <2>1, ConstantsAssumption DEF IInv, TypeOK, Consumers
  <2>3. QED
    BY <2>1, <2>2, Ranges DEF IInv, NewestInv
<1>2. QED
  BY <1>1, Invariant, PTL

-----------------------------------------------------------------------------
(* The ring implements the broadcast log.                                    *)

LEMMA LogInit == Init => Log!Init
BY DEF Init, Log!Init

\* Publishing appends, reading an event takes it, storing the gate releases
\* the batch; every other step of a thread is invisible to the log.
LEMMA LogStep == IInv /\ [Next]_vars => [Log!Next]_(Log!logVars)
<1> SUFFICES ASSUME IInv, [Next]_vars PROVE [Log!Next]_(Log!logVars)
  OBVIOUS
<1> DEFINE Stutter == UNCHANGED <<cursor, next, gate, ordered>>
<1>0. TypeOK /\ ProducerInv /\ ConsumerInv /\ SlotsInv /\ EveryEventIntact
  BY DEF IInv
<1>1. Stutter => UNCHANGED Log!logVars
  BY DEF Log!logVars
<1>2. CASE Publish
  <2>1. claimed = cursor + 1 /\ cursor' = cursor + 1 /\ claimed \in Sequence
    BY <1>0, <1>2 DEF Publish, ProducerInv, TypeOK
  <2>2. cursor + 1 < Total
    BY <1>0, <2>1, Ranges, ConstantsAssumption DEF Sequence
  <2>3. \A c \in Consumers : claimed - N <= readsKnown[c] /\ readsKnown[c] <= gate[c]
    BY <1>0, <1>2 DEF Publish, ProducerInv
  <2>4. \A c \in Consumers : (cursor + 1) - [d \in Consumers |-> gate[d] + 1][c] < N
    BY <1>0, <2>1, <2>3, Ranges
  <2>5. Log!Append
    BY <1>2, <2>1, <2>2, <2>4 DEF Publish, Log!Append, consumerVars
  <2>6. QED
    BY <2>5 DEF Log!Next
<1>3. ASSUME NEW c \in Consumers, Process(c) PROVE Log!Take(c)
  <2>1. next[c] <= available[c] /\ next' = [next EXCEPT ![c] = next[c] + 1]
    BY <1>3 DEF Process
  <2>2. CheckOutcomes(c) = {TRUE}
    BY <1>0, <2>1, ReadIsSafe DEF CheckOutcomes, EveryEventIntact
  <2>3. ordered' = ordered
    BY <1>0, <1>3, <2>2 DEF Process, TypeOK, EveryEventIntact
  <2>4. next[c] < cursor + 1
    BY <1>0, <2>1, Ranges DEF ConsumerInv
  <2>5. \A d \in Upstream(c) : d \in Consumers /\ next[c] < gate[d] + 1
    <3>1. Upstream(c) \subseteq Consumers
      BY ConstantsAssumption DEF Upstream, Consumers
    <3>2. QED
      BY <1>0, <2>1, <3>1, Ranges DEF ConsumerInv
  <2>6. QED
    BY <1>3, <2>1, <2>3, <2>4, <2>5 DEF Process, Log!Take, shared
<1>4. ASSUME NEW c \in Consumers, ReleaseGate(c) PROVE Log!Release(c) \/ Stutter
  <2>1. /\ gate' = [gate EXCEPT ![c] = available[c]]
        /\ UNCHANGED <<cursor, next, ordered>>
    BY <1>4 DEF ReleaseGate
  <2>2. next[c] = available[c] + 1 /\ gate[c] < next[c]
    BY <1>0, <1>4, Ranges DEF ReleaseGate, ConsumerInv
  <2>3. CASE gate[c] = available[c]
    BY <1>0, <2>1, <2>3 DEF TypeOK
  <2>4. CASE gate[c] # available[c]
    <3>1. gate[c] + 1 < next[c]
      BY <1>0, <2>2, <2>4, Ranges
    <3>2. gate \in [Consumers -> Sequence]
      BY <1>0 DEF TypeOK
    <3>3. [d \in Consumers |-> gate'[d] + 1]
            = [[d \in Consumers |-> gate[d] + 1] EXCEPT ![c] = next[c]]
      BY <2>1, <2>2, <3>2
    <3>4. QED
      BY <2>1, <3>1, <3>3 DEF Log!Release
  <2>5. QED
    BY <2>3, <2>4
<1>5. ASSUME Producer, ~Publish PROVE Stutter
  BY <1>5 DEF Producer, ClaimCached, ClaimScan, LoadSomeGate, LoadGate, ScanPass, ScanStall,
     WriteSlot, ProducerDone, shared, consumerVars
<1>6. ASSUME NEW c \in Consumers, NEW m, WaitFor(c, m) \/ ConsumerDone(c) PROVE Stutter
  BY <1>6 DEF WaitFor, ConsumerDone, shared
<1>7. CASE UNCHANGED vars
  BY <1>1, <1>7 DEF vars, shared, consumerVars
<1>8. QED
  BY <1>1, <1>2, <1>3, <1>4, <1>5, <1>6, <1>7 DEF Next, Consumer, Joined, Log!Next

\* Whatever the sizes and the topology, the ring with its stale loads, cached
\* gate and batches behaves as the broadcast log.
THEOREM ImplementsLog == Spec => LogSpec
BY LogInit, LogStep, Invariant, PTL DEF Spec, LogSpec, Log!Spec

=============================================================================
