----------------------------- MODULE SpscProofs -----------------------------
(***************************************************************************)
(* Proofs about Spsc, for every capacity, every number of items and of     *)
(* calls of run(), cached indices or not, seq_cst or not.                  *)
(***************************************************************************)
EXTENDS Spsc, SequenceTheorems, TLAPS

-----------------------------------------------------------------------------
(* Remainders.                                                               *)

\* Two numbers with the same remainder are at least a period apart: a ring of
\* n slots never aliases two entries of one window of n.
LEMMA ModWindow ==
  ASSUME NEW n \in Nat \ {0}, NEW a \in Nat, NEW b \in Nat, a < b, a % n = b % n
  PROVE  a <= b - n
<1> DEFINE qa == a \div n
           qb == b \div n
<1>1. qa \in Int /\ qb \in Int /\ a = n * qa + (a % n) /\ b = n * qb + (b % n)
  OBVIOUS
<1>2. b - a = n * (qb - qa)
  BY <1>1
<1>3. qb - qa >= 1
  BY <1>1, <1>2
<1>4. n * (qb - qa) >= n
  BY <1>1, <1>3
<1>5. QED
  BY <1>2, <1>4

\* The remainder is the one number below n that differs by a multiple of n.
LEMMA ModUnique ==
  ASSUME NEW n \in Nat \ {0}, NEW a \in Nat, NEW q \in Int, NEW r \in 0..(n - 1),
         a = n * q + r
  PROVE  a % n = r
<1> DEFINE p == a \div n
           d == p - q
<1>1. p \in Int /\ d \in Int /\ a = n * p + (a % n) /\ a % n \in 0..(n - 1)
  OBVIOUS
<1>2. n * d = r - (a % n)
  BY <1>1
<1>3. CASE d >= 1
  <2>1. n * d >= n
    BY <1>1, <1>3
  <2>2. QED
    BY <1>1, <1>2, <2>1
<1>4. CASE d <= -1
  <2>1. n * d <= -n
    BY <1>1, <1>4
  <2>2. QED
    BY <1>1, <1>2, <2>1
<1>5. CASE d = 0
  BY <1>1, <1>2, <1>5
<1>6. QED
  BY <1>1, <1>3, <1>4, <1>5

\* A whole period later the remainder is the same.
LEMMA ModPeriod ==
  ASSUME NEW n \in Nat \ {0}, NEW a \in Nat
  PROVE  (a + n) % n = a % n
<1> DEFINE q == a \div n
<1>1. q \in Int /\ a = n * q + (a % n) /\ a % n \in 0..(n - 1)
  OBVIOUS
<1>2. q + 1 \in Int /\ a + n = n * (q + 1) + (a % n) /\ a + n \in Nat
  BY <1>1
<1>3. QED
  BY <1>1, <1>2, ModUnique

\* Stepping an index is stepping the number it is the remainder of.
LEMMA ModSucc ==
  ASSUME NEW n \in Nat \ {0}, NEW a \in Nat
  PROVE  ((a % n) + 1) % n = (a + 1) % n
<1> DEFINE q == a \div n
           r == a % n
<1>1. a = n * q + r /\ r \in 0..(n - 1) /\ q \in Int /\ r + 1 \in Nat /\ a + 1 \in Nat
  OBVIOUS
<1>2. CASE r < n - 1
  <2>1. /\ r + 1 \in 0..(n - 1) /\ a + 1 = n * q + (r + 1)
        /\ 0 \in Int /\ r + 1 = n * 0 + (r + 1)
    BY <1>1, <1>2
  <2>2. (a + 1) % n = r + 1
    BY <1>1, <2>1, ModUnique
  <2>3. (r + 1) % n = r + 1
    BY <1>1, <2>1, ModUnique
  <2>4. QED
    BY <2>2, <2>3
<1>3. CASE r = n - 1
  <2>1. /\ 0 \in 0..(n - 1) /\ a + 1 = n * (q + 1) + 0 /\ q + 1 \in Int
        /\ 1 \in Int /\ r + 1 = n * 1 + 0
    BY <1>1, <1>3
  <2>2. (a + 1) % n = 0
    BY <1>1, <2>1, ModUnique
  <2>3. (r + 1) % n = 0
    BY <1>1, <2>1, ModUnique
  <2>4. QED
    BY <2>2, <2>3
<1>4. QED
  BY <1>1, <1>2, <1>3

-----------------------------------------------------------------------------
(* The operators of the model.                                               *)

\* The numbers the model computes with.
LEMMA Lengths ==
  ASSUME TypeOK
  PROVE  /\ pushes \in Nat /\ Len(pStores) = pushes + 1
         /\ pops \in Nat /\ Len(cStores) = pops + 1
         /\ Items[round] \in Nat
<1>1. Len(pStores) \in Nat /\ Len(pStores) >= 1 /\ Len(cStores) \in Nat /\ Len(cStores) >= 1
  BY DEF TypeOK
<1>2. Items[round] \in Nat
  BY ConstantsAssumption DEF TypeOK
<1>3. QED
  BY <1>1, <1>2 DEF pushes, pops

LEMMA Ranges ==
  ASSUME TypeOK
  PROVE  /\ N \in Nat /\ N >= 1
         /\ pushes \in Nat /\ pops \in Nat
         /\ pSeen \in Nat /\ 1 <= pSeen /\ pSeen <= pops + 1
         /\ cSeen \in Nat /\ 1 <= cSeen /\ cSeen <= pushes + 1
         /\ readsKnown \in Nat /\ writesKnown \in Nat
         /\ sent \in Nat /\ received \in Nat
         /\ Writes \in Nat /\ pushes <= Writes /\ Writes <= pushes + 1
<1>1. pSeen \in 1..(pops + 1) /\ cSeen \in 1..(pushes + 1)
  BY Lengths DEF TypeOK
<1>2. Writes \in Nat /\ pushes <= Writes /\ Writes <= pushes + 1
  BY Lengths DEF Writes
<1>3. pushes \in Nat /\ pops \in Nat
  BY Lengths
<1>4. N \in Nat /\ N >= 1
  BY ConstantsAssumption
<1>5. QED
  BY <1>1, <1>2, <1>3, <1>4 DEF TypeOK

LEMMA SlotRange ==
  ASSUME NEW e \in Nat
  PROVE  SlotOf(e) \in Slots
BY ConstantsAssumption DEF SlotOf, Slots

\* Two entries of one window of N have different slots.
LEMMA SlotsDiffer ==
  ASSUME NEW a \in Nat, NEW b \in Nat, a < b, b - a < N
  PROVE  SlotOf(a) # SlotOf(b)
<1>1. N \in Nat \ {0}
  BY ConstantsAssumption
<1>2. SUFFICES ASSUME SlotOf(a) = SlotOf(b) PROVE FALSE
  OBVIOUS
<1>3. a <= b - N
  BY <1>1, <1>2, ModWindow DEF SlotOf
<1>4. QED
  BY <1>1, <1>3

\* The indices are the numbers of pushes and pops, modulo N.
LEMMA IndexValues ==
  ASSUME TypeOK, StoresInv
  PROVE  /\ pIndex = SlotOf(pushes) /\ NextIndex(pIndex) = SlotOf(pushes + 1)
         /\ cIndex = SlotOf(pops) /\ NextIndex(cIndex) = SlotOf(pops + 1)
<1>1. pIndex = SlotOf(pushes) /\ cIndex = SlotOf(pops)
  <2>1. /\ Len(pStores) \in 1..Len(pStores) /\ Len(pStores) - 1 = pushes
        /\ Len(cStores) \in 1..Len(cStores) /\ Len(cStores) - 1 = pops
    BY Lengths
  <2>2. pStores[Len(pStores)] = SlotOf(Len(pStores) - 1) /\ cStores[Len(cStores)] = SlotOf(Len(cStores) - 1)
    BY <2>1 DEF StoresInv
  <2>3. QED
    BY <2>1, <2>2 DEF pIndex, cIndex
<1>2. QED
  BY <1>1, Ranges, ModSucc DEF NextIndex, SlotOf

\* A push that is not refused on a read index of k pops leaves a slot free.
LEMMA FullMeans ==
  ASSUME TypeOK, StoresInv, NEW k \in Nat, pushes - k <= N - 1, ~Full(SlotOf(k))
  PROVE  pushes - k <= N - 2
<1>0. pushes \in Nat /\ N \in Nat /\ N >= 1
  BY Ranges
<1>1. SUFFICES ASSUME pushes - k = N - 1 PROVE FALSE
  BY <1>0
<1>2. pushes + 1 = k + N
  BY <1>1, Ranges
<1>3. SlotOf(pushes + 1) = SlotOf(k)
  BY <1>2, Ranges, ModPeriod DEF SlotOf
<1>4. QED
  BY <1>3, IndexValues DEF Full

\* A pop that is not refused on a write index of k pushes finds an item.
LEMMA EmptyMeans ==
  ASSUME TypeOK, StoresInv, NEW k \in Nat, pops <= k, ~Empty(SlotOf(k))
  PROVE  pops + 1 <= k
BY Ranges, IndexValues DEF Empty

\* One more store to an index.
LEMMA AppendStore ==
  ASSUME NEW s \in Seq(Slots), NEW v \in Slots
  PROVE  /\ Append(s, v) \in Seq(Slots) /\ Append(s, v) # << >>
         /\ Len(Append(s, v)) = Len(s) + 1
         /\ Append(s, v)[Len(s) + 1] = v
         /\ \A k \in 1..Len(s) : Append(s, v)[k] = s[k]
BY AppendProperties

LEMMA MaxValue ==
  ASSUME NEW a \in Nat, NEW b \in Nat, a <= b
  PROVE  MaxOf(a, b) = b
BY DEF MaxOf

-----------------------------------------------------------------------------
(* Type correctness and the inductive invariant.                             *)

\* What a load of an index by the other thread may return.
LEMMA VisibleRange ==
  ASSUME NEW s \in Seq(Slots), s # << >>, NEW seen \in 1..Len(s), NEW k \in Visible(s, seen)
  PROVE  k \in 1..Len(s) /\ seen <= k
BY DEF Visible

LEMMA InitInvariant == Init => IInv
<1> SUFFICES ASSUME Init PROVE IInv
  OBVIOUS
<1>1. N \in Nat \ {0} /\ 0 \in Slots /\ 1 \in 1..Rounds /\ Items[1] \in Nat
  BY ConstantsAssumption DEF Slots
<1>2. <<0>> \in Seq(Slots) /\ <<0>> # << >> /\ Len(<<0>>) = 1 /\ <<0>>[1] = 0
  BY <1>1
<1>3. TypeOK
  BY <1>1, <1>2 DEF Init, TypeOK
<1>4. SlotOf(0) = 0
  BY <1>1 DEF SlotOf
<1>5. pushes = 0 /\ pops = 0 /\ Writes = 0
  BY <1>2 DEF Init, pushes, pops, Writes
<1>6. StoresInv
  <2>1. 1..Len(<<0>>) = {1} /\ 1 - 1 = 0
    BY <1>2
  <2>2. QED
    BY <1>2, <1>4, <2>1 DEF Init, StoresInv
<1>7. ProducerInv
  BY <1>1, <1>4, <1>5 DEF Init, ProducerInv, Room
<1>8. ConsumerInv
  BY <1>1, <1>4, <1>5 DEF Init, ConsumerInv, Needed
<1>9. BufferInv
  BY <1>1, <1>5 DEF Init, BufferInv
<1>10. RunInv
  BY <1>1 DEF Init, RunInv
<1>11. QED
  BY <1>3, <1>6, <1>7, <1>8, <1>9, <1>10 DEF IInv

\* What each side knows of the other is true, and the queue is never overfull.
LEMMA Knowledge ==
  ASSUME TypeOK, ProducerInv, ConsumerInv
  PROVE  /\ readsKnown <= pops /\ writesKnown <= pushes
         /\ Needed \in Nat /\ Needed <= pushes /\ pops <= Needed
         /\ pushes - pops <= Room /\ Writes - pops <= N - 1 /\ pushes - pops <= N - 1
         /\ Room \in Int
<1>1. readsKnown <= pops /\ writesKnown <= pushes
  BY Ranges DEF ProducerInv, ConsumerInv
<1>2. /\ Needed \in Nat /\ pops <= Needed /\ Room \in Int /\ Room <= N - 1
      /\ Writes <= pushes + (N - 1 - Room)
  BY Ranges DEF Needed, Room, Writes
<1>3. pushes - readsKnown <= Room /\ Needed <= writesKnown
  BY DEF ProducerInv, ConsumerInv
<1>4. QED
  BY <1>1, <1>2, <1>3, Ranges

\* No write to the slot about to be popped is unknown to the consumer, and
\* the item in it is the next one.
LEMMA ReadIsSafe ==
  ASSUME IInv, cpc = "read"
  PROVE  ~ReadRaces /\ buffer[cIndex] = received
<1>0. TypeOK /\ StoresInv
  BY DEF IInv
<1>1. /\ pops < writesKnown /\ writesKnown <= pushes /\ Writes <= pops + N - 1
  <2>1. ProducerInv /\ ConsumerInv
    BY DEF IInv
  <2>2. Needed = pops + 1 /\ Needed <= writesKnown
    BY <2>1 DEF Needed, ConsumerInv
  <2>3. QED
    BY <1>0, <2>1, <2>2, Knowledge, Ranges
<1>2. ~ReadRaces
  <2>1. SUFFICES ASSUME NEW e \in writesKnown..(Writes - 1), SlotOf(e) = cIndex PROVE FALSE
    BY DEF ReadRaces
  <2>2. pops \in Nat /\ e \in Nat /\ pops < e /\ e - pops < N
    BY <1>0, <1>1, Ranges
  <2>3. QED
    BY <1>0, <2>1, <2>2, SlotsDiffer, IndexValues
<1>3. buffer[cIndex] = received
  <2>1. pops \in pops..(Writes - 1)
    BY <1>0, <1>1, Ranges
  <2>2. buffer[SlotOf(pops)] = pops - pushes + sent /\ pushes - sent = pops - received
    BY <2>1 DEF IInv, BufferInv
  <2>3. pops - pushes + sent = received
    BY <1>0, <2>2, Ranges
  <2>4. QED
    BY <1>0, <2>2, <2>3, IndexValues
<1>4. QED
  BY <1>2, <1>3

-----------------------------------------------------------------------------
(* Steps of the producer.                                                    *)

\* A step that stores to no index and writes no slot keeps the stores.
LEMMA StoresKept ==
  ASSUME StoresInv, UNCHANGED <<pStores, cStores>>
  PROVE  StoresInv' /\ pushes' = pushes /\ pops' = pops /\ pIndex' = pIndex /\ cIndex' = cIndex
BY DEF StoresInv, pushes, pops, pIndex, cIndex

LEMMA PushFastStep ==
  ASSUME IInv, PushFast
  PROVE  IInv'
<1>1. /\ ppc = "push" /\ sent < Items[round] /\ Cached /\ ~Full(pCached) /\ ppc' = "write"
      /\ UNCHANGED <<buffer, pStores, cStores, sent, pCached, pSeen, readsKnown,
                     consumerVars, valid, round>>
  BY DEF PushFast, Pushing
<1>2. TypeOK /\ StoresInv /\ ProducerInv /\ ConsumerInv /\ BufferInv /\ RunInv
  BY DEF IInv
<1>3. TypeOK'
  BY <1>1, <1>2 DEF TypeOK, consumerVars
<1>4. StoresInv' /\ pushes' = pushes /\ pops' = pops
  BY <1>1, <1>2, StoresKept
<1>5. ProducerInv'
  <2>1. PICK k \in 0..readsKnown : pCached = SlotOf(k) /\ pushes - k <= Room
    BY <1>1, <1>2 DEF ProducerInv
  <2>2. pushes - k <= N - 2 /\ k <= readsKnown /\ k \in Nat
    <3>1. Room = N - 1 /\ k \in Nat
      BY <1>1, <1>2, Ranges DEF Room
    <3>2. QED
      BY <1>1, <1>2, <2>1, <3>1, FullMeans
  <2>3. pushes - readsKnown <= N - 2
    BY <1>2, <2>2, Ranges
  <2>4. Room' = N - 2
    BY <1>1 DEF Room
  <2>5. QED
    BY <1>1, <1>2, <1>4, <2>1, <2>2, <2>3, <2>4 DEF ProducerInv
<1>6. ConsumerInv' /\ BufferInv'
  BY <1>1, <1>2, <1>4 DEF ConsumerInv, Needed, BufferInv, Writes, consumerVars
<1>7. RunInv'
  BY <1>1, <1>2 DEF RunInv, consumerVars
<1>8. QED
  BY <1>3, <1>4, <1>5, <1>6, <1>7 DEF IInv

\* A load of the read index teaches the producer of pops that were made, and
\* lets it go ahead only with a slot to spare.
LEMMA LoadReadIndexStep ==
  ASSUME IInv, NEW k \in 1..Len(cStores), PushAllowed(k) \/ PushRefused(k)
  PROVE  IInv'
<1>1. /\ ppc = "push" /\ sent < Items[round] /\ k \in Visible(cStores, pSeen) /\ pSeen' = k
      /\ readsKnown' = MaxOf(readsKnown, Carried(k))
      /\ pCached' = IF Cached THEN cStores[k] ELSE pCached
      /\ UNCHANGED <<buffer, pStores, cStores, sent, consumerVars, valid, round>>
  BY DEF PushAllowed, PushRefused, LoadReadIndex, CanLoadReadIndex, Pushing
<1>2. TypeOK /\ StoresInv /\ ProducerInv /\ ConsumerInv /\ BufferInv /\ RunInv
  BY DEF IInv
<1>3. /\ k \in Nat /\ pSeen <= k /\ k - 1 \in Nat /\ k - 1 <= pops
      /\ cStores[k] \in Slots /\ cStores[k] = SlotOf(k - 1)
  <2>1. pSeen <= k
    BY <1>1, <1>2, VisibleRange DEF TypeOK
  <2>2. k \in Nat /\ 1 <= k /\ k - 1 \in Nat /\ k - 1 <= pops
    BY <1>2, Lengths
  <2>3. cStores[k] \in Slots /\ cStores[k] = SlotOf(k - 1)
    BY <1>2 DEF TypeOK, StoresInv
  <2>4. QED
    BY <2>1, <2>2, <2>3
<1>4. readsKnown' = k - 1 /\ readsKnown <= k - 1
  <2>1. readsKnown \in Nat /\ readsKnown <= k - 1
    BY <1>2, <1>3, Ranges DEF ProducerInv
  <2>2. QED
    BY <1>1, <1>3, <2>1, MaxValue DEF Carried
<1>5. ppc' \in {"push", "write"} /\ (ppc' = "write" => ~Full(cStores[k]))
  BY <1>1 DEF PushAllowed, PushRefused
<1>6. TypeOK'
  BY <1>1, <1>2, <1>3, <1>4, <1>5 DEF TypeOK, consumerVars
<1>7. StoresInv' /\ pushes' = pushes /\ pops' = pops
  BY <1>1, <1>2, StoresKept
<1>8. ProducerInv'
  <2>1. pushes - (k - 1) <= N - 1
    <3>1. pushes - readsKnown <= N - 1
      BY <1>1, <1>2 DEF ProducerInv, Room
    <3>2. pushes \in Nat /\ readsKnown \in Nat /\ N \in Nat
      BY <1>2, Ranges
    <3>3. QED
      BY <1>3, <1>4, <3>1, <3>2
  <2>2. ppc' = "write" => pushes - (k - 1) <= N - 2
    BY <1>2, <1>3, <1>5, <2>1, FullMeans
  <2>3. pushes - (k - 1) <= Room'
    BY <1>5, <2>1, <2>2 DEF Room
  <2>4. CASE Cached
    <3>1. k - 1 \in 0..(k - 1) /\ pCached' = SlotOf(k - 1)
      BY <1>1, <1>3, <2>4
    <3>2. QED
      BY <1>1, <1>4, <1>7, <2>3, <3>1 DEF ProducerInv
  <2>5. CASE ~Cached
    <3>1. PICK j \in 0..readsKnown : pCached = SlotOf(j)
      BY <1>2 DEF ProducerInv
    <3>2. j \in 0..(k - 1)
      BY <1>2, <1>3, <1>4, Ranges
    <3>3. QED
      BY <1>1, <1>4, <1>7, <2>3, <2>5, <3>1, <3>2 DEF ProducerInv
  <2>6. QED
    BY <2>4, <2>5
<1>9. ConsumerInv'
  BY <1>1, <1>2, <1>7 DEF ConsumerInv, Needed, consumerVars
<1>10. BufferInv'
  BY <1>1, <1>2, <1>5, <1>7 DEF BufferInv, Writes, consumerVars
<1>11. RunInv'
  BY <1>1, <1>2, <1>5 DEF RunInv, consumerVars
<1>12. QED
  BY <1>6, <1>7, <1>8, <1>9, <1>10, <1>11 DEF IInv

\* The slot written is none that still holds an item.
LEMMA PushWriteStep ==
  ASSUME IInv, PushWrite
  PROVE  IInv'
<1>1. /\ ppc = "write" /\ buffer' = [buffer EXCEPT ![pIndex] = sent] /\ ppc' = "store"
      /\ UNCHANGED <<pStores, cStores, sent, pCached, pSeen, readsKnown, consumerVars, valid, round>>
  BY DEF PushWrite
<1>2. TypeOK /\ StoresInv /\ ProducerInv /\ ConsumerInv /\ BufferInv /\ RunInv
  BY DEF IInv
<1>3. TypeOK'
  <2>1. buffer' \in [Slots -> Int]
    <3>1. sent \in Int /\ buffer \in [Slots -> Int]
      BY <1>2 DEF TypeOK
    <3>2. QED
      BY <1>1, <3>1
  <2>2. QED
    BY <1>1, <1>2, <2>1 DEF TypeOK, consumerVars
<1>4. StoresInv' /\ pushes' = pushes /\ pops' = pops
  BY <1>1, <1>2, StoresKept
<1>5. ProducerInv' /\ ConsumerInv' /\ RunInv'
  BY <1>1, <1>2, <1>4 DEF ProducerInv, Room, ConsumerInv, Needed, RunInv, consumerVars
<1>6. BufferInv'
  <2>1. Writes = pushes /\ Writes' = pushes + 1
    BY <1>1, <1>4 DEF Writes
  <2>2. ASSUME NEW e \in pops..pushes PROVE buffer'[SlotOf(e)] = e - pushes + sent
    <3>1. /\ e \in Nat /\ pushes \in Nat /\ sent \in Nat /\ pushes - pops <= N - 1 /\ pops \in Nat
          /\ N \in Nat
      BY <1>2, Ranges, Knowledge
    <3>2. pIndex = SlotOf(pushes) /\ SlotOf(e) \in Slots /\ SlotOf(pushes) \in Slots
      BY <1>2, <3>1, IndexValues, SlotRange
    <3>3. CASE e = pushes
      BY <1>1, <1>2, <3>1, <3>2, <3>3 DEF TypeOK
    <3>4. CASE e # pushes
      <4>1. e \in pops..(pushes - 1) /\ e < pushes /\ pushes - e < N
        BY <3>1, <3>4
      <4>2. SlotOf(e) # SlotOf(pushes)
        BY <3>1, <4>1, SlotsDiffer
      <4>3. buffer[SlotOf(e)] = e - pushes + sent
        BY <1>2, <2>1, <4>1 DEF BufferInv
      <4>4. QED
        BY <1>1, <1>2, <3>2, <4>2, <4>3 DEF TypeOK
    <3>5. QED
      BY <3>3, <3>4
  <2>3. Writes' - 1 = pushes
    BY <1>2, <2>1, Ranges
  <2>4. QED
    BY <1>1, <1>2, <1>4, <2>2, <2>3 DEF BufferInv, consumerVars
<1>7. QED
  BY <1>3, <1>4, <1>5, <1>6 DEF IInv

\* The index store that publishes the slot.
LEMMA PushStoreStep ==
  ASSUME IInv, PushStore
  PROVE  IInv' /\ pushes' = pushes + 1 /\ pops' = pops
<1>1. /\ ppc = "store" /\ pStores' = Append(pStores, NextIndex(pIndex)) /\ sent' = sent + 1
      /\ ppc' = "push"
      /\ UNCHANGED <<buffer, cStores, pCached, pSeen, readsKnown, consumerVars, valid, round>>
  BY DEF PushStore
<1>2. TypeOK /\ StoresInv /\ ProducerInv /\ ConsumerInv /\ BufferInv /\ RunInv
  BY DEF IInv
<1>3. /\ NextIndex(pIndex) = SlotOf(pushes + 1) /\ SlotOf(pushes + 1) \in Slots
      /\ pStores \in Seq(Slots) /\ Len(pStores) = pushes + 1 /\ pushes \in Nat
  <2>1. pushes + 1 \in Nat
    BY <1>2, Ranges
  <2>2. QED
    BY <1>2, <2>1, IndexValues, Lengths, SlotRange DEF TypeOK
<1>4. /\ pStores' \in Seq(Slots) /\ pStores' # << >> /\ Len(pStores') = pushes + 2
      /\ pStores'[pushes + 2] = SlotOf(pushes + 1)
      /\ \A k \in 1..(pushes + 1) : pStores'[k] = pStores[k]
  <2>1. (pushes + 1) + 1 = pushes + 2
    BY <1>3
  <2>2. QED
    BY <1>1, <1>3, <2>1, AppendStore
<1>5. pushes' = pushes + 1 /\ pops' = pops
  BY <1>1, <1>3, <1>4 DEF pushes, pops
<1>6. TypeOK'
  <2>1. cSeen \in 1..Len(pStores')
    BY <1>2, <1>3, <1>4, Ranges
  <2>2. sent' \in Nat
    BY <1>1, <1>2, Ranges
  <2>3. QED
    BY <1>1, <1>2, <1>4, <2>1, <2>2 DEF TypeOK, consumerVars
<1>7. StoresInv'
  <2>1. \A k \in 1..Len(pStores') : pStores'[k] = SlotOf(k - 1)
    <3>1. SUFFICES ASSUME NEW k \in 1..(pushes + 2) PROVE pStores'[k] = SlotOf(k - 1)
      BY <1>4
    <3>2. CASE k = pushes + 2
      <4>1. k - 1 = pushes + 1
        BY <1>3, <3>2
      <4>2. QED
        BY <1>4, <3>2, <4>1
    <3>3. CASE k # pushes + 2
      <4>1. k \in 1..(pushes + 1)
        BY <1>3, <3>3
      <4>2. QED
        BY <1>2, <1>3, <1>4, <4>1 DEF StoresInv
    <3>4. QED
      BY <3>2, <3>3
  <2>2. QED
    BY <1>1, <1>2, <2>1 DEF StoresInv
<1>8. ProducerInv'
  <2>1. Room = N - 2 /\ Room' = N - 1
    BY <1>1 DEF Room
  <2>2. pushes' - readsKnown <= Room'
    BY <1>2, <1>5, <2>1, Ranges DEF ProducerInv
  <2>3. PICK k \in 0..readsKnown : pCached = SlotOf(k) /\ (Cached => pushes - k <= Room)
    BY <1>2 DEF ProducerInv
  <2>4. Cached => pushes' - k <= Room'
    BY <1>2, <1>5, <2>1, <2>3, Ranges
  <2>5. QED
    BY <1>1, <1>2, <2>2, <2>3, <2>4 DEF ProducerInv
<1>9. ConsumerInv'
  BY <1>1, <1>2, <1>5 DEF ConsumerInv, Needed, consumerVars
<1>10. BufferInv'
  <2>1. Writes = pushes + 1 /\ Writes' = pushes + 1
    BY <1>1, <1>5 DEF Writes
  <2>2. \A e \in pops..(Writes - 1) : e - pushes + sent = e - pushes' + sent'
    <3>1. pops..(Writes - 1) \subseteq Int /\ pushes \in Int /\ sent \in Int
      BY <1>2, Ranges
    <3>2. pushes' = pushes + 1 /\ sent' = sent + 1
      BY <1>1, <1>5
    <3>3. QED
      BY <3>1, <3>2
  <2>3. pushes' - sent' = pushes - sent
    BY <1>1, <1>2, <1>5, Ranges
  <2>4. QED
    BY <1>1, <1>2, <1>5, <2>1, <2>2, <2>3 DEF BufferInv, consumerVars
<1>11. RunInv'
  <2>1. sent < Items[round] /\ Items[round] \in Nat /\ sent \in Nat
    BY <1>1, <1>2, Lengths, Ranges DEF RunInv
  <2>2. sent' <= Items[round]
    BY <1>1, <2>1
  <2>3. QED
    BY <1>1, <1>2, <2>2 DEF RunInv, consumerVars
<1>12. QED
  BY <1>5, <1>6, <1>7, <1>8, <1>9, <1>10, <1>11 DEF IInv

LEMMA ProducerDoneStep ==
  ASSUME IInv, ProducerDone
  PROVE  IInv'
<1>1. /\ ppc = "push" /\ sent = Items[round] /\ ppc' = "done"
      /\ UNCHANGED <<buffer, pStores, cStores, sent, pCached, pSeen, readsKnown,
                     consumerVars, valid, round>>
  BY DEF ProducerDone
<1>2. TypeOK /\ StoresInv /\ ProducerInv /\ ConsumerInv /\ BufferInv /\ RunInv
  BY DEF IInv
<1>3. TypeOK'
  BY <1>1, <1>2 DEF TypeOK, consumerVars
<1>4. StoresInv' /\ pushes' = pushes /\ pops' = pops
  BY <1>1, <1>2, StoresKept
<1>5. ProducerInv' /\ ConsumerInv' /\ BufferInv' /\ RunInv'
  BY <1>1, <1>2, <1>4 DEF ProducerInv, Room, ConsumerInv, Needed, BufferInv, Writes, RunInv,
     consumerVars
<1>6. QED
  BY <1>3, <1>4, <1>5 DEF IInv

-----------------------------------------------------------------------------
(* Steps of the consumer.                                                    *)

LEMMA PopFastStep ==
  ASSUME IInv, PopFast
  PROVE  IInv'
<1>1. /\ cpc = "pop" /\ received < Items[round] /\ Cached /\ ~Empty(cCached) /\ cpc' = "read"
      /\ UNCHANGED <<buffer, pStores, cStores, producerVars, received, item,
                     cCached, cSeen, writesKnown, valid, round>>
  BY DEF PopFast, Popping
<1>2. TypeOK /\ StoresInv /\ ProducerInv /\ ConsumerInv /\ BufferInv /\ RunInv
  BY DEF IInv
<1>3. TypeOK'
  BY <1>1, <1>2 DEF TypeOK, producerVars
<1>4. StoresInv' /\ pushes' = pushes /\ pops' = pops
  BY <1>1, <1>2, StoresKept
<1>5. ConsumerInv'
  <2>1. PICK k \in 0..writesKnown : cCached = SlotOf(k) /\ Needed <= k
    BY <1>1, <1>2 DEF ConsumerInv
  <2>2. k \in Nat /\ pops + 1 <= k /\ pops + 1 <= writesKnown
    <3>1. Needed = pops /\ k \in Nat /\ k <= writesKnown
      BY <1>1, <1>2, Ranges DEF Needed
    <3>2. pops + 1 <= k
      BY <1>1, <1>2, <2>1, <3>1, EmptyMeans
    <3>3. QED
      BY <1>2, <3>1, <3>2, Ranges
  <2>3. Needed' = pops + 1
    BY <1>1, <1>4 DEF Needed
  <2>4. QED
    BY <1>1, <1>2, <2>1, <2>2, <2>3 DEF ConsumerInv
<1>6. ProducerInv' /\ BufferInv'
  BY <1>1, <1>2, <1>4 DEF ProducerInv, Room, BufferInv, Writes, producerVars
<1>7. RunInv'
  BY <1>1, <1>2 DEF RunInv, producerVars
<1>8. QED
  BY <1>3, <1>4, <1>5, <1>6, <1>7 DEF IInv

\* A load of the write index teaches the consumer of pushes that were made,
\* and lets it go ahead only with an item there.
LEMMA LoadWriteIndexStep ==
  ASSUME IInv, NEW k \in 1..Len(pStores), PopAllowed(k) \/ PopRefused(k)
  PROVE  IInv'
<1>1. /\ cpc = "pop" /\ received < Items[round] /\ k \in Visible(pStores, cSeen) /\ cSeen' = k
      /\ writesKnown' = MaxOf(writesKnown, Carried(k))
      /\ cCached' = IF Cached THEN pStores[k] ELSE cCached
      /\ UNCHANGED <<buffer, pStores, cStores, producerVars, received, item, valid, round>>
  BY DEF PopAllowed, PopRefused, LoadWriteIndex, CanLoadWriteIndex, Popping
<1>2. TypeOK /\ StoresInv /\ ProducerInv /\ ConsumerInv /\ BufferInv /\ RunInv
  BY DEF IInv
<1>3. /\ k \in Nat /\ cSeen <= k /\ k - 1 \in Nat
      /\ pStores[k] \in Slots /\ pStores[k] = SlotOf(k - 1)
  <2>1. cSeen <= k
    BY <1>1, <1>2, VisibleRange DEF TypeOK
  <2>2. k \in Nat /\ 1 <= k /\ k - 1 \in Nat
    BY <1>2, Lengths
  <2>3. pStores[k] \in Slots /\ pStores[k] = SlotOf(k - 1)
    BY <1>2 DEF TypeOK, StoresInv
  <2>4. QED
    BY <2>1, <2>2, <2>3
<1>4. writesKnown' = k - 1 /\ writesKnown <= k - 1
  <2>1. writesKnown \in Nat /\ writesKnown <= k - 1
    BY <1>2, <1>3, Ranges DEF ConsumerInv
  <2>2. QED
    BY <1>1, <1>3, <2>1, MaxValue DEF Carried
<1>5. cpc' \in {"pop", "read"} /\ (cpc' = "read" => ~Empty(pStores[k]))
  BY <1>1 DEF PopAllowed, PopRefused
<1>6. TypeOK'
  BY <1>1, <1>2, <1>3, <1>4, <1>5 DEF TypeOK, producerVars
<1>7. StoresInv' /\ pushes' = pushes /\ pops' = pops
  BY <1>1, <1>2, StoresKept
<1>8. ConsumerInv'
  <2>1. pops <= k - 1
    <3>1. pops <= writesKnown
      BY <1>1, <1>2 DEF ConsumerInv, Needed
    <3>2. QED
      BY <1>2, <1>3, <1>4, <3>1, Ranges
  <2>2. cpc' = "read" => pops + 1 <= k - 1
    BY <1>2, <1>3, <1>5, <2>1, EmptyMeans
  <2>3. Needed' <= k - 1
    BY <1>5, <1>7, <2>1, <2>2 DEF Needed
  <2>4. CASE Cached
    <3>1. k - 1 \in 0..(k - 1) /\ cCached' = SlotOf(k - 1)
      BY <1>1, <1>3, <2>4
    <3>2. QED
      BY <1>1, <1>4, <2>3, <3>1 DEF ConsumerInv
  <2>5. CASE ~Cached
    <3>1. PICK j \in 0..writesKnown : cCached = SlotOf(j)
      BY <1>2 DEF ConsumerInv
    <3>2. j \in 0..(k - 1)
      BY <1>2, <1>3, <1>4, Ranges
    <3>3. QED
      BY <1>1, <1>4, <2>3, <2>5, <3>1, <3>2 DEF ConsumerInv
  <2>6. QED
    BY <2>4, <2>5
<1>9. ProducerInv'
  BY <1>1, <1>2, <1>7 DEF ProducerInv, Room, producerVars
<1>10. BufferInv'
  BY <1>1, <1>2, <1>5, <1>7 DEF BufferInv, Writes, producerVars
<1>11. RunInv'
  BY <1>1, <1>2, <1>5 DEF RunInv, producerVars
<1>12. QED
  BY <1>6, <1>7, <1>8, <1>9, <1>10, <1>11 DEF IInv

LEMMA PopReadStep ==
  ASSUME IInv, PopRead
  PROVE  IInv'
<1>1. /\ cpc = "read" /\ item' = received /\ cpc' = "store"
      /\ UNCHANGED <<buffer, pStores, cStores, producerVars, received, cCached,
                     cSeen, writesKnown, valid, round>>
  BY ReadIsSafe DEF PopRead
<1>2. TypeOK /\ StoresInv /\ ProducerInv /\ ConsumerInv /\ BufferInv /\ RunInv
  BY DEF IInv
<1>3. TypeOK'
  <2>1. item' \in Int
    BY <1>1, <1>2, Ranges
  <2>2. QED
    BY <1>1, <1>2, <2>1 DEF TypeOK, producerVars
<1>4. StoresInv' /\ pushes' = pushes /\ pops' = pops
  BY <1>1, <1>2, StoresKept
<1>5. ProducerInv' /\ ConsumerInv' /\ BufferInv' /\ RunInv'
  BY <1>1, <1>2, <1>4 DEF ProducerInv, Room, ConsumerInv, Needed, BufferInv, Writes, RunInv,
     producerVars
<1>6. QED
  BY <1>3, <1>4, <1>5 DEF IInv

\* The index store that gives the slot back.
LEMMA PopStoreStep ==
  ASSUME IInv, PopStore
  PROVE  IInv' /\ pops' = pops + 1 /\ pushes' = pushes /\ valid' = valid
<1>1. /\ cpc = "store" /\ cStores' = Append(cStores, NextIndex(cIndex))
      /\ valid' = (valid /\ item = received) /\ received' = received + 1 /\ cpc' = "pop"
      /\ UNCHANGED <<buffer, pStores, producerVars, item, cCached, cSeen, writesKnown, round>>
  BY DEF PopStore
<1>2. TypeOK /\ StoresInv /\ ProducerInv /\ ConsumerInv /\ BufferInv /\ RunInv
  BY DEF IInv
<1>3. /\ NextIndex(cIndex) = SlotOf(pops + 1) /\ SlotOf(pops + 1) \in Slots
      /\ cStores \in Seq(Slots) /\ Len(cStores) = pops + 1 /\ pops \in Nat
  <2>1. pops + 1 \in Nat
    BY <1>2, Ranges
  <2>2. QED
    BY <1>2, <2>1, IndexValues, Lengths, SlotRange DEF TypeOK
<1>4. /\ cStores' \in Seq(Slots) /\ cStores' # << >> /\ Len(cStores') = pops + 2
      /\ cStores'[pops + 2] = SlotOf(pops + 1)
      /\ \A k \in 1..(pops + 1) : cStores'[k] = cStores[k]
  <2>1. (pops + 1) + 1 = pops + 2
    BY <1>3
  <2>2. QED
    BY <1>1, <1>3, <2>1, AppendStore
<1>5. pops' = pops + 1 /\ pushes' = pushes
  BY <1>1, <1>3, <1>4 DEF pushes, pops
<1>6. valid' = valid /\ valid' = TRUE
  BY <1>1, <1>2 DEF BufferInv, TypeOK
<1>7. TypeOK'
  <2>1. pSeen \in 1..Len(cStores')
    BY <1>2, <1>3, <1>4, Ranges
  <2>2. received' \in Nat
    BY <1>1, <1>2, Ranges
  <2>3. QED
    BY <1>1, <1>2, <1>4, <1>6, <2>1, <2>2 DEF TypeOK, producerVars
<1>8. StoresInv'
  <2>1. \A k \in 1..Len(cStores') : cStores'[k] = SlotOf(k - 1)
    <3>1. SUFFICES ASSUME NEW k \in 1..(pops + 2) PROVE cStores'[k] = SlotOf(k - 1)
      BY <1>4
    <3>2. CASE k = pops + 2
      <4>1. k - 1 = pops + 1
        BY <1>3, <3>2
      <4>2. QED
        BY <1>4, <3>2, <4>1
    <3>3. CASE k # pops + 2
      <4>1. k \in 1..(pops + 1)
        BY <1>3, <3>3
      <4>2. QED
        BY <1>2, <1>3, <1>4, <4>1 DEF StoresInv
    <3>4. QED
      BY <3>2, <3>3
  <2>2. QED
    BY <1>1, <1>2, <2>1 DEF StoresInv
<1>9. ConsumerInv'
  BY <1>1, <1>2, <1>5 DEF ConsumerInv, Needed
<1>10. ProducerInv'
  BY <1>1, <1>2, <1>5 DEF ProducerInv, Room, producerVars
<1>11. BufferInv'
  <2>1. Writes' = Writes
    BY <1>1, <1>5 DEF Writes, producerVars
  <2>2. pops'..(Writes' - 1) \subseteq pops..(Writes - 1)
    BY <1>2, <1>5, <2>1, Ranges
  <2>3. pops' - received' = pops - received
    BY <1>1, <1>2, <1>5, Ranges
  <2>4. QED
    BY <1>1, <1>2, <1>5, <1>6, <2>2, <2>3 DEF BufferInv, producerVars
<1>12. RunInv'
  <2>1. received < Items[round] /\ Items[round] \in Nat /\ received \in Nat
    BY <1>1, <1>2, Lengths, Ranges DEF RunInv
  <2>2. received' <= Items[round]
    BY <1>1, <2>1
  <2>3. QED
    BY <1>1, <1>2, <2>2 DEF RunInv, producerVars
<1>13. QED
  BY <1>5, <1>6, <1>7, <1>8, <1>9, <1>10, <1>11, <1>12 DEF IInv

LEMMA ConsumerDoneStep ==
  ASSUME IInv, ConsumerDone
  PROVE  IInv'
<1>1. /\ cpc = "pop" /\ received = Items[round] /\ cpc' = "done"
      /\ UNCHANGED <<buffer, pStores, cStores, producerVars, received, item,
                     cCached, cSeen, writesKnown, valid, round>>
  BY DEF ConsumerDone
<1>2. TypeOK /\ StoresInv /\ ProducerInv /\ ConsumerInv /\ BufferInv /\ RunInv
  BY DEF IInv
<1>3. TypeOK'
  BY <1>1, <1>2 DEF TypeOK, producerVars
<1>4. StoresInv' /\ pushes' = pushes /\ pops' = pops
  BY <1>1, <1>2, StoresKept
<1>5. ProducerInv' /\ ConsumerInv' /\ BufferInv' /\ RunInv'
  BY <1>1, <1>2, <1>4 DEF ProducerInv, Room, ConsumerInv, Needed, BufferInv, Writes, RunInv,
     producerVars
<1>6. QED
  BY <1>3, <1>4, <1>5 DEF IInv

\* The queue is empty between two calls of run(), with indices anywhere and
\* private copies from before.
LEMMA NextRunStep ==
  ASSUME IInv, NextRun
  PROVE  IInv' /\ pushes = pops /\ pushes' = pushes /\ pops' = pops
<1>1. /\ ppc = "done" /\ cpc = "done" /\ round < Rounds /\ round' = round + 1
      /\ ppc' = "push" /\ sent' = 0 /\ pSeen' = Len(cStores) /\ readsKnown' = pops
      /\ cpc' = "pop" /\ received' = 0 /\ item' = 0 /\ cSeen' = Len(pStores)
      /\ writesKnown' = pushes
      /\ UNCHANGED <<buffer, pStores, cStores, pCached, cCached, valid>>
  BY DEF NextRun, Finished
<1>2. TypeOK /\ StoresInv /\ ProducerInv /\ ConsumerInv /\ BufferInv /\ RunInv
  BY DEF IInv
<1>3. pushes \in Nat /\ pops \in Nat /\ Len(pStores) = pushes + 1 /\ Len(cStores) = pops + 1
  BY <1>2, Lengths
<1>4. pushes = pops
  <2>1. sent = received
    BY <1>1, <1>2 DEF RunInv
  <2>2. pushes - sent = pops - received /\ sent \in Nat
    BY <1>2, Ranges DEF BufferInv
  <2>3. QED
    BY <1>3, <2>1, <2>2
<1>5. StoresInv' /\ pushes' = pushes /\ pops' = pops
  BY <1>1, <1>2, StoresKept
<1>6. round' \in 1..Rounds
  BY <1>1, <1>2, ConstantsAssumption DEF TypeOK
<1>7. TypeOK'
  BY <1>1, <1>2, <1>3, <1>6 DEF TypeOK
<1>8. ProducerInv'
  <2>1. Room = N - 1 /\ Room' = N - 1
    BY <1>1 DEF Room
  <2>2. pushes' - readsKnown' <= Room'
    BY <1>1, <1>2, <1>4, <1>5, <2>1, Ranges
  <2>3. readsKnown' = pSeen' - 1
    BY <1>1, <1>3
  <2>4. PICK k \in 0..readsKnown : pCached = SlotOf(k) /\ (Cached => pushes - k <= Room)
    BY <1>2 DEF ProducerInv
  <2>5. k \in 0..readsKnown'
    <3>1. readsKnown <= pops /\ readsKnown \in Nat
      BY <1>2, Knowledge, Ranges
    <3>2. QED
      BY <1>1, <1>3, <3>1
  <2>6. QED
    BY <1>1, <1>5, <2>1, <2>2, <2>3, <2>4, <2>5 DEF ProducerInv
<1>9. ConsumerInv'
  <2>1. Needed = pops /\ Needed' = pops
    BY <1>1, <1>5 DEF Needed
  <2>2. writesKnown' = cSeen' - 1 /\ Needed' <= writesKnown'
    BY <1>1, <1>3, <1>4, <2>1
  <2>3. PICK k \in 0..writesKnown : cCached = SlotOf(k) /\ (Cached => Needed <= k)
    BY <1>2 DEF ConsumerInv
  <2>4. k \in 0..writesKnown'
    <3>1. writesKnown <= pushes /\ writesKnown \in Nat
      BY <1>2, Knowledge, Ranges
    <3>2. QED
      BY <1>1, <1>3, <3>1
  <2>5. QED
    BY <1>1, <2>1, <2>2, <2>3, <2>4 DEF ConsumerInv
<1>10. BufferInv'
  <2>1. pops'..(Writes' - 1) = {}
    BY <1>1, <1>3, <1>4, <1>5 DEF Writes
  <2>2. pushes' - sent' = pops' - received'
    BY <1>1, <1>4, <1>5
  <2>3. QED
    BY <1>1, <1>2, <2>1, <2>2 DEF BufferInv
<1>11. RunInv'
  <2>1. Items[round'] \in Nat
    BY <1>6, ConstantsAssumption
  <2>2. QED
    BY <1>1, <2>1 DEF RunInv
<1>12. QED
  BY <1>4, <1>5, <1>7, <1>8, <1>9, <1>10, <1>11 DEF IInv

LEMMA StepInvariant == IInv /\ [Next]_vars => IInv'
<1> SUFFICES ASSUME IInv, [Next]_vars PROVE IInv'
  OBVIOUS
<1>1. CASE Push
  BY <1>1, PushFastStep, LoadReadIndexStep, PushWriteStep, PushStoreStep, ProducerDoneStep DEF Push
<1>2. CASE Pop
  BY <1>2, PopFastStep, LoadWriteIndexStep, PopReadStep, PopStoreStep, ConsumerDoneStep DEF Pop
<1>3. CASE NextRun
  BY <1>3, NextRunStep
<1>4. CASE UNCHANGED vars
  <2>1. TypeOK /\ StoresInv /\ ProducerInv /\ ConsumerInv /\ BufferInv /\ RunInv
    BY DEF IInv
  <2>2. StoresInv' /\ pushes' = pushes /\ pops' = pops
    BY <1>4, <2>1, StoresKept DEF vars
  <2>3. TypeOK'
    BY <1>4, <2>1 DEF TypeOK, vars, producerVars, consumerVars
  <2>4. ProducerInv' /\ ConsumerInv' /\ BufferInv' /\ RunInv'
    BY <1>4, <2>1, <2>2 DEF ProducerInv, Room, ConsumerInv, Needed, BufferInv, Writes, RunInv,
       vars, producerVars, consumerVars
  <2>5. QED
    BY <2>2, <2>3, <2>4 DEF IInv
<1>5. QED
  BY <1>1, <1>2, <1>3, <1>4 DEF Next, AllJoined

\* The inductive invariant holds in every reachable state.
THEOREM Invariant == Spec => []IInv
BY InitInvariant, StepInvariant, PTL DEF Spec

-----------------------------------------------------------------------------
(* What the invariant means for the program.                                 *)

\* Every variable keeps its type: no index leaves the buffer.
THEOREM TypeCorrect == Spec => []TypeOK
<1>1. IInv => TypeOK
  BY DEF IInv
<1>2. QED
  BY <1>1, Invariant, PTL

\* No two accesses to a slot race, in any instantiation of the template that
\* run() uses.
THEOREM RaceFree == Spec => []NoDataRace
<1>1. IInv => NoDataRace
  <2>1. SUFFICES ASSUME IInv PROVE NoDataRace
    OBVIOUS
  <2>2. TypeOK /\ StoresInv /\ ProducerInv /\ ConsumerInv
    BY <2>1 DEF IInv
  <2>3. ReadIsOrdered
    BY <2>1, ReadIsSafe DEF ReadIsOrdered
  <2>4. WriteIsOrdered
    <3>1. SUFFICES ASSUME ppc = "write", NEW e \in readsKnown..(Reads - 1), SlotOf(e) = pIndex
                   PROVE  FALSE
      BY DEF WriteIsOrdered
    <3>2. pushes - readsKnown <= N - 2 /\ pIndex = SlotOf(pushes)
      BY <2>2, <3>1, IndexValues DEF ProducerInv, Room
    <3>3. Reads <= pushes
      BY <2>2, Knowledge, Ranges DEF Reads, Needed
    <3>4. Reads \in Nat
      BY <2>2, Ranges DEF Reads
    <3>5. e \in Nat /\ pushes \in Nat /\ e < pushes /\ pushes - e < N
      BY <2>2, <3>2, <3>3, <3>4, Ranges
    <3>6. QED
      BY <3>1, <3>2, <3>5, SlotsDiffer
  <2>5. QED
    BY <2>3, <2>4 DEF NoDataRace
<1>2. QED
  BY <1>1, Invariant, PTL

\* Every run() returns valid: every item arrives in order with its payload.
THEOREM Validity == Spec => []EveryItemValid
<1>1. IInv => EveryItemValid
  BY DEF IInv, BufferInv, EveryItemValid
<1>2. QED
  BY <1>1, Invariant, PTL

\* push() never overfills the queue.
THEOREM BoundedQueue == Spec => []NeverOverfull
<1>1. IInv => NeverOverfull
  <2>1. SUFFICES ASSUME IInv PROVE NeverOverfull
    OBVIOUS
  <2>2. TypeOK /\ ProducerInv /\ ConsumerInv
    BY <2>1 DEF IInv
  <2>3. pushes - pops <= Room /\ pushes - pops <= N - 1 /\ pops <= pushes
    BY <2>2, Knowledge, Ranges
  <2>4. pushes - pops \in 0..(N - 1)
    BY <2>2, <2>3, Ranges
  <2>5. QED
    BY <2>3, <2>4 DEF NeverOverfull, Room
<1>2. QED
  BY <1>1, Invariant, PTL

\* pop() never takes an item that is not there.
THEOREM NoUnderrun == Spec => []NeverUnderrun
<1>1. IInv => NeverUnderrun
  <2>1. SUFFICES ASSUME IInv, cpc \in {"read", "store"} PROVE pops < pushes
    BY DEF NeverUnderrun
  <2>2. TypeOK /\ ProducerInv /\ ConsumerInv
    BY <2>1 DEF IInv
  <2>3. pops + 1 <= pushes
    BY <2>1, <2>2, Knowledge DEF Needed
  <2>4. QED
    BY <2>2, <2>3, Ranges
<1>2. QED
  BY <1>1, Invariant, PTL

-----------------------------------------------------------------------------
(* Nobody waits for ever on one another.                                     *)

\* The two tests on the newest indices, which are only known modulo N, mean
\* what they should: one slot is left, nothing is left.
TestsExact ==
  /\ Full(cIndex) <=> pushes - pops = N - 1
  /\ Empty(pIndex) <=> pushes = pops

\* Full and empty are never taken for one another.
THEOREM FullOrEmpty == Spec => []TestsExact
<1>1. IInv => TestsExact
  <2> SUFFICES ASSUME IInv PROVE TestsExact
    OBVIOUS
  <2>1. TypeOK /\ StoresInv /\ ProducerInv /\ ConsumerInv
    BY DEF IInv
  <2>2. /\ pushes \in Nat /\ pops \in Nat /\ N \in Nat /\ N >= 1
        /\ pops <= pushes /\ pushes - pops <= N - 1
    BY <2>1, Knowledge, Ranges
  <2>3. /\ pIndex = SlotOf(pushes) /\ NextIndex(pIndex) = SlotOf(pushes + 1)
        /\ cIndex = SlotOf(pops)
    BY <2>1, IndexValues
  <2>4. ASSUME pushes - pops # N - 1 PROVE ~Full(cIndex)
    BY <2>2, <2>3, <2>4, SlotsDiffer DEF Full
  <2>5. ASSUME pushes - pops = N - 1 PROVE Full(cIndex)
    <3>1. pushes + 1 = pops + N
      BY <2>2, <2>5
    <3>2. QED
      BY <2>2, <2>3, <3>1, ModPeriod, ConstantsAssumption DEF Full, SlotOf
  <2>6. ASSUME pushes # pops PROVE ~Empty(pIndex)
    BY <2>2, <2>3, <2>6, SlotsDiffer DEF Empty
  <2>7. pushes = pops => Empty(pIndex)
    BY <2>3 DEF Empty
  <2>8. QED
    BY <2>4, <2>5, <2>6, <2>7 DEF TestsExact
<1>2. QED
  BY <1>1, Invariant, PTL

\* A thread is held up: not even a load of the newest index lets it go on.
ProducerWaits == Pushing /\ Full(cIndex)
ConsumerWaits == Popping /\ Empty(pIndex)

\* Until both are done one of them has not ended and is not held up.
NoStandstill ==
  \/ Finished
  \/ ppc # "done" /\ ~ProducerWaits
  \/ cpc # "done" /\ ~ConsumerWaits

\* push() and pop() never hold each other up, in the first run() and in the
\* next ones.
THEOREM Standstill ==
  ASSUME N >= 2
  PROVE  Spec => []NoStandstill
<1>1. IInv /\ TestsExact => NoStandstill
  <2> SUFFICES ASSUME IInv, TestsExact, ~NoStandstill PROVE FALSE
    OBVIOUS
  <2>1. TypeOK /\ BufferInv /\ RunInv /\ ProducerInv /\ ConsumerInv
    BY DEF IInv
  <2>2. /\ pushes \in Nat /\ pops \in Nat /\ N \in Nat /\ pops <= pushes
        /\ sent \in Nat /\ received \in Nat /\ pushes - sent = pops - received
        /\ Items[round] \in Nat
    <3>1. pushes \in Nat /\ pops \in Nat /\ N \in Nat /\ Items[round] \in Nat
      BY <2>1, Ranges, Lengths
    <3>2. sent \in Nat /\ received \in Nat /\ pushes - sent = pops - received
      BY <2>1 DEF BufferInv, TypeOK
    <3>3. pops <= pushes
      BY <2>1, <3>1, Knowledge
    <3>4. QED
      BY <3>1, <3>2, <3>3
  <2>3. CASE ppc = "done"
    <3>1. Popping /\ pushes = pops
      BY <2>3 DEF NoStandstill, Finished, ConsumerWaits, TestsExact
    <3>2. QED
      BY <2>1, <2>2, <2>3, <3>1 DEF RunInv, Popping
  <2>4. CASE cpc = "done"
    <3>1. Pushing
      BY <2>4 DEF NoStandstill, Finished, ProducerWaits
    <3>2. QED
      BY <2>1, <2>2, <2>4, <3>1 DEF RunInv, Pushing
  <2>5. CASE ppc # "done" /\ cpc # "done"
    BY <2>2, <2>5 DEF NoStandstill, ProducerWaits, ConsumerWaits, TestsExact
  <2>6. QED
    BY <2>3, <2>4, <2>5
<1>2. QED
  BY <1>1, Invariant, FullOrEmpty, PTL

\* That needs two slots: with one, which the static_assert lets pass, push()
\* refuses every item.
THEOREM OneSlotHoldsNothing ==
  ASSUME N = 1
  PROVE  Spec => [](ppc \notin {"write", "store"})
<1>1. NeverOverfull => ppc \notin {"write", "store"}
  BY DEF NeverOverfull
<1>2. QED
  BY <1>1, BoundedQueue, PTL

-----------------------------------------------------------------------------
(* The queue implements the bounded FIFO.                                    *)

\* The contents of the queue are the items sent and not yet received, in order.
ContentsAreNext ==
  /\ pushes - pops \in Nat /\ pushes - pops <= Room
  /\ Contents \in Seq(Int) /\ Len(Contents) = pushes - pops
  /\ \A j \in 1..(pushes - pops) : Contents[j] = received + j - 1
  /\ received + (pushes - pops) = sent

LEMMA ContentsValue == IInv => ContentsAreNext
<1> SUFFICES ASSUME IInv PROVE ContentsAreNext
  OBVIOUS
<1>1. TypeOK /\ ProducerInv /\ ConsumerInv /\ BufferInv
  BY DEF IInv
<1>2. /\ pushes - pops \in Nat /\ pushes - pops <= Room /\ received + (pushes - pops) = sent
      /\ pushes \in Nat /\ pops \in Nat /\ received \in Nat /\ sent \in Nat
      /\ Writes \in Nat /\ pushes <= Writes
  <2>1. /\ pushes \in Nat /\ pops \in Nat /\ received \in Nat /\ sent \in Nat
        /\ Writes \in Nat /\ pushes <= Writes
    BY <1>1, Ranges
  <2>2. pushes - pops <= Room /\ pops <= pushes
    BY <1>1, <2>1, Knowledge
  <2>3. pushes - sent = pops - received
    BY <1>1 DEF BufferInv
  <2>4. QED
    BY <2>1, <2>2, <2>3
<1>3. ASSUME NEW j \in 1..(pushes - pops)
      PROVE  buffer[SlotOf(pops + j - 1)] = received + j - 1 /\ received + j - 1 \in Int
  <2>1. pops + j - 1 \in pops..(Writes - 1)
    BY <1>2
  <2>2. buffer[SlotOf(pops + j - 1)] = (pops + j - 1) - pushes + sent
    BY <1>1, <2>1 DEF BufferInv
  <2>3. QED
    BY <1>2, <2>2
<1>4. Contents \in [1..(pushes - pops) -> Int]
  BY <1>3 DEF Contents
<1>5. Contents \in Seq(Int) /\ Len(Contents) = pushes - pops
  BY <1>2, <1>4, SeqDef, LenProperties
<1>6. \A j \in 1..(pushes - pops) : Contents[j] = received + j - 1
  BY <1>3 DEF Contents
<1>7. QED
  BY <1>2, <1>5, <1>6 DEF ContentsAreNext

LEMMA FifoInit == Init => Fifo!Init
<1> SUFFICES ASSUME Init PROVE Fifo!Init
  OBVIOUS
<1>1. ContentsAreNext
  BY InitInvariant, ContentsValue
<1>2. pushes - pops = 0
  BY DEF Init, pushes, pops
<1>3. Contents = << >>
  BY <1>1, <1>2, EmptySeq DEF ContentsAreNext
<1>4. QED
  BY <1>3 DEF Init, Fifo!Init, Contents

\* A step that moves neither index and not the loop counters is invisible.
LEMMA FifoStutter ==
  ASSUME IInv, IInv', ContentsAreNext, ContentsAreNext', pushes' = pushes, pops' = pops,
         UNCHANGED <<sent, received, valid, round>>
  PROVE  UNCHANGED Fifo!fifoVars
<1>1. Contents' = Contents
  <2>1. Contents \in Seq(Int) /\ Contents' \in Seq(Int) /\ Len(Contents') = Len(Contents)
    BY DEF ContentsAreNext
  <2>2. \A j \in 1..Len(Contents) : Contents'[j] = Contents[j]
    BY DEF ContentsAreNext
  <2>3. QED
    BY <2>1, <2>2, SeqEqual
<1>2. QED
  BY <1>1 DEF Fifo!fifoVars, Contents

\* Storing the write index puts an item, storing the read index gets one;
\* nothing else a thread does is visible to the FIFO.
LEMMA FifoStep == IInv /\ [Next]_vars => [Fifo!Next]_(Fifo!fifoVars)
<1> SUFFICES ASSUME IInv, [Next]_vars PROVE [Fifo!Next]_(Fifo!fifoVars)
  OBVIOUS
<1>1. IInv' /\ ContentsAreNext /\ TypeOK /\ StoresInv /\ RunInv /\ BufferInv
  BY StepInvariant, ContentsValue DEF IInv
<1>2. ContentsAreNext'
  <2>1. (IInv => ContentsAreNext)'
    BY ContentsValue, PTL
  <2>2. QED
    BY <1>1, <2>1
<1>3. CASE PushStore
  <2>1. pushes' = pushes + 1 /\ pops' = pops
    BY <1>3, PushStoreStep
  <2>2. sent' = sent + 1 /\ ppc = "store" /\ UNCHANGED <<received, valid, round>>
    BY <1>3 DEF PushStore, consumerVars
  <2>3. sent < Items[round] /\ Len(Contents) < N - 1
    <3>1. Room = N - 2 /\ N \in Nat
      BY <1>1, <2>2, Ranges DEF Room
    <3>2. QED
      BY <1>1, <2>2, <3>1 DEF RunInv, ContentsAreNext
  <2>4. Contents' = Append(Contents, sent)
    <3>1. /\ pushes \in Nat /\ pops \in Nat /\ sent \in Int /\ received \in Nat
      BY <1>1, Ranges
    <3>2. /\ Append(Contents, sent) \in Seq(Int)
          /\ Len(Append(Contents, sent)) = pushes - pops + 1
          /\ Append(Contents, sent)[pushes - pops + 1] = sent
          /\ \A j \in 1..(pushes - pops) : Append(Contents, sent)[j] = Contents[j]
      BY <1>1, <3>1, AppendProperties DEF ContentsAreNext
    <3>3. pushes' - pops' = pushes - pops + 1
      BY <2>1, <3>1
    <3>4. Contents' \in Seq(Int) /\ Len(Contents') = pushes - pops + 1
      BY <1>2, <3>3 DEF ContentsAreNext
    <3>5. ASSUME NEW j \in 1..(pushes - pops + 1)
          PROVE  Contents'[j] = Append(Contents, sent)[j]
      <4>1. Contents'[j] = received + j - 1
        BY <1>2, <2>2, <3>3 DEF ContentsAreNext
      <4>2. CASE j = pushes - pops + 1
        <5>1. received + (pushes - pops) = sent
          BY <1>1 DEF ContentsAreNext
        <5>2. received + j - 1 = sent
          BY <3>1, <4>2, <5>1
        <5>3. QED
          BY <3>2, <4>1, <4>2, <5>2
      <4>3. CASE j # pushes - pops + 1
        <5>1. j \in 1..(pushes - pops)
          BY <3>1, <4>3
        <5>2. QED
          BY <1>1, <3>2, <4>1, <5>1 DEF ContentsAreNext
      <4>4. QED
        BY <4>2, <4>3
    <3>6. QED
      BY <3>2, <3>4, <3>5, SeqEqual
  <2>5. Fifo!Put
    BY <2>2, <2>3, <2>4 DEF Fifo!Put, Contents
  <2>6. QED
    BY <2>5 DEF Fifo!Next
<1>4. CASE PopStore
  <2>1. pops' = pops + 1 /\ pushes' = pushes /\ valid' = valid
    BY <1>4, PopStoreStep
  <2>2. received' = received + 1 /\ cpc = "store" /\ UNCHANGED <<sent, round>>
    BY <1>4 DEF PopStore, producerVars
  <2>3. pushes \in Nat /\ pops \in Nat /\ received \in Nat /\ pushes - pops >= 1
    <3>1. ProducerInv /\ ConsumerInv
      BY DEF IInv
    <3>2. pushes \in Nat /\ pops \in Nat /\ received \in Nat
      BY <1>1, Ranges
    <3>3. pops + 1 <= pushes
      BY <1>1, <2>2, <3>1, Knowledge DEF Needed
    <3>4. QED
      BY <3>2, <3>3
  <2>4. Contents # << >> /\ Head(Contents) = received
    <3>1. Len(Contents) >= 1
      BY <1>1, <2>3 DEF ContentsAreNext
    <3>2. Contents # << >>
      BY <3>1, EmptySeq
    <3>3. Contents[1] = received
      BY <1>1, <2>3 DEF ContentsAreNext
    <3>4. QED
      BY <3>2, <3>3
  <2>5. Contents' = Tail(Contents)
    <3>1. pushes' - pops' = pushes - pops - 1
      BY <2>1, <2>3
    <3>2. /\ Tail(Contents) \in Seq(Int) /\ Len(Tail(Contents)) = pushes - pops - 1
          /\ \A j \in 1..(pushes - pops - 1) : Tail(Contents)[j] = Contents[j + 1]
      BY <1>1, <2>4, HeadTailProperties DEF ContentsAreNext
    <3>3. Contents' \in Seq(Int) /\ Len(Contents') = pushes - pops - 1
      BY <1>2, <3>1 DEF ContentsAreNext
    <3>4. ASSUME NEW j \in 1..(pushes - pops - 1)
          PROVE  Contents'[j] = Tail(Contents)[j]
      <4>1. Contents'[j] = (received + 1) + j - 1
        BY <1>2, <2>2, <3>1 DEF ContentsAreNext
      <4>2. j + 1 \in 1..(pushes - pops) /\ j \in Int
        BY <2>3
      <4>3. Contents[j + 1] = received + (j + 1) - 1
        BY <1>1, <4>2 DEF ContentsAreNext
      <4>4. QED
        BY <2>3, <3>2, <4>1, <4>2, <4>3
    <3>5. QED
      BY <3>2, <3>3, <3>4, SeqEqual
  <2>6. Fifo!Get
    BY <2>1, <2>2, <2>4, <2>5 DEF Fifo!Get, Contents
  <2>7. QED
    BY <2>6 DEF Fifo!Next
<1>5. CASE NextRun
  <2>1. pushes' = pushes /\ pops' = pops /\ pushes = pops
    BY <1>5, NextRunStep
  <2>2. /\ ppc = "done" /\ cpc = "done" /\ round < Rounds /\ round' = round + 1
        /\ sent' = 0 /\ received' = 0 /\ UNCHANGED valid
    BY <1>5 DEF NextRun, Finished
  <2>3. sent = Items[round] /\ received = Items[round]
    BY <1>1, <2>2 DEF RunInv
  <2>4. Contents' = Contents
    <3>1. pushes - pops = 0 /\ pushes' - pops' = 0
      BY <1>1, <2>1, Ranges
    <3>2. QED
      BY <1>1, <1>2, <3>1, EmptySeq DEF ContentsAreNext
  <2>5. Fifo!NextRound
    BY <2>2, <2>3, <2>4 DEF Fifo!NextRound, Contents
  <2>6. QED
    BY <2>5 DEF Fifo!Next
<1>6. ASSUME Push \/ Pop, ~PushStore, ~PopStore
      PROVE  UNCHANGED <<pStores, cStores, sent, received, valid, round>>
  BY <1>6 DEF Push, Pop, PushFast, PushAllowed, PushRefused, LoadReadIndex, PushWrite,
     ProducerDone, PopFast, PopAllowed, PopRefused, LoadWriteIndex, PopRead, ConsumerDone,
     producerVars, consumerVars
<1>7. ASSUME UNCHANGED <<pStores, cStores, sent, received, valid, round>>
      PROVE  UNCHANGED Fifo!fifoVars
  <2>1. pushes' = pushes /\ pops' = pops
    BY <1>7 DEF pushes, pops
  <2>2. QED
    BY <1>1, <1>2, <1>7, <2>1, FifoStutter
<1>8. CASE UNCHANGED vars
  BY <1>7, <1>8 DEF vars, producerVars, consumerVars
<1>9. QED
  BY <1>3, <1>4, <1>5, <1>6, <1>7, <1>8 DEF Next, AllJoined

\* The lock-free queue, used again and again, behaves as a FIFO of N - 1 items.
THEOREM ImplementsFifo == Spec => FifoSpec
BY FifoInit, FifoStep, Invariant, PTL DEF Spec, FifoSpec, Fifo!Spec

=============================================================================
