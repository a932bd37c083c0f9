---------------------------- MODULE FeedsProofs ----------------------------
(***************************************************************************)
(* Proofs about Feeds, for any number of threads, packets and subscribers  *)
(* and any depth of the book.                                              *)
(***************************************************************************)
EXTENDS Feeds, SequenceTheorems, WellFoundedInduction, TLAPS

-----------------------------------------------------------------------------
(* The book.                                                                 *)

\* Numbers up to n have a largest.
LEMMA LargestExists ==
  ASSUME NEW n \in Nat, NEW S \in SUBSET (0..n), 0 \in S
  PROVE  \E m \in S : \A x \in S : m >= x
<1> DEFINE T == {m \in Nat : \A x \in S : x <= m}
           R == OpToRel(<, Nat)
<1>1. \A x \in S : x \in Nat /\ x <= n
  OBVIOUS
<1>2. n \in T /\ T \subseteq Nat
  BY <1>1
<1>3. IsWellFoundedOn(R, Nat)
  BY NatLessThanWellFounded
<1>4. \A x, y \in Nat : <<x, y>> \in R <=> x < y
  BY DEF OpToRel
<1> HIDE DEF R
<1>5. PICK u \in T : \A y \in T : ~ (<<y, u>> \in R)
  <2> HIDE DEF T
  <2>1. T # {}
    BY <1>2
  <2>2. QED
    BY <1>2, <1>3, <2>1, WFMin
<1>6. u \in S
  <2> SUFFICES ASSUME u \notin S PROVE FALSE
    OBVIOUS
  <2>1. u \in Nat /\ \A x \in S : x <= u
    BY <1>5
  <2>2. u - 1 \in Nat /\ u - 1 < u
    BY <2>1
  <2>3. \A x \in S : x <= u - 1
    BY <1>1, <2>1, <2>2
  <2>4. QED
    BY <1>4, <1>5, <2>1, <2>2, <2>3
<1>7. QED
  BY <1>1, <1>5, <1>6

\* The book that the packets in a make, once the first n of them are applied.
Touching(a, n, l) == {0} \union {k \in 1..n : LevelOf(a[k].packet) = l}
Bid(a, n, l) ==
  IF Feed!Max(Touching(a, n, l)) = 0 THEN 0 ELSE a[Feed!Max(Touching(a, n, l))].packet
BookOf(a, n) == [seq |-> n, bids |-> [l \in Levels |-> Bid(a, n, l)]]

LEMMA BookIs ==
  /\ \A n : Feed!BookAfter(n) = BookOf(applied, n)
  /\ \A n : Feed!BookAfter(n)' = BookOf(applied', n)
  BY DEF Feed!BookAfter, BookOf, Bid, Touching, Levels, LevelOf, Feed!LevelOf

LEMMA MaxIn ==
  ASSUME NEW n \in Nat, NEW S \in SUBSET (0..n), 0 \in S
  PROVE  Feed!Max(S) \in S /\ \A x \in S : Feed!Max(S) >= x
<1>1. \E m \in S : \A x \in S : m >= x
  BY LargestExists
<1>2. QED
  BY <1>1 DEF Feed!Max

\* A later packet does not change the books before it.
LEMMA BookStays ==
  ASSUME NEW a \in Seq(Entries), NEW e \in Entries, NEW n \in 0..Len(a)
  PROVE  BookOf(Append(a, e), n) = BookOf(a, n)
<1> DEFINE b == Append(a, e)
<1>1. Len(a) \in Nat /\ \A k \in 1..n : b[k] = a[k]
  OBVIOUS
<1> HIDE DEF b
<1>2. ASSUME NEW l \in Levels
      PROVE  Bid(b, n, l) = Bid(a, n, l)
  <2>1. Touching(b, n, l) = Touching(a, n, l)
    BY <1>1 DEF Touching
  <2>2. Feed!Max(Touching(a, n, l)) \in Touching(a, n, l)
    <3>1. n \in Nat /\ Touching(a, n, l) \in SUBSET (0..n) /\ 0 \in Touching(a, n, l)
      BY <1>1 DEF Touching
    <3>2. QED
      BY <3>1, MaxIn
  <2>3. \A m \in Touching(a, n, l) : m # 0 => m \in 1..n
    BY DEF Touching
  <2>4. QED
    BY <1>1, <2>1, <2>2, <2>3 DEF Bid
<1>3. BookOf(b, n) = BookOf(a, n)
  BY <1>2 DEF BookOf
<1>4. QED
  BY <1>3 DEF b

\* What packet p does to a book.
Changed(b, p) == [b EXCEPT !.bids[LevelOf(p)] = p, !.seq = b.seq + 1]

LEMMA BookGrows ==
  ASSUME NEW a \in Seq(Entries), NEW e \in Entries,
         NEW b, b = BookOf(a, Len(a))
  PROVE  BookOf(Append(a, e), Len(a) + 1) = Changed(b, e.packet)
<1> DEFINE c == Append(a, e)
           n == Len(a)
<1>1. n \in Nat /\ c[n + 1] = e /\ \A k \in 1..n : c[k] = a[k]
  OBVIOUS
<1>2. BookOf(c, n) = BookOf(a, n)
  BY <1>1, BookStays
<1>3. /\ b = [seq |-> n, bids |-> [l \in Levels |-> Bid(c, n, l)]]
      /\ BookOf(c, n + 1) = [seq |-> n + 1, bids |-> [l \in Levels |-> Bid(c, n + 1, l)]]
  BY <1>2 DEF BookOf
<1> HIDE DEF c, n
<1>4. ASSUME NEW l \in Levels
      PROVE  Bid(c, n + 1, l) = IF l = LevelOf(e.packet) THEN e.packet ELSE Bid(c, n, l)
  <2>1. \A k : k \in 1..(n + 1) <=> k \in 1..n \/ k = n + 1
    BY <1>1
  <2>2. CASE l = LevelOf(e.packet)
    <3>1. n + 1 \in Touching(c, n + 1, l) /\ n + 1 # 0
      BY <1>1, <2>1, <2>2 DEF Touching
    <3>2. Touching(c, n + 1, l) \in SUBSET (0..(n + 1)) /\ 0 \in Touching(c, n + 1, l)
      BY <1>1 DEF Touching
    <3>3. /\ Feed!Max(Touching(c, n + 1, l)) \in Touching(c, n + 1, l)
          /\ \A x \in Touching(c, n + 1, l) : Feed!Max(Touching(c, n + 1, l)) >= x
      <4>1. n + 1 \in Nat
        BY <1>1
      <4>2. QED
        BY <3>2, <4>1, MaxIn
    <3>4. Feed!Max(Touching(c, n + 1, l)) = n + 1
      <4>1. /\ Feed!Max(Touching(c, n + 1, l)) \in 0..(n + 1)
            /\ Feed!Max(Touching(c, n + 1, l)) >= n + 1
        BY <3>1, <3>2, <3>3
      <4>2. QED
        BY <1>1, <4>1
    <3>5. QED
      BY <1>1, <2>2, <3>1, <3>4 DEF Bid
  <2>3. CASE l # LevelOf(e.packet)
    <3>1. Touching(c, n + 1, l) = Touching(c, n, l)
      BY <1>1, <2>1, <2>3 DEF Touching
    <3>2. QED
      BY <2>3, <3>1 DEF Bid
  <2>4. QED
    BY <2>2, <2>3
<1>5. [b EXCEPT !.bids[LevelOf(e.packet)] = e.packet, !.seq = b.seq + 1] =
        [seq |-> n + 1,
         bids |-> [l \in Levels |->
                    IF l = LevelOf(e.packet) THEN e.packet ELSE Bid(c, n, l)]]
  <2> DEFINE f == [l \in Levels |-> Bid(c, n, l)]
             x == LevelOf(e.packet)
             v == e.packet
  <2>1. b = [seq |-> n, bids |-> f]
    BY <1>3
  <2>2. [f EXCEPT ![x] = v] = [l \in Levels |-> IF l = x THEN v ELSE Bid(c, n, l)]
    OBVIOUS
  <2> HIDE DEF f, x, v
  <2>3. b.seq = n /\ b.bids = f
    BY <2>1
  <2>4. [b EXCEPT !.bids[x] = v] = [seq |-> n, bids |-> [f EXCEPT ![x] = v]]
    BY <2>1
  <2>5. [[seq |-> n, bids |-> [f EXCEPT ![x] = v]] EXCEPT !.seq = n + 1] =
          [seq |-> n + 1, bids |-> [f EXCEPT ![x] = v]]
    OBVIOUS
  <2>6. [b EXCEPT !.bids[x] = v, !.seq = b.seq + 1] =
          [[b EXCEPT !.bids[x] = v] EXCEPT !.seq = b.seq + 1]
    OBVIOUS
  <2>7. [b EXCEPT !.bids[x] = v, !.seq = b.seq + 1] =
          [seq |-> n + 1, bids |-> [l \in Levels |-> IF l = x THEN v ELSE Bid(c, n, l)]]
    BY <2>2, <2>3, <2>4, <2>5, <2>6
  <2>8. QED
    BY <2>7 DEF x, v
<1>6. QED
  BY <1>3, <1>4, <1>5 DEF Changed, c, n

-----------------------------------------------------------------------------
(* What a step of one thread leaves as it is.                                *)

\* Nothing changes for the other threads.
Only(t) ==
  \A u \in Threads : u # t =>
    /\ pc'[u] = pc[u] /\ packet'[u] = packet[u] /\ snapshot'[u] = snapshot[u]
    /\ known'[u] = known[u] /\ subs'[u] = subs[u] /\ at'[u] = at[u]
    /\ copied'[u] = copied[u]

\* The newest list of subscribers.
LEMMA Newest ==
  ASSUME TypeOK
  PROVE  /\ Len(lists) \in Nat \ {0} /\ Len(lists) \in 1..Len(lists)
         /\ \A k \in 1..Len(lists) : lists[k] \in Seq(Kinds) /\ Len(lists[k]) \in Nat
         /\ callbacks \in Seq(Kinds) /\ Len(callbacks) \in Nat
<1>1. lists \in Seq(Seq(Kinds)) /\ Len(lists) \in Nat \ {0}
  BY DEF TypeOK
<1>2. Len(lists) \in 1..Len(lists)
  BY <1>1
<1>3. \A k \in 1..Len(lists) : lists[k] \in Seq(Kinds)
  BY <1>1, ElementOfSeq
<1>4. QED
  BY <1>1, <1>2, <1>3 DEF callbacks

\* The packets that were applied.
LEMMA Entry ==
  ASSUME TypeOK
  PROVE  /\ Len(applied) \in Nat
         /\ \A n \in 1..Len(applied) :
              applied[n].packet \in Nat /\ applied[n].audience \in Nat
<1>1. applied \in Seq(Entries)
  BY DEF TypeOK
<1>2. \A n \in 1..Len(applied) : applied[n] \in Entries
  BY <1>1, ElementOfSeq
<1>3. QED
  BY <1>1, <1>2 DEF Entries

\* What a thread has.
LEMMA OfThread ==
  ASSUME TypeOK, NEW t \in Threads
  PROVE  /\ pc[t] \in Labels /\ packet[t] \in Nat /\ snapshot[t] \in Books
         /\ known[t] \in Nat \ {0} /\ at[t] \in Nat \ {0}
         /\ subs[t] \in Seq(Kinds) /\ Len(subs[t]) \in Nat
         /\ copied[t] \in Seq(Kinds)
<1>1. /\ pc[t] \in Labels /\ packet[t] \in Nat /\ snapshot[t] \in Books
      /\ known[t] \in Nat \ {0} /\ at[t] \in Nat \ {0}
      /\ subs[t] \in Seq(Kinds) /\ copied[t] \in Seq(Kinds)
  BY DEF TypeOK
<1>2. QED
  BY <1>1

\* Nobody is entered and nobody called.
LEMMA ListsTyped ==
  ASSUME TypeOK, UNCHANGED <<lists, heard>>
  PROVE  /\ callbacks' = callbacks
         /\ lists' \in Seq(Seq(Kinds)) /\ Len(lists') > 0
         /\ heard' \in [1..Len(callbacks') -> Seq(Books)]
<1>1. callbacks' = callbacks
  BY DEF callbacks
<1>2. heard \in [1..Len(callbacks) -> Seq(Books)] /\ lists \in Seq(Seq(Kinds)) /\ Len(lists) > 0
  BY DEF TypeOK
<1>3. QED
  BY <1>1, <1>2

\* A sequence with one more element.
LEMMA OneMore ==
  ASSUME NEW S, NEW q \in Seq(S), NEW e \in S
  PROVE  /\ Append(q, e) \in Seq(S)
         /\ Len(Append(q, e)) = Len(q) + 1
         /\ Append(q, e)[Len(q) + 1] = e
         /\ \A k \in 1..Len(q) : Append(q, e)[k] = q[k]
         /\ \A k : k \in 1..Len(Append(q, e)) <=> k \in 1..Len(q) \/ k = Len(q) + 1
<1>1. Len(q) \in Nat /\ Len(Append(q, e)) = Len(q) + 1
  OBVIOUS
<1>2. /\ Append(q, e) \in Seq(S)
      /\ Append(q, e)[Len(q) + 1] = e
      /\ \A k \in 1..Len(q) : Append(q, e)[k] = q[k]
  BY AppendProperties
<1>3. QED
  BY <1>1, <1>2

\* A packet that was applied has a number.
LEMMA AppliedPackets ==
  ASSUME TypeOK, PacketInv
  PROVE  /\ DOMAIN applied = 1..Len(applied)
         /\ \A n \in 1..Len(applied) : applied[n].packet # 0
<1>1. issued \in Nat /\ DOMAIN applied = 1..Len(applied)
  BY ConstantsAssumption DEF TypeOK
<1>2. \A n \in 1..Len(applied) : applied[n].packet \in 1..issued
  BY DEF PacketInv
<1>3. QED
  BY <1>1, <1>2

\* The mutex passes from a thread to nobody, or from nobody to a thread.
LEMMA MutexKept ==
  ASSUME MutexInv, NEW t \in Threads, Only(t), UNCHANGED design,
         mutex' = mutex \/ mutex \in {t, NoThread},
         Inside(t)' => mutex' = t,
         pc'[t] \in {"list", "store"} => design # "A" \/ packet'[t] = 0
  PROVE  MutexInv'
<1> SUFFICES ASSUME NEW u \in Threads
             PROVE  /\ Inside(u)' => mutex' = u
                    /\ design = "A" /\ packet'[u] # 0 => pc'[u] \notin {"list", "store"}
  BY DEF MutexInv
<1>1. CASE u = t
  BY <1>1
<1>2. CASE u # t
  <2>1. Inside(u)' => Inside(u)
    BY <1>2 DEF Inside, Only
  <2>2. Inside(u) => mutex = u
    BY DEF MutexInv
  <2>3. design = "A" /\ packet'[u] # 0 => pc'[u] \notin {"list", "store"}
    BY <1>2 DEF MutexInv, Only
  <2>4. QED
    BY <1>2, <2>1, <2>2, <2>3, ConstantsAssumption
<1>3. QED
  BY <1>1, <1>2

\* No list is written.
LEMMA ListKept ==
  ASSUME ListInv, NEW t \in Threads, Only(t), UNCHANGED lists,
         pc'[t] = "store" => copied'[t] = callbacks
  PROVE  ListInv'
<1>1. callbacks' = callbacks
  BY DEF callbacks
<1>2. \A u \in Threads : pc'[u] = "store" => copied'[u] = callbacks
  BY DEF ListInv, Only
<1>3. QED
  BY <1>1, <1>2 DEF ListInv

\* No packet is issued, applied or done.
LEMMA PacketKept ==
  ASSUME PacketInv, NEW t \in Threads, Only(t), UNCHANGED <<issued, packet, applied>>,
         pc'[t] = "idle" => packet[t] = 0,
         pc'[t] \in {"lock", "apply", "applied", "load", "notify"} => packet[t] # 0,
         packet[t] # 0 => (pc'[t] \in {"lock", "apply"} <=> pc[t] \in {"lock", "apply"})
  PROVE  PacketInv'
<1>1. \A u \in Threads :
        /\ pc'[u] = "idle" => packet[u] = 0
        /\ pc'[u] \in {"lock", "apply", "applied", "load", "notify"} => packet[u] # 0
        /\ packet[u] # 0 => (pc'[u] \in {"lock", "apply"} <=> pc[u] \in {"lock", "apply"})
  BY DEF PacketInv, Only
<1>2. \A u \in Threads :
        packet[u] # 0 =>
          (pc'[u] \notin {"lock", "apply"} <=>
            \E n \in 1..Len(applied) : applied[n].packet = packet[u])
  BY <1>1 DEF PacketInv
<1>3. QED
  BY <1>1, <1>2 DEF PacketInv

\* No book is changed and no packet applied.
LEMMA BookKept ==
  ASSUME BookInv, UNCHANGED <<book, applied>>
  PROVE  BookInv'
BY BookIs DEF BookInv

\* A call stays where it is while no packet is applied and nobody called.
LEMMA ShowingKept ==
  ASSUME UNCHANGED <<design, applied, lists, heard>>, NEW u,
         pc'[u] = pc[u], snapshot'[u] = snapshot[u], at'[u] = at[u],
         NEW n, Showing(u, n)
  PROVE  Showing(u, n)'
<1>1. Len(callbacks') = Len(callbacks) /\ Len(applied') = Len(applied)
  BY DEF callbacks
<1>2. DoneWith(u)' = DoneWith(u)
  BY DEF DoneWith
<1>3. \A s : Heard(s, n)' <=> Heard(s, n)
  BY DEF Heard
<1>4. Feed!BookAfter(n)' = Feed!BookAfter(n)
  BY BookIs
<1>5. QED
  BY <1>1, <1>2, <1>3, <1>4 DEF Showing

LEMMA OwingKept ==
  ASSUME UNCHANGED <<applied, lists>>, NEW u,
         pc'[u] = pc[u], known'[u] = known[u], subs'[u] = subs[u], at'[u] = at[u],
         NEW n, Owing(u, n)
  PROVE  Owing(u, n)'
<1>1. Len(callbacks') = Len(callbacks)
  BY DEF callbacks
<1>2. DoneWith(u)' = DoneWith(u)
  BY DEF DoneWith
<1>3. QED
  BY <1>1, <1>2 DEF Owing

LEMMA CallKept ==
  ASSUME CallInv, NEW t \in Threads, Only(t), UNCHANGED <<design, applied, lists, heard>>,
         \A n \in 1..Len(applied) :
           applied[n].packet = packet'[t] => Showing(t, n)' /\ Owing(t, n)'
  PROVE  CallInv'
<1> SUFFICES ASSUME NEW u \in Threads, NEW n \in 1..Len(applied),
                    applied[n].packet = packet'[u]
             PROVE  Showing(u, n)' /\ Owing(u, n)'
  BY DEF CallInv
<1>1. CASE u = t
  BY <1>1
<1>2. CASE u # t
  <2>1. /\ pc'[u] = pc[u] /\ packet'[u] = packet[u] /\ snapshot'[u] = snapshot[u]
        /\ known'[u] = known[u] /\ subs'[u] = subs[u] /\ at'[u] = at[u]
    BY <1>2 DEF Only
  <2>2. Showing(u, n) /\ Owing(u, n)
    BY <2>1 DEF CallInv
  <2>3. QED
    BY <2>1, <2>2, ShowingKept, OwingKept
<1>3. QED
  BY <1>1, <1>2

\* Nobody is called.
LEMMA HeardKept ==
  ASSUME HeardInv, HeardInOrder, UNCHANGED <<design, lists, applied, heard>>
  PROVE  HeardInv' /\ HeardInOrder'
<1>1. callbacks' = callbacks
  BY DEF callbacks
<1>2. QED
  BY <1>1 DEF HeardInv, HeardInOrder

\* Where a call is whose packet has been applied.
LEMMA Place ==
  ASSUME IInv, NEW t \in Threads, packet[t] # 0, pc[t] \notin {"lock", "apply"}
  PROVE  \E n \in 1..Len(applied) :
           applied[n].packet = packet[t] /\ Showing(t, n) /\ Owing(t, n)
BY DEF IInv, PacketInv, CallInv

-----------------------------------------------------------------------------
(* The steps that neither apply a packet nor call or enter a subscriber.     *)

LEMMA CallPacketKeepsInv ==
  ASSUME IInv, NEW t \in Threads, CallPacket(t)
  PROVE  IInv'
<1>0. TypeOK /\ MutexInv /\ ListInv /\ PacketInv /\ BookInv /\ CallInv /\ HeardInv /\ HeardInOrder
  BY DEF IInv
<1>1. /\ pc[t] = "idle" /\ issued < Packets
      /\ issued' = issued + 1
      /\ packet' = [packet EXCEPT ![t] = issued + 1]
      /\ pc' = [pc EXCEPT ![t] = "lock"]
      /\ UNCHANGED <<design, mutex, book, lists, added, others, snapshot, known, subs, at,
                     copied, applied, heard>>
  BY DEF CallPacket, MorePackets, Goto, sharedVars
<1>2. issued \in Nat /\ Packets \in Nat /\ issued + 1 \in 0..Packets /\ packet[t] = 0
  BY <1>0, <1>1, ConstantsAssumption DEF TypeOK, PacketInv
<1>3. /\ pc'[t] = "lock" /\ packet'[t] = issued + 1 /\ Only(t)
  BY <1>0, <1>1 DEF TypeOK, Only
<1>4. TypeOK'
  <2>1. pc' \in [Threads -> Labels]
    BY <1>0, <1>1, <1>2 DEF TypeOK, Labels
  <2>2. /\ lists' \in Seq(Seq(Kinds)) /\ Len(lists') > 0
        /\ heard' \in [1..Len(callbacks') -> Seq(Books)]
    BY <1>0, <1>1, <1>2, ListsTyped
  <2>3. issued' \in 0..Packets /\ packet' \in [Threads -> Nat]
    BY <1>0, <1>1, <1>2 DEF TypeOK
  <2>4. QED
    BY <2>1, <2>2, <2>3, <1>0, <1>1 DEF TypeOK
<1>5. MutexInv'
  <2>1. ~Inside(t)'
    BY <1>3 DEF Inside
  <2>2. QED
    BY <2>1, <1>0, <1>1, <1>3, MutexKept
<1>6. ListInv'
  BY <1>0, <1>1, <1>3, ListKept
<1>7. \A n \in 1..Len(applied) : applied[n].packet # issued + 1
  <2>1. \A n \in 1..Len(applied) : applied[n].packet <= issued
    BY <1>0, <1>2 DEF PacketInv
  <2>2. QED
    BY <2>1, <1>0, <1>2, Entry
<1>8. PacketInv'
  <2>1. \A u \in Threads :
          /\ packet[u] \in Nat /\ packet[u] <= issued
          /\ u # t => packet'[u] = packet[u] /\ pc'[u] = pc[u]
    BY <1>0, <1>3 DEF TypeOK, PacketInv, Only
  <2>2. \A u \in Threads : pc'[u] = "idle" => packet'[u] = 0
    BY <2>1, <1>0, <1>3 DEF PacketInv
  <2>3. \A u \in Threads :
          pc'[u] \in {"lock", "apply", "applied", "load", "notify"} => packet'[u] # 0
    BY <2>1, <1>0, <1>2, <1>3 DEF PacketInv
  <2>4. \A u \in Threads : packet'[u] <= issued'
    BY <2>1, <1>1, <1>2, <1>3
  <2>5. \A u, w \in Threads : packet'[u] # 0 /\ packet'[u] = packet'[w] => u = w
    <3>1. \A u \in Threads : u # t => packet'[u] # packet'[t]
      BY <2>1, <1>2, <1>3
    <3>2. QED
      BY <3>1, <2>1, <1>0 DEF PacketInv
  <2>6. \A n \in 1..Len(applied') : applied'[n].packet \in 1..issued'
    BY <1>0, <1>1, <1>2 DEF PacketInv
  <2>7. \A m, n \in 1..Len(applied') : applied'[m].packet = applied'[n].packet => m = n
    BY <1>0, <1>1 DEF PacketInv
  <2>8. ASSUME NEW u \in Threads, packet'[u] # 0
        PROVE  pc'[u] \notin {"lock", "apply"} <=>
                 \E n \in 1..Len(applied') : applied'[n].packet = packet'[u]
    <3>1. CASE u = t
      BY <3>1, <1>1, <1>3, <1>7
    <3>2. CASE u # t
      BY <3>2, <2>1, <2>8, <1>0, <1>1 DEF PacketInv
    <3>3. QED
      BY <3>1, <3>2
  <2>9. QED
    BY <2>2, <2>3, <2>4, <2>5, <2>6, <2>7, <2>8 DEF PacketInv
<1>9. BookInv'
  BY <1>0, <1>1, BookKept
<1>10. CallInv'
  BY <1>0, <1>1, <1>3, <1>7, CallKept
<1>11. HeardInv' /\ HeardInOrder'
  BY <1>0, <1>1, HeardKept
<1>12. QED
  BY <1>4, <1>5, <1>6, <1>8, <1>9, <1>10, <1>11 DEF IInv

LEMMA CallOtherKeepsInv ==
  ASSUME IInv, NEW t \in Threads, CallOther(t)
  PROVE  IInv'
<1>0. TypeOK /\ MutexInv /\ ListInv /\ PacketInv /\ BookInv /\ CallInv /\ HeardInv /\ HeardInOrder
  BY DEF IInv
<1>1. PICK label \in {"subscribe", "quote"} :
        /\ pc[t] = "idle" /\ others < Others
        /\ others' = others + 1
        /\ pc' = [pc EXCEPT ![t] = label]
        /\ UNCHANGED <<design, mutex, book, lists, added, issued, packet, snapshot, known,
                       subs, at, copied, applied, heard>>
  BY DEF CallOther, Goto, sharedVars
<1>2. packet[t] = 0 /\ others + 1 \in 0..Others
  BY <1>0, <1>1, ConstantsAssumption DEF PacketInv, TypeOK
<1>3. pc'[t] = label /\ packet'[t] = 0 /\ Only(t)
  BY <1>0, <1>1, <1>2 DEF TypeOK, Only
<1>4. TypeOK'
  <2>1. pc' \in [Threads -> Labels]
    BY <1>0, <1>1, <1>2 DEF TypeOK, Labels
  <2>2. /\ lists' \in Seq(Seq(Kinds)) /\ Len(lists') > 0
        /\ heard' \in [1..Len(callbacks') -> Seq(Books)]
    BY <1>0, <1>1, <1>2, ListsTyped
  <2>3. others' \in 0..Others
    BY <1>1, <1>2
  <2>4. QED
    BY <2>1, <2>2, <2>3, <1>0, <1>1 DEF TypeOK
<1>5. MutexInv'
  <2>1. ~Inside(t)'
    BY <1>3 DEF Inside
  <2>2. QED
    BY <2>1, <1>0, <1>1, <1>3, MutexKept
<1>6. ListInv'
  BY <1>0, <1>1, <1>3, ListKept
<1>7. PacketInv'
  BY <1>0, <1>1, <1>2, <1>3, PacketKept
<1>8. BookInv'
  BY <1>0, <1>1, BookKept
<1>9. CallInv'
  <2>1. \A n \in 1..Len(applied) : applied[n].packet # 0
    BY <1>0, AppliedPackets
  <2>2. QED
    BY <2>1, <1>0, <1>1, <1>3, CallKept
<1>10. HeardInv' /\ HeardInOrder'
  BY <1>0, <1>1, HeardKept
<1>11. QED
  BY <1>4, <1>5, <1>6, <1>7, <1>8, <1>9, <1>10 DEF IInv

LEMMA LockForPacketKeepsInv ==
  ASSUME IInv, NEW t \in Threads, LockForPacket(t)
  PROVE  IInv'
<1>0. TypeOK /\ MutexInv /\ ListInv /\ PacketInv /\ BookInv /\ CallInv /\ HeardInv /\ HeardInOrder
  BY DEF IInv
<1>1. /\ pc[t] = "lock" /\ mutex = NoThread /\ mutex' = t
      /\ pc' = [pc EXCEPT ![t] = "apply"]
      /\ UNCHANGED <<design, book, lists, added, issued, others, packet, snapshot, known,
                     subs, at, copied, applied, heard>>
  BY DEF LockForPacket, Lock, Free, Goto, clientVars
<1>2. pc'[t] = "apply" /\ packet'[t] = packet[t] /\ packet[t] # 0 /\ Only(t)
  BY <1>0, <1>1 DEF TypeOK, Only, PacketInv
<1>3. TypeOK'
  <2>1. pc' \in [Threads -> Labels]
    BY <1>0, <1>1 DEF TypeOK, Labels
  <2>2. /\ lists' \in Seq(Seq(Kinds)) /\ Len(lists') > 0
        /\ heard' \in [1..Len(callbacks') -> Seq(Books)]
    BY <1>0, <1>1, ListsTyped
  <2>3. QED
    BY <2>1, <2>2, <1>0, <1>1 DEF TypeOK
<1>4. MutexInv'
  BY <1>0, <1>1, <1>2, MutexKept
<1>5. ListInv'
  BY <1>0, <1>1, <1>2, ListKept
<1>6. PacketInv'
  BY <1>0, <1>1, <1>2, PacketKept
<1>7. BookInv'
  BY <1>0, <1>1, BookKept
<1>8. CallInv'
  <2>1. \A n \in 1..Len(applied) : applied[n].packet # packet[t]
    BY <1>0, <1>1, <1>2 DEF PacketInv
  <2>2. QED
    BY <2>1, <1>0, <1>1, <1>2, CallKept
<1>9. HeardInv' /\ HeardInOrder'
  BY <1>0, <1>1, HeardKept
<1>10. QED
  BY <1>3, <1>4, <1>5, <1>6, <1>7, <1>8, <1>9 DEF IInv

LEMMA LoadListKeepsInv ==
  ASSUME IInv, NEW t \in Threads, NEW k \in 1..Len(lists), LoadList(t, k)
  PROVE  IInv'
<1>0. TypeOK /\ MutexInv /\ ListInv /\ PacketInv /\ BookInv /\ CallInv /\ HeardInv /\ HeardInOrder
  BY DEF IInv
<1>1. /\ pc[t] = "load" /\ k \in known[t]..Len(lists)
      /\ subs' = [subs EXCEPT ![t] = lists[k]]
      /\ pc' = [pc EXCEPT ![t] = "notify"]
      /\ UNCHANGED <<design, mutex, book, lists, added, issued, others, packet, snapshot,
                     known, at, copied, applied, heard>>
  BY DEF LoadList, Loadable, Goto, clientVars, sharedVars
<1>2. /\ pc'[t] = "notify" /\ subs'[t] = lists[k] /\ Only(t)
      /\ packet'[t] = packet[t] /\ packet[t] # 0 /\ at'[t] = at[t]
      /\ lists[k] \in Seq(Kinds)
  BY <1>0, <1>1, Newest DEF TypeOK, Only, PacketInv
<1>3. TypeOK'
  <2>1. pc' \in [Threads -> Labels]
    BY <1>0, <1>1, <1>2 DEF TypeOK, Labels
  <2>2. /\ lists' \in Seq(Seq(Kinds)) /\ Len(lists') > 0
        /\ heard' \in [1..Len(callbacks') -> Seq(Books)]
    BY <1>0, <1>1, <1>2, ListsTyped
  <2>3. QED
    BY <2>1, <2>2, <1>0, <1>1, <1>2 DEF TypeOK
<1>4. MutexInv'
  <2>1. Inside(t)' => Inside(t)
    BY <1>1, <1>2 DEF Inside
  <2>2. QED
    BY <2>1, <1>0, <1>1, <1>2, MutexKept DEF MutexInv
<1>5. ListInv'
  BY <1>0, <1>1, <1>2, ListKept
<1>6. PacketInv'
  BY <1>0, <1>1, <1>2, PacketKept
<1>7. BookInv'
  BY <1>0, <1>1, BookKept
<1>8. CallInv'
  <2> SUFFICES ASSUME NEW n \in 1..Len(applied), applied[n].packet = packet'[t]
               PROVE  Showing(t, n)' /\ Owing(t, n)'
    BY <1>0, <1>1, <1>2, CallKept
  <2>1. Showing(t, n) /\ Owing(t, n)
    BY <1>0, <1>2 DEF CallInv
  <2>2. callbacks' = callbacks /\ \A s : Heard(s, n)' <=> Heard(s, n)
    BY <1>1 DEF callbacks, Heard
  <2>3. at[t] = 1 /\ DoneWith(t) = 0 /\ DoneWith(t)' = 0
    BY <1>1, <1>2, <2>1 DEF DoneWith, Owing
  <2>4. Showing(t, n)'
    <3>1. Feed!BookAfter(n)' = Feed!BookAfter(n)
      BY <1>1, BookIs
    <3>2. QED
      BY <1>1, <1>2, <2>1, <2>2, <2>3, <3>1 DEF Showing
  <2>5. Owing(t, n)'
    <3>1. /\ known[t] \in Nat \ {0} /\ known[t] <= k /\ k <= Len(lists)
          /\ applied[n].audience <= Len(lists[known[t]])
      BY <1>0, <1>1, <2>1, OfThread DEF Owing
    <3>2. First \in Nat /\ Len(lists) \in 1..Len(lists) /\ known[t] \in 1..Len(lists)
      BY <1>0, <3>1, ConstantsAssumption, Newest
    <3>3. /\ Len(lists[known[t]]) = First + known[t] - 1
          /\ Len(lists[k]) = First + k - 1
          /\ Len(callbacks) = First + Len(lists) - 1
      BY <1>0, <3>2 DEF ListInv, callbacks
    <3>4. applied[n].audience <= Len(subs'[t]) /\ Len(subs'[t]) <= Len(callbacks')
      <4>1. applied[n].audience \in Nat
        BY <1>0, Entry
      <4>2. /\ Len(lists) \in Nat /\ k \in Nat /\ known[t] \in Nat /\ First \in Nat
        BY <3>1, <3>2
      <4>3. Len(subs'[t]) = First + k - 1 /\ Len(callbacks') = First + Len(lists) - 1
        BY <1>2, <2>2, <3>3
      <4>4. applied[n].audience <= First + known[t] - 1
        BY <3>1, <3>3
      <4>5. applied[n].audience <= First + k - 1 /\ k <= Len(lists)
        BY <3>1, <4>1, <4>2, <4>4
      <4>6. QED
        BY <4>2, <4>3, <4>5
    <3>5. DoneWith(t)' <= Len(subs'[t])
      BY <1>2, <2>3, <3>2, <3>3
    <3>6. QED
      BY <1>1, <1>2, <3>4, <3>5 DEF Owing
  <2>6. QED
    BY <2>4, <2>5
<1>9. HeardInv' /\ HeardInOrder'
  BY <1>0, <1>1, HeardKept
<1>10. QED
  BY <1>3, <1>4, <1>5, <1>6, <1>7, <1>8, <1>9 DEF IInv

LEMMA LeaveBlockKeepsInv ==
  ASSUME IInv, NEW t \in Threads, LeaveBlock(t)
  PROVE  IInv'
<1>0. TypeOK /\ MutexInv /\ ListInv /\ PacketInv /\ BookInv /\ CallInv /\ HeardInv /\ HeardInOrder
  BY DEF IInv
<1> DEFINE label == IF design = "C" THEN "load" ELSE "notify"
           list == IF design = "C" THEN << >> ELSE callbacks
<1>1. /\ pc[t] = "applied"
      /\ design = "A" => mutex' = mutex
      /\ design # "A" => mutex' = NoThread
      /\ snapshot' = IF design = "A" THEN snapshot ELSE [snapshot EXCEPT ![t] = book]
      /\ known' = [known EXCEPT ![t] = Len(lists)]
      /\ subs' = [subs EXCEPT ![t] = list]
      /\ at' = [at EXCEPT ![t] = 1]
      /\ pc' = [pc EXCEPT ![t] = label]
      /\ UNCHANGED <<design, book, lists, added, issued, others, packet, copied, applied, heard>>
  BY DEF LeaveBlock, HoldsWhileNotifying, Unlock, Goto, clientVars
<1>2. label \in {"load", "notify"} /\ (label = "load" <=> design = "C")
  OBVIOUS
<1>3. list \in Seq(Kinds)
  BY <1>0, Newest
<1>4. /\ design # "C" => list = callbacks
  OBVIOUS
<1> HIDE DEF label, list
<1>5. /\ pc'[t] = label /\ subs'[t] = list /\ known'[t] = Len(lists) /\ at'[t] = 1
      /\ design # "A" => snapshot'[t] = book
      /\ packet'[t] = packet[t] /\ packet[t] # 0
      /\ Only(t)
  BY <1>0, <1>1 DEF TypeOK, Only, PacketInv
<1>6. TypeOK'
  <2>1. snapshot' \in [Threads -> Books]
    BY <1>0, <1>1 DEF TypeOK
  <2>2. mutex' \in Threads \union {NoThread}
    BY <1>0, <1>1 DEF TypeOK
  <2>3. Len(lists) \in Nat \ {0}
    BY <1>0, Newest
  <2>4. known' \in [Threads -> Nat \ {0}] /\ at' \in [Threads -> Nat \ {0}]
    <3>1. known \in [Threads -> Nat \ {0}] /\ at \in [Threads -> Nat \ {0}]
      BY <1>0 DEF TypeOK
    <3>2. QED
      BY <3>1, <1>1, <2>3
  <2>5. pc' \in [Threads -> Labels] /\ subs' \in [Threads -> Seq(Kinds)]
    BY <1>0, <1>1, <1>2, <1>3 DEF TypeOK, Labels
  <2>6. /\ lists' \in Seq(Seq(Kinds)) /\ Len(lists') > 0
        /\ heard' \in [1..Len(callbacks') -> Seq(Books)]
    BY <1>0, <1>1, ListsTyped
  <2>7. QED
    BY <1>0, <1>1, <2>1, <2>2, <2>4, <2>5, <2>6 DEF TypeOK
<1>7. mutex = t
  BY <1>0, <1>1 DEF MutexInv, Inside
<1>8. MutexInv'
  <2>1. Inside(t)' => mutex' = t
    BY <1>1, <1>2, <1>5, <1>7 DEF Inside
  <2>2. QED
    BY <2>1, <1>0, <1>1, <1>2, <1>5, <1>7, MutexKept
<1>9. ListInv'
  BY <1>0, <1>1, <1>2, <1>5, ListKept
<1>10. PacketInv'
  BY <1>0, <1>1, <1>2, <1>5, PacketKept
<1>11. BookInv'
  BY <1>0, <1>1, BookKept
<1>12. CallInv'
  <2> SUFFICES ASSUME NEW n \in 1..Len(applied), applied[n].packet = packet'[t]
               PROVE  Showing(t, n)' /\ Owing(t, n)'
    BY <1>0, <1>1, <1>5, CallKept
  <2>1. Showing(t, n) /\ Owing(t, n)
    BY <1>0, <1>5 DEF CallInv
  <2>2. callbacks' = callbacks /\ \A s : Heard(s, n)' <=> Heard(s, n)
    BY <1>1 DEF callbacks, Heard
  <2>3. DoneWith(t) = 0 /\ DoneWith(t)' = 0
    BY <1>1, <1>2, <1>5 DEF DoneWith
  <2>4. n = Len(applied) /\ book = Feed!BookAfter(n)
    BY <1>0, <1>1, <2>1 DEF Showing, BookInv
  <2>5. Showing(t, n)'
    <3>1. Feed!BookAfter(n)' = Feed!BookAfter(n)
      BY <1>1, BookIs
    <3>2. QED
      BY <1>1, <1>2, <1>5, <2>1, <2>2, <2>3, <2>4, <3>1 DEF Showing
  <2>6. Owing(t, n)'
    <3>1. applied[n].audience <= Len(callbacks) /\ applied[n].audience \in Nat
      BY <1>0, <1>1, <2>1, Entry DEF Owing
    <3>2. Len(lists) \in Nat /\ Len(callbacks) \in Nat /\ callbacks = lists[Len(lists)]
      BY <1>0, Newest DEF callbacks
    <3>3. QED
      BY <1>1, <1>2, <1>4, <1>5, <2>2, <2>3, <3>1, <3>2 DEF Owing
  <2>7. QED
    BY <2>5, <2>6
<1>13. HeardInv' /\ HeardInOrder'
  BY <1>0, <1>1, HeardKept
<1>14. QED
  BY <1>6, <1>8, <1>9, <1>10, <1>11, <1>12, <1>13 DEF IInv

\* Where the call goes on after a callback or a subscribe().
LEMMA GoesOn ==
  ASSUME TypeOK, NEW t \in Threads, AfterCallback(t)
  PROVE  /\ pc' \in [Threads -> Labels] /\ at' \in [Threads -> Nat \ {0}]
         /\ \A u \in Threads : u # t => pc'[u] = pc[u] /\ at'[u] = at[u]
         /\ packet[t] = 0 => pc'[t] = "idle" /\ at'[t] = at[t]
         /\ packet[t] # 0 => pc'[t] = "notify" /\ at'[t] = at[t] + 1
<1>1. /\ packet[t] = 0 => pc' = [pc EXCEPT ![t] = "idle"] /\ at' = at
      /\ packet[t] # 0 => pc' = [pc EXCEPT ![t] = "notify"] /\ at' = [at EXCEPT ![t] = at[t] + 1]
  BY DEF AfterCallback, Goto
<1>2. at[t] + 1 \in Nat \ {0}
  BY OfThread
<1>3. pc \in [Threads -> Labels] /\ at \in [Threads -> Nat \ {0}]
  BY DEF TypeOK
<1>4. "idle" \in Labels /\ "notify" \in Labels
  BY DEF Labels
<1>5. CASE packet[t] = 0
  BY <1>1, <1>3, <1>4, <1>5
<1>6. CASE packet[t] # 0
  BY <1>1, <1>2, <1>3, <1>4, <1>6
<1>7. QED
  BY <1>5, <1>6

LEMMA BestBidKeepsInv ==
  ASSUME IInv, NEW t \in Threads, BestBid(t)
  PROVE  IInv'
<1>0. TypeOK /\ MutexInv /\ ListInv /\ PacketInv /\ BookInv /\ CallInv /\ HeardInv /\ HeardInOrder
  BY DEF IInv
<1>1. /\ pc[t] = "quote" /\ mutex = NoThread /\ AfterCallback(t)
      /\ UNCHANGED <<design, mutex, book, lists, added, issued, others, packet, snapshot,
                     known, subs, copied, applied, heard>>
  BY DEF BestBid, Free, clientVars, sharedVars
<1>2. /\ pc' \in [Threads -> Labels] /\ at' \in [Threads -> Nat \ {0}]
      /\ packet[t] = 0 => pc'[t] = "idle" /\ at'[t] = at[t]
      /\ packet[t] # 0 => pc'[t] = "notify" /\ at'[t] = at[t] + 1
      /\ Only(t)
  BY <1>0, <1>1, GoesOn DEF Only
<1>3. TypeOK'
  <2>1. pc' \in [Threads -> Labels]
    BY <1>0, <1>1, <1>2 DEF TypeOK, Labels
  <2>2. /\ lists' \in Seq(Seq(Kinds)) /\ Len(lists') > 0
        /\ heard' \in [1..Len(callbacks') -> Seq(Books)]
    BY <1>0, <1>1, <1>2, ListsTyped
  <2>3. QED
    BY <2>1, <2>2, <1>0, <1>1, <1>2 DEF TypeOK
<1>4. MutexInv'
  <2>1. ~Inside(t)
    BY <1>0, <1>1, ConstantsAssumption DEF MutexInv
  <2>2. ~Inside(t)'
    BY <2>1, <1>1, <1>2 DEF Inside
  <2>3. QED
    BY <2>2, <1>0, <1>1, <1>2, MutexKept
<1>5. ListInv'
  BY <1>0, <1>1, <1>2, ListKept
<1>6. PacketInv'
  BY <1>0, <1>1, <1>2, PacketKept
<1>7. BookInv'
  BY <1>0, <1>1, BookKept
<1>8. CallInv'
  <2> SUFFICES ASSUME NEW n \in 1..Len(applied), applied[n].packet = packet'[t]
               PROVE  Showing(t, n)' /\ Owing(t, n)'
    BY <1>0, <1>1, <1>2, CallKept
  <2>1. Showing(t, n) /\ Owing(t, n) /\ packet[t] # 0
    BY <1>0, <1>1 DEF CallInv, PacketInv, TypeOK
  <2>2. callbacks' = callbacks /\ \A s : Heard(s, n)' <=> Heard(s, n)
    BY <1>1 DEF callbacks, Heard
  <2>3. DoneWith(t) = at[t] /\ DoneWith(t)' = at[t]
    BY <1>0, <1>1, <1>2, <2>1, OfThread DEF DoneWith
  <2>4. Feed!BookAfter(n)' = Feed!BookAfter(n)
    BY <1>1, BookIs
  <2>5. Showing(t, n)'
    BY <1>1, <1>2, <2>1, <2>2, <2>3, <2>4 DEF Showing
  <2>6. Owing(t, n)'
    BY <1>1, <1>2, <2>1, <2>2, <2>3 DEF Owing
  <2>7. QED
    BY <2>5, <2>6
<1>9. HeardInv' /\ HeardInOrder'
  BY <1>0, <1>1, HeardKept
<1>10. QED
  BY <1>3, <1>4, <1>5, <1>6, <1>7, <1>8, <1>9 DEF IInv

LEMMA PacketReturnsKeepsInv ==
  ASSUME IInv, NEW t \in Threads, PacketReturns(t)
  PROVE  IInv'
<1>0. TypeOK /\ MutexInv /\ ListInv /\ PacketInv /\ BookInv /\ CallInv /\ HeardInv /\ HeardInOrder
  BY DEF IInv
<1>1. /\ pc[t] = "notify"
      /\ mutex' = IF design = "A" THEN NoThread ELSE mutex
      /\ packet' = [packet EXCEPT ![t] = 0]
      /\ pc' = [pc EXCEPT ![t] = "idle"]
      /\ UNCHANGED <<design, book, lists, added, issued, others, snapshot, known, subs, at,
                     copied, applied, heard>>
  BY DEF PacketReturns, LetGo, HoldsWhileNotifying, Unlock, Goto, clientVars
<1>2. pc'[t] = "idle" /\ packet'[t] = 0 /\ packet[t] # 0 /\ Only(t)
  BY <1>0, <1>1 DEF TypeOK, Only, PacketInv
<1>3. TypeOK'
  <2>1. pc' \in [Threads -> Labels]
    BY <1>0, <1>1 DEF TypeOK, Labels
  <2>2. /\ lists' \in Seq(Seq(Kinds)) /\ Len(lists') > 0
        /\ heard' \in [1..Len(callbacks') -> Seq(Books)]
    BY <1>0, <1>1, ListsTyped
  <2>3. QED
    BY <2>1, <2>2, <1>0, <1>1 DEF TypeOK
<1>4. MutexInv'
  <2>1. design = "A" => mutex = t
    BY <1>0, <1>1, <1>2 DEF MutexInv, Inside
  <2>2. ~Inside(t)'
    BY <1>2 DEF Inside
  <2>3. QED
    BY <2>1, <2>2, <1>0, <1>1, <1>2, MutexKept
<1>5. ListInv'
  BY <1>0, <1>1, <1>2, ListKept
<1>6. PacketInv'
  <2>1. \A u \in Threads : u # t => packet'[u] = packet[u] /\ pc'[u] = pc[u]
    BY <1>2 DEF Only
  <2>2. \A u \in Threads : pc'[u] = "idle" => packet'[u] = 0
    BY <2>1, <1>0, <1>2 DEF PacketInv
  <2>3. \A u \in Threads :
          pc'[u] \in {"lock", "apply", "applied", "load", "notify"} => packet'[u] # 0
    BY <2>1, <1>0, <1>2 DEF PacketInv
  <2>4. \A u \in Threads : packet'[u] <= issued'
    BY <2>1, <1>0, <1>1, <1>2 DEF PacketInv, TypeOK
  <2>5. \A u, w \in Threads : packet'[u] # 0 /\ packet'[u] = packet'[w] => u = w
    BY <2>1, <1>0, <1>2 DEF PacketInv
  <2>6. \A n \in 1..Len(applied') : applied'[n].packet \in 1..issued'
    BY <1>0, <1>1 DEF PacketInv
  <2>7. \A m, n \in 1..Len(applied') : applied'[m].packet = applied'[n].packet => m = n
    BY <1>0, <1>1 DEF PacketInv
  <2>8. ASSUME NEW u \in Threads, packet'[u] # 0
        PROVE  pc'[u] \notin {"lock", "apply"} <=>
                 \E n \in 1..Len(applied') : applied'[n].packet = packet'[u]
    BY <2>1, <2>8, <1>0, <1>1, <1>2 DEF PacketInv
  <2>9. QED
    BY <2>2, <2>3, <2>4, <2>5, <2>6, <2>7, <2>8 DEF PacketInv
<1>7. BookInv'
  BY <1>0, <1>1, BookKept
<1>8. CallInv'
  <2>1. \A n \in 1..Len(applied) : applied[n].packet # 0
    BY <1>0, AppliedPackets
  <2>2. QED
    BY <2>1, <1>0, <1>1, <1>2, CallKept
<1>9. HeardInv' /\ HeardInOrder'
  BY <1>0, <1>1, HeardKept
<1>10. QED
  BY <1>3, <1>4, <1>5, <1>6, <1>7, <1>8, <1>9 DEF IInv

\* subscribe() goes on to label, by way of which no call gets any further.
LEMMA SubscribingKeepsInv ==
  ASSUME IInv, NEW t \in Threads, NEW label \in {"list", "store"},
         pc[t] \in {"subscribe", "list"},
         pc' = [pc EXCEPT ![t] = label],
         mutex' = t, mutex \in {t, NoThread},
         copied' \in [Threads -> Seq(Kinds)],
         \A u \in Threads : u # t => copied'[u] = copied[u],
         label = "store" => copied'[t] = callbacks,
         design # "A" \/ packet[t] = 0,
         UNCHANGED <<design, book, lists, added, issued, others, packet, snapshot, known,
                     subs, at, applied, heard>>
  PROVE  IInv'
<1>0. TypeOK /\ MutexInv /\ ListInv /\ PacketInv /\ BookInv /\ CallInv /\ HeardInv /\ HeardInOrder
  BY DEF IInv
<1>1. pc'[t] = label /\ Only(t)
  BY <1>0 DEF TypeOK, Only
<1>2. TypeOK'
  <2>1. pc' \in [Threads -> Labels]
    BY <1>0 DEF TypeOK, Labels
  <2>2. /\ lists' \in Seq(Seq(Kinds)) /\ Len(lists') > 0
        /\ heard' \in [1..Len(callbacks') -> Seq(Books)]
    BY <1>0, ListsTyped
  <2>3. QED
    BY <2>1, <2>2, <1>0 DEF TypeOK
<1>3. MutexInv'
  BY <1>0, <1>1, MutexKept
<1>4. ListInv'
  BY <1>0, <1>1, ListKept
<1>5. PacketInv'
  BY <1>0, <1>1, PacketKept
<1>6. BookInv'
  BY <1>0, BookKept
<1>7. CallInv'
  <2> SUFFICES ASSUME NEW n \in 1..Len(applied), applied[n].packet = packet'[t]
               PROVE  Showing(t, n)' /\ Owing(t, n)'
    BY <1>0, <1>1, CallKept
  <2>1. Showing(t, n) /\ Owing(t, n)
    BY <1>0 DEF CallInv
  <2>2. callbacks' = callbacks /\ \A s : Heard(s, n)' <=> Heard(s, n)
    BY DEF callbacks, Heard
  <2>3. DoneWith(t)' = DoneWith(t)
    BY <1>1 DEF DoneWith
  <2>4. Feed!BookAfter(n)' = Feed!BookAfter(n)
    BY BookIs
  <2>5. Showing(t, n)'
    BY <1>1, <2>1, <2>2, <2>3, <2>4 DEF Showing
  <2>6. Owing(t, n)'
    BY <1>1, <2>1, <2>2, <2>3 DEF Owing
  <2>7. QED
    BY <2>5, <2>6
<1>8. HeardInv' /\ HeardInOrder'
  BY <1>0, HeardKept
<1>9. QED
  BY <1>2, <1>3, <1>4, <1>5, <1>6, <1>7, <1>8 DEF IInv

LEMMA LockForSubscribeKeepsInv ==
  ASSUME IInv, NEW t \in Threads, LockForSubscribe(t)
  PROVE  IInv'
<1>1. /\ pc[t] = "subscribe" /\ mutex = NoThread /\ mutex' = t
      /\ pc' = [pc EXCEPT ![t] = "list"]
      /\ UNCHANGED <<design, book, lists, added, issued, others, packet, snapshot, known,
                     subs, at, copied, applied, heard>>
  BY DEF LockForSubscribe, Lock, Free, Goto, clientVars
<1>2. copied' \in [Threads -> Seq(Kinds)]
  BY <1>1 DEF IInv, TypeOK
<1>3. design # "A" \/ packet[t] = 0
  BY <1>1, ConstantsAssumption DEF IInv, MutexInv, Inside
<1>4. QED
  BY <1>1, <1>2, <1>3, SubscribingKeepsInv

LEMMA CopyListKeepsInv ==
  ASSUME IInv, NEW t \in Threads, CopyList(t)
  PROVE  IInv'
<1>1. /\ pc[t] = "list"
      /\ copied' = [copied EXCEPT ![t] = callbacks]
      /\ pc' = [pc EXCEPT ![t] = "store"]
      /\ UNCHANGED <<design, mutex, book, lists, added, issued, others, packet, snapshot,
                     known, subs, at, applied, heard>>
  BY DEF CopyList, Goto, clientVars, sharedVars
<1>2. mutex = t /\ (design # "A" \/ packet[t] = 0)
  BY <1>1 DEF IInv, MutexInv, Inside
<1>3. /\ copied' \in [Threads -> Seq(Kinds)]
      /\ copied'[t] = callbacks
      /\ \A u \in Threads : u # t => copied'[u] = copied[u]
  BY <1>1, Newest DEF IInv, TypeOK
<1>4. QED
  BY <1>1, <1>2, <1>3, SubscribingKeepsInv

-----------------------------------------------------------------------------
(* A packet is applied.                                                      *)

\* What one more packet on the list makes of those that were there.
LEMMA AppliedGrows ==
  ASSUME TypeOK, NEW e \in Entries, applied' = Append(applied, e)
  PROVE  /\ Len(applied) \in Nat /\ applied' \in Seq(Entries)
         /\ Len(applied') = Len(applied) + 1
         /\ applied'[Len(applied) + 1] = e
         /\ \A n \in 1..Len(applied) : applied'[n] = applied[n]
         /\ \A n : n \in 1..Len(applied') <=> n \in 1..Len(applied) \/ n = Len(applied) + 1
<1>1. applied \in Seq(Entries) /\ Len(applied) \in Nat
  BY DEF TypeOK
<1>2. QED
  BY <1>1

LEMMA ApplyKeepsInv ==
  ASSUME IInv, NEW t \in Threads, Apply(t)
  PROVE  IInv'
<1>0. TypeOK /\ MutexInv /\ ListInv /\ PacketInv /\ BookInv /\ CallInv /\ HeardInv /\ HeardInOrder
  BY DEF IInv
<1> DEFINE e == [packet |-> packet[t], audience |-> Len(callbacks)]
           n0 == Len(applied)
<1>1. /\ pc[t] = "apply"
      /\ book' = [book EXCEPT !.bids[LevelOf(packet[t])] = packet[t], !.seq = book.seq + 1]
      /\ applied' = Append(applied, e)
      /\ pc' = [pc EXCEPT ![t] = "applied"]
      /\ UNCHANGED <<design, mutex, lists, added, issued, others, packet, snapshot, known,
                     subs, at, copied, heard>>
  BY DEF Apply, Goto, clientVars
<1>2. e \in Entries /\ e.packet = packet[t] /\ e.audience = Len(callbacks)
  BY <1>0, OfThread, Newest DEF Entries
<1> HIDE DEF e
<1>3. /\ n0 \in Nat /\ applied' \in Seq(Entries) /\ Len(applied') = n0 + 1
      /\ applied'[n0 + 1] = e
      /\ \A n \in 1..n0 : applied'[n] = applied[n]
      /\ \A n : n \in 1..Len(applied') <=> n \in 1..n0 \/ n = n0 + 1
  BY <1>0, <1>1, <1>2, AppliedGrows
<1>4. /\ pc'[t] = "applied" /\ packet'[t] = packet[t]
      /\ packet[t] # 0 /\ packet[t] \in Nat /\ Only(t)
  BY <1>0, <1>1 DEF TypeOK, Only, PacketInv
<1>5. mutex = t /\ (design # "A" \/ packet[t] # 0)
  BY <1>0, <1>1, <1>4 DEF MutexInv, Inside
<1>6. /\ book' = BookOf(applied', n0 + 1)
      /\ \A n \in 1..n0 : BookOf(applied', n) = BookOf(applied, n)
  <2>1. applied \in Seq(Entries) /\ book = BookOf(applied, Len(applied))
    BY <1>0, BookIs DEF TypeOK, BookInv
  <2>2. BookOf(Append(applied, e), Len(applied) + 1) = Changed(book, e.packet)
    BY <2>1, <1>2, BookGrows
  <2>3. \A n \in 1..n0 : n \in 0..Len(applied)
    BY <1>3
  <2>4. \A n \in 1..n0 : BookOf(Append(applied, e), n) = BookOf(applied, n)
    BY <2>1, <2>3, <1>2, BookStays
  <2>5. book' = Changed(book, packet[t])
    BY <1>1 DEF Changed
  <2>6. QED
    BY <1>1, <1>2, <2>2, <2>4, <2>5
<1>7. TypeOK'
  <2>1. book' \in Books
    <3>1. book \in Books
      BY <1>0 DEF TypeOK
    <3>2. book.seq + 1 \in Nat /\ book.bids \in [Levels -> Nat]
      BY <3>1 DEF Books
    <3>3. [book EXCEPT !.bids[LevelOf(packet[t])] = packet[t]] \in Books
      BY <3>1, <3>2, <1>4 DEF Books
    <3>4. QED
      BY <1>1, <3>2, <3>3 DEF Books
  <2>2. pc' \in [Threads -> Labels]
    BY <1>0, <1>1 DEF TypeOK, Labels
  <2>3. /\ lists' \in Seq(Seq(Kinds)) /\ Len(lists') > 0
        /\ heard' \in [1..Len(callbacks') -> Seq(Books)]
    BY <1>0, <1>1, ListsTyped
  <2>4. QED
    BY <2>1, <2>2, <2>3, <1>0, <1>1, <1>3 DEF TypeOK
<1>8. MutexInv'
  BY <1>0, <1>1, <1>4, <1>5, MutexKept
<1>9. ListInv'
  BY <1>0, <1>1, <1>4, ListKept
<1>10. \A n \in 1..n0 : applied[n].packet # packet[t]
  BY <1>0, <1>1, <1>4 DEF PacketInv
<1>11. PacketInv'
  <2>1. \A u \in Threads : packet'[u] = packet[u] /\ (u # t => pc'[u] = pc[u])
    BY <1>1, <1>4 DEF Only
  <2>2. \A u \in Threads : pc'[u] = "idle" => packet'[u] = 0
    BY <2>1, <1>0, <1>4 DEF PacketInv
  <2>3. \A u \in Threads :
          pc'[u] \in {"lock", "apply", "applied", "load", "notify"} => packet'[u] # 0
    BY <2>1, <1>0, <1>4 DEF PacketInv
  <2>4. /\ \A u \in Threads : packet'[u] <= issued'
        /\ \A u, w \in Threads : packet'[u] # 0 /\ packet'[u] = packet'[w] => u = w
    BY <1>0, <1>1 DEF PacketInv
  <2>5. \A n \in 1..Len(applied') : applied'[n].packet \in 1..issued'
    <3>1. packet[t] \in 1..issued
      BY <1>0, <1>4 DEF PacketInv, TypeOK
    <3>2. QED
      BY <3>1, <1>0, <1>1, <1>2, <1>3 DEF PacketInv
  <2>6. \A m, n \in 1..Len(applied') : applied'[m].packet = applied'[n].packet => m = n
    BY <1>0, <1>2, <1>3, <1>10 DEF PacketInv
  <2>7. ASSUME NEW u \in Threads, packet'[u] # 0
        PROVE  pc'[u] \notin {"lock", "apply"} <=>
                 \E n \in 1..Len(applied') : applied'[n].packet = packet'[u]
    <3>1. CASE u = t
      BY <3>1, <1>2, <1>3, <1>4
    <3>2. CASE u # t
      <4>1. packet[u] # packet[t]
        BY <2>1, <2>7, <3>2, <1>0 DEF PacketInv
      <4>2. (\E n \in 1..Len(applied') : applied'[n].packet = packet[u]) <=>
              \E n \in 1..n0 : applied[n].packet = packet[u]
        BY <4>1, <1>2, <1>3
      <4>3. QED
        BY <4>2, <2>1, <2>7, <3>2, <1>0 DEF PacketInv
    <3>3. QED
      BY <3>1, <3>2
  <2>8. QED
    BY <2>2, <2>3, <2>4, <2>5, <2>6, <2>7 DEF PacketInv
<1>12. BookInv'
  BY <1>3, <1>6, BookIs DEF BookInv
<1>13. CallInv'
  <2> SUFFICES ASSUME NEW u \in Threads, NEW n \in 1..Len(applied'),
                      applied'[n].packet = packet'[u]
               PROVE  Showing(u, n)' /\ Owing(u, n)'
    BY DEF CallInv
  <2>1. callbacks' = callbacks /\ \A s : Heard(s, n)' <=> Heard(s, n)
    BY <1>1 DEF callbacks, Heard
  <2>2. packet'[u] = packet[u]
    BY <1>1
  <2>3. CASE u = t
    <3>1. n = n0 + 1
      BY <2>2, <2>3, <1>2, <1>3, <1>10
    <3>2. \A s \in 1..Len(callbacks) : ~Heard(s, n)
      BY <3>1, <1>0, <1>3 DEF HeardInv, Heard
    <3>3. DoneWith(u)' = 0
      BY <2>3, <1>4 DEF DoneWith
    <3>4. \A s \in 1..Len(callbacks) : ~(s <= 0)
      BY <1>0, Newest
    <3>5. Showing(u, n)'
      BY <2>1, <2>3, <3>1, <3>2, <3>3, <3>4, <1>3, <1>4 DEF Showing
    <3>6. Owing(u, n)'
      <4>1. applied'[n].audience = Len(callbacks) /\ Len(callbacks) \in Nat
        BY <3>1, <1>0, <1>2, <1>3, Newest
      <4>2. QED
        BY <4>1, <2>1, <2>3, <1>4 DEF Owing
    <3>7. QED
      BY <3>5, <3>6
  <2>4. CASE u # t
    <3>1. /\ pc'[u] = pc[u] /\ snapshot'[u] = snapshot[u] /\ known'[u] = known[u]
          /\ subs'[u] = subs[u] /\ at'[u] = at[u]
      BY <2>4, <1>4 DEF Only
    <3>2. n \in 1..n0 /\ applied'[n] = applied[n]
      <4>1. packet[t] # packet[u]
        BY <2>4, <1>0, <1>4 DEF PacketInv
      <4>2. QED
        BY <4>1, <2>2, <1>2, <1>3
    <3>3. Showing(u, n) /\ Owing(u, n)
      BY <2>2, <3>2, <1>0 DEF CallInv
    <3>4. pc[u] # "applied"
      BY <2>4, <1>0, <1>5 DEF MutexInv, Inside
    <3>5. design # "A"
      <4>1. applied[n].packet = packet[u] /\ applied[n].packet \in 1..issued
        BY <2>2, <3>2, <1>0 DEF PacketInv
      <4>2. packet[u] # 0
        BY <4>1, <1>0 DEF TypeOK
      <4>3. pc[u] # "lock"
        BY <3>2, <4>1, <4>2, <1>0 DEF PacketInv
      <4>4. QED
        BY <4>2, <4>3, <2>4, <1>0, <1>5 DEF MutexInv, Inside
    <3>6. DoneWith(u)' = DoneWith(u)
      BY <3>1 DEF DoneWith
    <3>7. Feed!BookAfter(n)' = Feed!BookAfter(n)
      BY <3>2, <1>6, BookIs
    <3>8. Showing(u, n)'
      BY <2>1, <3>1, <3>3, <3>4, <3>5, <3>6, <3>7, <1>1 DEF Showing
    <3>9. Owing(u, n)'
      BY <2>1, <3>1, <3>2, <3>3, <3>6, <1>1 DEF Owing
    <3>10. QED
      BY <3>8, <3>9
  <2>5. QED
    BY <2>3, <2>4
<1>14. HeardInv' /\ HeardInOrder'
  <2>1. callbacks' = callbacks /\ \A n \in 1..n0 : n \in 1..Len(applied')
    BY <1>1, <1>3 DEF callbacks
  <2>2. QED
    BY <2>1, <1>0, <1>1 DEF HeardInv, HeardInOrder
<1>15. QED
  BY <1>7, <1>8, <1>9, <1>11, <1>12, <1>13, <1>14 DEF IInv

-----------------------------------------------------------------------------
(* A subscriber is called.                                                   *)

\* The call that is about to be made: of whom, and with what.
LEMMA AboutToCall ==
  ASSUME IInv, NEW t \in Threads, pc[t] = "notify", at[t] <= Len(subs[t])
  PROVE  \E n \in 1..Len(applied) :
           /\ applied[n].packet = packet[t] /\ packet[t] # 0
           /\ Given(t) = BookOf(applied, n) /\ Given(t) \in Books
           /\ at[t] \in 1..Len(callbacks) /\ ~Heard(at[t], n)
           /\ design = "A" => n = Len(applied)
<1>0. TypeOK /\ PacketInv /\ BookInv
  BY DEF IInv
<1>1. packet[t] # 0
  BY <1>0 DEF PacketInv
<1>2. PICK n \in 1..Len(applied) :
        applied[n].packet = packet[t] /\ Showing(t, n) /\ Owing(t, n)
  BY <1>1, Place
<1>3. /\ at[t] \in Nat \ {0} /\ Len(subs[t]) \in Nat /\ snapshot[t] \in Books
      /\ Len(callbacks) \in Nat /\ book \in Books
  BY <1>0, OfThread, Newest DEF TypeOK
<1>4. at[t] \in 1..Len(callbacks)
  BY <1>2, <1>3 DEF Owing
<1>5. DoneWith(t) = at[t] - 1
  BY DEF DoneWith
<1>6. ~Heard(at[t], n)
  BY <1>2, <1>3, <1>4, <1>5 DEF Showing
<1>7. (design = "A" => n = Len(applied)) /\ Given(t) = Feed!BookAfter(n)
  BY <1>0, <1>2 DEF Showing, Given, BookInv
<1>8. Given(t) \in Books
  BY <1>3 DEF Given
<1>9. QED
  BY <1>1, <1>2, <1>4, <1>6, <1>7, <1>8, BookIs

LEMMA CalledKeepsInv ==
  ASSUME IInv, NEW t \in Threads, pc[t] = "notify", at[t] <= Len(subs[t]),
         heard' = [heard EXCEPT ![at[t]] = Append(heard[at[t]], Given(t))],
         pc' \in [Threads -> Labels], at' \in [Threads -> Nat \ {0}],
         added' \in BOOLEAN,
         \A u \in Threads : u # t => pc'[u] = pc[u] /\ at'[u] = at[u],
         \/ pc'[t] = "notify" /\ at'[t] = at[t] + 1
         \/ pc'[t] \in {"quote", "subscribe"} /\ at'[t] = at[t],
         UNCHANGED <<design, mutex, book, lists, issued, others, packet, snapshot, known,
                     subs, copied, applied>>
  PROVE  IInv'
<1>0. TypeOK /\ MutexInv /\ ListInv /\ PacketInv /\ BookInv /\ CallInv /\ HeardInv /\ HeardInOrder
  BY DEF IInv
<1>1. PICK n \in 1..Len(applied) :
           /\ applied[n].packet = packet[t] /\ packet[t] # 0
           /\ Given(t) = BookOf(applied, n) /\ Given(t) \in Books
           /\ at[t] \in 1..Len(callbacks) /\ ~Heard(at[t], n)
           /\ design = "A" => n = Len(applied)
  BY AboutToCall
<1> DEFINE s0 == at[t]
           g == Given(t)
<1>2. Only(t)
  BY DEF Only
<1>3. g.seq = n /\ g \in Books /\ s0 \in 1..Len(callbacks)
  BY <1>1 DEF BookOf
<1>4. /\ heard \in [1..Len(callbacks) -> Seq(Books)]
      /\ heard' = [heard EXCEPT ![s0] = Append(heard[s0], g)]
  BY <1>0 DEF TypeOK
<1> HIDE DEF g, s0
<1>5. /\ heard[s0] \in Seq(Books) /\ Len(heard[s0]) \in Nat
      /\ heard'[s0] = Append(heard[s0], g)
      /\ \A s \in 1..Len(callbacks) : s # s0 => heard'[s] = heard[s]
  <2>1. heard[s0] \in Seq(Books)
    BY <1>3, <1>4
  <2>2. \A s \in 1..Len(callbacks) :
          heard'[s] = IF s = s0 THEN Append(heard[s0], g) ELSE heard[s]
    BY <1>4
  <2>3. Len(heard[s0]) \in Nat
    BY <2>1
  <2>4. heard'[s0] = Append(heard[s0], g)
    BY <2>2, <1>3
  <2>5. \A s \in 1..Len(callbacks) : s # s0 => heard'[s] = heard[s]
    BY <2>2
  <2>6. QED
    BY <2>1, <2>3, <2>4, <2>5
<1>6. /\ heard'[s0] \in Seq(Books)
      /\ Len(heard'[s0]) = Len(heard[s0]) + 1
      /\ heard'[s0][Len(heard[s0]) + 1] = g
      /\ \A k \in 1..Len(heard[s0]) : heard'[s0][k] = heard[s0][k]
      /\ \A k : k \in 1..Len(heard'[s0]) <=> k \in 1..Len(heard[s0]) \/ k = Len(heard[s0]) + 1
  BY <1>3, <1>5, OneMore
<1>7. callbacks' = callbacks
  BY DEF callbacks
<1>8. \A s \in 1..Len(callbacks), m \in 1..Len(applied) :
        Heard(s, m)' <=> Heard(s, m) \/ (s = s0 /\ m = n)
  <2> SUFFICES ASSUME NEW s \in 1..Len(callbacks), NEW m \in 1..Len(applied)
               PROVE  Heard(s, m)' <=> Heard(s, m) \/ (s = s0 /\ m = n)
    OBVIOUS
  <2>1. CASE s = s0
    <3>1. \A k \in 1..Len(heard[s0]) : heard'[s0][k].seq = heard[s0][k].seq
      BY <1>6
    <3>2. heard'[s0][Len(heard[s0]) + 1].seq = n
      BY <1>3, <1>6
    <3>3. (\E k \in 1..Len(heard'[s0]) : heard'[s0][k].seq = m) <=>
            (\E k \in 1..Len(heard[s0]) : heard[s0][k].seq = m) \/ m = n
      BY <1>6, <3>1, <3>2
    <3>4. QED
      BY <2>1, <3>3 DEF Heard
  <2>2. CASE s # s0
    BY <2>2, <1>5 DEF Heard
  <2>3. QED
    BY <2>1, <2>2
<1>9. TypeOK'
  <2>1. heard' \in [1..Len(callbacks) -> Seq(Books)]
    BY <1>3, <1>4, <1>5, <1>6
  <2>2. QED
    BY <2>1, <1>0, <1>7 DEF TypeOK
<1>10. MutexInv'
  <2>1. Inside(t)' => Inside(t)
    BY <1>1 DEF Inside
  <2>2. QED
    BY <2>1, <1>0, <1>2, MutexKept DEF MutexInv
<1>11. ListInv'
  BY <1>0, <1>2, ListKept
<1>12. PacketInv'
  BY <1>0, <1>1, <1>2, PacketKept
<1>13. BookInv'
  BY <1>0, BookKept
<1>14. CallInv'
  <2> SUFFICES ASSUME NEW u \in Threads, NEW m \in 1..Len(applied),
                      applied[m].packet = packet[u]
               PROVE  Showing(u, m)' /\ Owing(u, m)'
    BY DEF CallInv
  <2>1. Showing(u, m) /\ Owing(u, m)
    BY <1>0 DEF CallInv
  <2>2. Feed!BookAfter(m)' = Feed!BookAfter(m)
    BY BookIs
  <2>3. CASE u = t
    <3>1. m = n
      BY <2>3, <1>0, <1>1 DEF PacketInv
    <3>2. s0 \in Nat /\ DoneWith(t) = s0 - 1 /\ DoneWith(t)' = s0
      BY <1>0, <1>3, OfThread DEF DoneWith, s0
    <3>3. \A s \in 1..Len(callbacks) : s <= s0 <=> s <= s0 - 1 \/ s = s0
      BY <3>2, <1>0, Newest
    <3>4. Showing(t, m)'
      BY <2>1, <2>2, <2>3, <3>1, <3>2, <3>3, <1>7, <1>8 DEF Showing
    <3>5. Owing(t, m)'
      BY <2>1, <2>3, <3>2, <1>7 DEF Owing, s0
    <3>6. QED
      BY <2>3, <3>4, <3>5
  <2>4. CASE u # t
    <3>1. m # n
      BY <2>4, <1>0, <1>1 DEF PacketInv
    <3>2. pc'[u] = pc[u] /\ DoneWith(u)' = DoneWith(u)
      BY <2>4 DEF DoneWith
    <3>3. Showing(u, m)'
      BY <2>1, <2>2, <3>1, <3>2, <1>7, <1>8 DEF Showing
    <3>4. Owing(u, m)'
      BY <2>1, <2>4, <3>2, <1>7 DEF Owing
    <3>5. QED
      BY <3>3, <3>4
  <2>5. QED
    BY <2>3, <2>4
<1>15. HeardInv'
  <2> SUFFICES ASSUME NEW s \in 1..Len(callbacks), NEW k \in 1..Len(heard'[s])
               PROVE  heard'[s][k].seq \in 1..Len(applied)
    BY <1>7 DEF HeardInv
  <2>1. CASE s = s0
    <3>1. k \in 1..Len(heard[s0]) \/ k = Len(heard[s0]) + 1
      BY <2>1, <1>6
    <3>2. \A i \in 1..Len(heard[s0]) : heard[s0][i].seq \in 1..Len(applied)
      BY <1>0, <1>3 DEF HeardInv
    <3>3. n \in 1..Len(applied)
      OBVIOUS
    <3>4. QED
      BY <2>1, <3>1, <3>2, <3>3, <1>3, <1>6
  <2>2. CASE s # s0
    BY <2>2, <1>0, <1>5 DEF HeardInv
  <2>3. QED
    BY <2>1, <2>2
<1>16. ASSUME design = "A", NEW s \in 1..Len(callbacks),
              NEW i \in 1..Len(heard'[s]), NEW j \in 1..Len(heard'[s]), i < j
       PROVE  heard'[s][i].seq < heard'[s][j].seq
  <2>1. \A r \in 1..Len(callbacks) : \A k, l \in 1..Len(heard[r]) :
          k < l => heard[r][k].seq < heard[r][l].seq
    <3>1. DOMAIN heard = 1..Len(callbacks) /\ \A r \in 1..Len(callbacks) : heard[r] \in Seq(Books)
      BY <1>4
    <3>2. \A r \in 1..Len(callbacks) : DOMAIN heard[r] = 1..Len(heard[r])
      BY <3>1
    <3>3. QED
      BY <3>1, <3>2, <1>0, <1>16 DEF HeardInOrder
  <2>2. CASE s # s0
    BY <2>1, <2>2, <1>5, <1>16
  <2>3. CASE s = s0
    <3>1. i \in 1..Len(heard[s0])
      BY <2>3, <1>5, <1>6, <1>16
    <3>2. heard[s0][i].seq \in 1..Len(applied)
      BY <3>1, <1>0, <1>3 DEF HeardInv
    <3>3. CASE j \in 1..Len(heard[s0])
      BY <2>1, <2>3, <3>1, <3>3, <1>3, <1>6, <1>16
    <3>4. CASE j = Len(heard[s0]) + 1
      <4>1. heard[s0][i].seq # n
        BY <3>1, <1>1 DEF Heard, s0
      <4>2. n = Len(applied)
        BY <1>1, <1>16
      <4>3. heard[s0][i].seq < n
        BY <3>2, <4>1, <4>2
      <4>4. QED
        BY <2>3, <3>1, <3>4, <4>3, <1>3, <1>6
    <3>5. QED
      BY <2>3, <3>3, <3>4, <1>6
  <2>4. QED
    BY <2>2, <2>3
<1>17. HeardInOrder'
  <2>1. \A s \in 1..Len(callbacks) : heard'[s] \in Seq(Books)
    BY <1>4, <1>5, <1>6
  <2>2. DOMAIN heard' = 1..Len(callbacks) /\ design' = design
    BY <1>4
  <2>3. \A s \in 1..Len(callbacks) : DOMAIN heard'[s] = 1..Len(heard'[s])
    BY <2>1
  <2>4. SUFFICES ASSUME design = "A", NEW s \in DOMAIN heard',
                        NEW i \in DOMAIN heard'[s], NEW j \in DOMAIN heard'[s], i < j
                 PROVE  heard'[s][i].seq < heard'[s][j].seq
    BY <2>2 DEF HeardInOrder
  <2>5. s \in 1..Len(callbacks) /\ i \in 1..Len(heard'[s]) /\ j \in 1..Len(heard'[s])
    BY <2>2, <2>3
  <2>6. QED
    BY <1>16, <2>4, <2>5
<1>18. QED
  BY <1>9, <1>10, <1>11, <1>12, <1>13, <1>14, <1>15, <1>17 DEF IInv

LEMMA CallBackKeepsInv ==
  ASSUME IInv, NEW t \in Threads, CallBack(t)
  PROVE  IInv'
<1>1. /\ pc[t] = "notify" /\ at[t] <= Len(subs[t])
      /\ heard' = [heard EXCEPT ![at[t]] = Append(heard[at[t]], Given(t))]
      /\ AfterCallback(t)
      /\ UNCHANGED <<design, mutex, book, lists, added, issued, others, packet, snapshot,
                     known, subs, copied, applied>>
  BY DEF CallBack, Calling, clientVars
<1>2. TypeOK /\ packet[t] # 0 /\ added' \in BOOLEAN
  BY <1>1 DEF IInv, PacketInv, TypeOK
<1>3. /\ pc' \in [Threads -> Labels] /\ at' \in [Threads -> Nat \ {0}]
      /\ \A u \in Threads : u # t => pc'[u] = pc[u] /\ at'[u] = at[u]
      /\ pc'[t] = "notify" /\ at'[t] = at[t] + 1
  BY <1>1, <1>2, GoesOn
<1>4. QED
  BY <1>1, <1>2, <1>3, CalledKeepsInv

LEMMA CallBackQuotingKeepsInv ==
  ASSUME IInv, NEW t \in Threads, CallBackQuoting(t)
  PROVE  IInv'
<1>1. /\ pc[t] = "notify" /\ at[t] <= Len(subs[t])
      /\ heard' = [heard EXCEPT ![at[t]] = Append(heard[at[t]], Given(t))]
      /\ pc' = [pc EXCEPT ![t] = "quote"]
      /\ UNCHANGED <<design, mutex, book, lists, added, issued, others, packet, snapshot,
                     known, subs, at, copied, applied>>
  BY DEF CallBackQuoting, Calling, Goto, clientVars
<1>2. /\ pc' \in [Threads -> Labels] /\ at' \in [Threads -> Nat \ {0}]
      /\ added' \in BOOLEAN
      /\ \A u \in Threads : u # t => pc'[u] = pc[u] /\ at'[u] = at[u]
      /\ pc'[t] \in {"quote", "subscribe"} /\ at'[t] = at[t]
  BY <1>1 DEF IInv, TypeOK, Labels
<1>3. QED
  BY <1>1, <1>2, CalledKeepsInv

LEMMA CallBackSubscribingKeepsInv ==
  ASSUME IInv, NEW t \in Threads, CallBackSubscribing(t)
  PROVE  IInv'
<1>1. /\ pc[t] = "notify" /\ at[t] <= Len(subs[t])
      /\ heard' = [heard EXCEPT ![at[t]] = Append(heard[at[t]], Given(t))]
      /\ pc' = [pc EXCEPT ![t] = "subscribe"]
      /\ added' = TRUE
      /\ UNCHANGED <<design, mutex, book, lists, issued, others, packet, snapshot,
                     known, subs, at, copied, applied>>
  BY DEF CallBackSubscribing, Calling, Goto, clientVars
<1>2. /\ pc' \in [Threads -> Labels] /\ at' \in [Threads -> Nat \ {0}]
      /\ added' \in BOOLEAN
      /\ \A u \in Threads : u # t => pc'[u] = pc[u] /\ at'[u] = at[u]
      /\ pc'[t] \in {"quote", "subscribe"} /\ at'[t] = at[t]
  BY <1>1 DEF IInv, TypeOK, Labels
<1>3. QED
  BY <1>1, <1>2, CalledKeepsInv

-----------------------------------------------------------------------------
(* A subscriber is entered.                                                  *)

\* What that does to the lists.
LEMMA ListsGrow ==
  ASSUME TypeOK, Enter(callbacks)
  PROVE  /\ Len(callbacks) \in Nat /\ callbacks' \in Seq(Kinds)
         /\ Len(callbacks') = Len(callbacks) + 1
         /\ lists' \in Seq(Seq(Kinds)) /\ Len(lists) \in Nat \ {0}
         /\ Len(lists') = Len(lists) + 1
         /\ lists'[Len(lists) + 1] = callbacks'
         /\ \A k \in 1..Len(lists) : lists'[k] = lists[k]
         /\ \A s : s \in 1..Len(callbacks') <=> s \in 1..Len(callbacks) \/ s = Len(callbacks) + 1
         /\ DOMAIN heard' = 1..Len(callbacks')
         /\ \A s \in 1..Len(callbacks) : heard'[s] = heard[s] /\ heard[s] \in Seq(Books)
         /\ heard'[Len(callbacks) + 1] = << >>
<1> DEFINE new == Append(callbacks, "cheap")
<1>1. /\ lists' = Append(lists, new)
      /\ heard' = [s \in 1..(Len(callbacks) + 1) |-> IF s \in DOMAIN heard THEN heard[s] ELSE << >>]
  BY DEF Enter
<1>2. /\ lists \in Seq(Seq(Kinds)) /\ Len(lists) \in Nat \ {0}
      /\ callbacks \in Seq(Kinds) /\ Len(callbacks) \in Nat
      /\ heard \in [1..Len(callbacks) -> Seq(Books)]
  BY Newest DEF TypeOK
<1>3. new \in Seq(Kinds) /\ Len(new) = Len(callbacks) + 1
  BY <1>2 DEF Kinds
<1> HIDE DEF new
<1>4. /\ lists' \in Seq(Seq(Kinds)) /\ Len(lists') = Len(lists) + 1
      /\ lists'[Len(lists) + 1] = new
      /\ \A k \in 1..Len(lists) : lists'[k] = lists[k]
  BY <1>1, <1>2, <1>3
<1>5. callbacks' = new
  BY <1>4 DEF callbacks
<1>6. /\ \A s : s \in 1..Len(callbacks') <=> s \in 1..Len(callbacks) \/ s = Len(callbacks) + 1
      /\ Len(callbacks) + 1 \notin DOMAIN heard
  BY <1>2, <1>3, <1>5
<1>7. /\ DOMAIN heard' = 1..Len(callbacks')
      /\ \A s \in 1..Len(callbacks) : heard'[s] = heard[s] /\ heard[s] \in Seq(Books)
      /\ heard'[Len(callbacks) + 1] = << >>
  BY <1>1, <1>2, <1>3, <1>5, <1>6
<1>8. QED
  BY <1>2, <1>3, <1>4, <1>5, <1>6, <1>7

LEMMA EnteredKeepsInv ==
  ASSUME IInv, NEW t \in Threads, pc[t] \in {"list", "store"},
         Enter(callbacks), Unlock(t), AfterCallback(t),
         UNCHANGED <<design, book, added, issued, others, packet, snapshot, known, subs,
                     copied, applied>>
  PROVE  IInv'
<1>0. TypeOK /\ MutexInv /\ ListInv /\ PacketInv /\ BookInv /\ CallInv /\ HeardInv /\ HeardInOrder
  BY DEF IInv
<1>c. PICK c \in Nat : c = Len(callbacks)
  BY <1>0, Newest
<1>1. /\ c \in Nat /\ callbacks' \in Seq(Kinds)
      /\ Len(callbacks') = c + 1
      /\ lists' \in Seq(Seq(Kinds)) /\ Len(lists) \in Nat \ {0}
      /\ Len(lists') = Len(lists) + 1
      /\ lists'[Len(lists) + 1] = callbacks'
      /\ \A k \in 1..Len(lists) : lists'[k] = lists[k]
      /\ \A s : s \in 1..Len(callbacks') <=> s \in 1..c \/ s = c + 1
      /\ DOMAIN heard' = 1..Len(callbacks')
      /\ \A s \in 1..c : heard'[s] = heard[s] /\ heard[s] \in Seq(Books)
      /\ heard'[c + 1] = << >>
      /\ c = Len(callbacks)
  BY <1>0, <1>c, ListsGrow
<1>2. /\ pc' \in [Threads -> Labels] /\ at' \in [Threads -> Nat \ {0}]
      /\ packet[t] = 0 => pc'[t] = "idle" /\ at'[t] = at[t]
      /\ packet[t] # 0 => pc'[t] = "notify" /\ at'[t] = at[t] + 1
      /\ Only(t)
  BY <1>0, GoesOn DEF Only
<1>3. mutex = t /\ mutex' = NoThread /\ (design = "A" => packet[t] = 0)
  BY <1>0 DEF MutexInv, Inside, Unlock
<1>4. \A u \in Threads : u # t => pc[u] \notin {"list", "store", "applied"}
  BY <1>0, <1>3 DEF MutexInv, Inside
<1>5. TypeOK'
  <2>1. heard' \in [1..Len(callbacks') -> Seq(Books)]
    <3>1. << >> \in Seq(Books)
      OBVIOUS
    <3>2. \A s \in 1..Len(callbacks') : heard'[s] \in Seq(Books)
      BY <1>1, <3>1
    <3>3. heard' = [s \in 1..(c + 1) |-> heard'[s]]
      BY <1>1 DEF Enter
    <3>4. QED
      BY <3>2, <3>3, <1>1
  <2>2. mutex' \in Threads \union {NoThread} /\ Len(lists') > 0
    BY <1>1, <1>3
  <2>3. QED
    BY <2>1, <2>2, <1>0, <1>1, <1>2 DEF TypeOK
<1>6. MutexInv'
  <2>1. ~Inside(t)'
    BY <1>2, <1>3 DEF Inside
  <2>2. QED
    BY <2>1, <1>0, <1>2, <1>3, MutexKept
<1>7. ListInv'
  <2>1. \A k \in 1..Len(lists') : Len(lists'[k]) = First + k - 1
    <3>1. First \in Nat /\ Len(lists) \in 1..Len(lists)
      BY <1>1, ConstantsAssumption
    <3>2. Len(lists'[Len(lists) + 1]) = First + (Len(lists) + 1) - 1
      BY <3>1, <1>0, <1>1 DEF ListInv, callbacks
    <3>3. \A k \in 1..Len(lists) : Len(lists'[k]) = First + k - 1
      BY <1>0, <1>1 DEF ListInv
    <3>4. \A k \in 1..Len(lists') : k \in 1..Len(lists) \/ k = Len(lists) + 1
      BY <1>1
    <3>5. QED
      BY <3>2, <3>3, <3>4
  <2>2. \A u \in Threads : pc'[u] # "store"
    BY <1>2, <1>4 DEF Only
  <2>3. QED
    BY <2>1, <2>2 DEF ListInv
<1>8. PacketInv'
  BY <1>0, <1>2, PacketKept
<1>9. BookInv'
  BY <1>0, BookKept
<1>10. /\ \A s \in 1..c : heard'[s] = heard[s]
       /\ Len(heard'[c + 1]) = 0
       /\ \A n : ~Heard(c + 1, n)'
       /\ \A s \in 1..c : \A n : Heard(s, n)' <=> Heard(s, n)
  <2>1. Len(heard'[c + 1]) = 0
    BY <1>1
  <2>2. \A n : ~Heard(c + 1, n)'
    BY <2>1 DEF Heard
  <2>3. \A s \in 1..c : \A n : Heard(s, n)' <=> Heard(s, n)
    BY <1>1 DEF Heard
  <2>4. QED
    BY <2>1, <2>2, <2>3, <1>1
<1>11. CallInv'
  <2> SUFFICES ASSUME NEW u \in Threads, NEW n \in 1..Len(applied),
                      applied[n].packet = packet[u]
               PROVE  Showing(u, n)' /\ Owing(u, n)'
    BY DEF CallInv
  <2>1. Showing(u, n) /\ Owing(u, n)
    BY <1>0 DEF CallInv
  <2>2. packet[u] # 0
    <3>1. applied[n].packet \in 1..issued
      BY <1>0 DEF PacketInv
    <3>2. QED
      BY <3>1, <1>0 DEF TypeOK
  <2>3. DoneWith(u)' = DoneWith(u) /\ DoneWith(u) \in Nat
    <3>1. at[u] \in Nat \ {0}
      BY <1>0, OfThread
    <3>2. CASE u = t
      <4>1. /\ pc[u] \notin {"applied", "load", "notify"}
            /\ pc'[u] = "notify" /\ at'[u] = at[u] + 1
        BY <2>2, <3>2, <1>2
      <4>2. DoneWith(u) = at[u] /\ DoneWith(u)' = at'[u] - 1
        BY <4>1 DEF DoneWith
      <4>3. QED
        BY <3>1, <4>1, <4>2
    <3>3. CASE u # t
      BY <3>1, <3>3, <1>2 DEF DoneWith, Only
    <3>4. QED
      BY <3>2, <3>3
  <2>4. /\ pc[u] # "applied" /\ pc'[u] # "applied"
        /\ pc'[u] = "load" <=> pc[u] = "load"
        /\ subs'[u] = subs[u] /\ known'[u] = known[u] /\ snapshot'[u] = snapshot[u]
        /\ pc[u] = "load" => at'[u] = at[u]
    BY <2>2, <1>2, <1>4 DEF Only
  <2>5. Len(subs[u]) \in Nat /\ known[u] \in Nat \ {0}
    BY <1>0, OfThread
  <2>6. DoneWith(u) <= c
    BY <2>1, <2>3, <2>4, <2>5, <1>1 DEF Owing, DoneWith
  <2>7. Showing(u, n)'
    <3>1. Feed!BookAfter(n)' = Feed!BookAfter(n)
      BY BookIs
    <3>2. \A s \in 1..Len(callbacks') : Heard(s, n)' <=> s <= DoneWith(u)'
      <4>1. \A s \in 1..c : Heard(s, n)' <=> s <= DoneWith(u)
        BY <2>1, <1>1, <1>10 DEF Showing
      <4>2. ~Heard(c + 1, n)' /\ ~(c + 1 <= DoneWith(u))
        BY <2>3, <2>6, <1>1, <1>10
      <4>3. QED
        BY <4>1, <4>2, <2>3, <1>1
    <3>3. QED
      BY <2>1, <2>4, <3>1, <3>2 DEF Showing
  <2>8. Owing(u, n)'
    <3>1. applied[n].audience \in Nat
      BY <1>0, Entry
    <3>2. CASE pc[u] = "load"
      <4>1. /\ at[u] = 1 /\ known[u] <= Len(lists) /\ known[u] \in 1..Len(lists)
            /\ applied[n].audience <= Len(lists[known[u]])
        BY <2>1, <2>5, <3>2, <1>1 DEF Owing
      <4>2. /\ pc'[u] = "load" /\ at'[u] = 1 /\ known'[u] <= Len(lists')
            /\ lists'[known'[u]] = lists[known[u]]
        BY <2>4, <2>5, <3>2, <4>1, <1>1
      <4>3. QED
        BY <4>1, <4>2 DEF Owing
    <3>3. CASE pc[u] # "load"
      <4>1. /\ applied[n].audience <= Len(subs[u]) /\ Len(subs[u]) <= c
            /\ DoneWith(u) <= Len(subs[u])
        BY <2>1, <2>4, <3>3, <1>1 DEF Owing
      <4>2. Len(subs[u]) <= c + 1
        BY <2>5, <4>1, <1>1
      <4>3. QED
        BY <2>3, <2>4, <3>3, <4>1, <4>2, <1>1 DEF Owing
    <3>4. QED
      BY <3>2, <3>3
  <2>9. QED
    BY <2>7, <2>8
<1>12. HeardInv'
  <2>1. \A s \in 1..(c + 1) : \A k \in 1..Len(heard'[s]) : s \in 1..c
    BY <1>1, <1>10
  <2>2. QED
    BY <2>1, <1>0, <1>1 DEF HeardInv
<1>13. HeardInOrder'
  <2>1. \A s \in 1..c : s \in DOMAIN heard
    BY <1>0, <1>1 DEF TypeOK
  <2>2. \A s \in DOMAIN heard' : s \in 1..c \/ DOMAIN heard'[s] = {}
    BY <1>1
  <2>3. QED
    BY <2>1, <2>2, <1>0, <1>1 DEF HeardInOrder
<1>14. QED
  BY <1>5, <1>6, <1>7, <1>8, <1>9, <1>11, <1>12, <1>13 DEF IInv

LEMMA PushBackKeepsInv ==
  ASSUME IInv, NEW t \in Threads, PushBack(t)
  PROVE  IInv'
BY EnteredKeepsInv DEF PushBack, clientVars

LEMMA StoreListKeepsInv ==
  ASSUME IInv, NEW t \in Threads, StoreList(t)
  PROVE  IInv'
<1>1. copied[t] = callbacks
  BY DEF IInv, ListInv, StoreList
<1>2. QED
  BY <1>1, EnteredKeepsInv DEF StoreList, clientVars

-----------------------------------------------------------------------------
(* The theorems.                                                             *)

LEMMA InitInv ==
  ASSUME Init
  PROVE  IInv
<1> USE ConstantsAssumption
<1>1. PICK list \in [1..First -> Kinds] : lists = <<list>>
  BY DEF Init
<1>2. /\ design \in Designs /\ mutex = NoThread /\ book = EmptyBook
      /\ added = FALSE /\ issued = 0 /\ others = 0
      /\ pc = [t \in Threads |-> "idle"]
      /\ packet = [t \in Threads |-> 0]
      /\ snapshot = [t \in Threads |-> EmptyBook]
      /\ known = [t \in Threads |-> 1]
      /\ subs = [t \in Threads |-> << >>]
      /\ at = [t \in Threads |-> 1]
      /\ copied = [t \in Threads |-> << >>]
      /\ applied = << >>
      /\ heard = [s \in 1..First |-> << >>]
  BY DEF Init
<1>3. list \in Seq(Kinds) /\ Len(list) = First
  <2>1. First \in Nat
    OBVIOUS
  <2>2. QED
    BY <1>1, <2>1
<1>4. lists \in Seq(Seq(Kinds)) /\ Len(lists) = 1 /\ lists[1] = list
  BY <1>1, <1>3
<1>5. callbacks = list /\ Len(callbacks) = First
  BY <1>3, <1>4 DEF callbacks
<1>6. EmptyBook \in Books
  BY DEF EmptyBook, Books
<1>7. Len(applied) = 0 /\ \A n : n \notin 1..Len(applied)
  BY <1>2
<1>8. TypeOK
  <2>1. /\ << >> \in Seq(Kinds) /\ << >> \in Seq(Books) /\ << >> \in Seq(Entries)
        /\ 0 \in Nat /\ 1 \in Nat \ {0} /\ "idle" \in Labels
    BY DEF Labels
  <2>2. /\ pc \in [Threads -> Labels] /\ packet \in [Threads -> Nat]
        /\ known \in [Threads -> Nat \ {0}] /\ at \in [Threads -> Nat \ {0}]
    BY <2>1, <1>2
  <2>3. /\ snapshot \in [Threads -> Books] /\ subs \in [Threads -> Seq(Kinds)]
        /\ copied \in [Threads -> Seq(Kinds)]
    BY <2>1, <1>2, <1>6
  <2>4. heard \in [1..Len(callbacks) -> Seq(Books)]
    BY <2>1, <1>2, <1>5
  <2>5. issued \in 0..Packets /\ others \in 0..Others /\ applied \in Seq(Entries)
    BY <2>1, <1>2
  <2>6. /\ design \in Designs /\ mutex \in Threads \union {NoThread}
        /\ book \in Books
    BY <1>2, <1>6
  <2>7. lists \in Seq(Seq(Kinds)) /\ Len(lists) > 0
    BY <1>4
  <2>8. added \in BOOLEAN
    BY <1>2
  <2> HIDE ConstantsAssumption
  <2>9. QED
    BY <2>2, <2>3, <2>4, <2>5, <2>6, <2>7, <2>8 DEF TypeOK
<1>9. MutexInv
  BY <1>2 DEF MutexInv, Inside
<1>10. ListInv
  BY <1>2, <1>3, <1>4 DEF ListInv
<1>11. PacketInv
  BY <1>2, <1>7 DEF PacketInv
<1>12. BookInv
  <2>1. \A l \in Levels : Bid(applied, 0, l) = 0
    <3> SUFFICES ASSUME NEW l \in Levels PROVE Bid(applied, 0, l) = 0
      OBVIOUS
    <3>1. Touching(applied, 0, l) \in SUBSET (0..0) /\ 0 \in Touching(applied, 0, l)
      BY DEF Touching
    <3>2. Feed!Max(Touching(applied, 0, l)) \in 0..0
      BY <3>1, MaxIn
    <3>3. QED
      BY <3>2 DEF Bid
  <2>2. BookOf(applied, 0) = EmptyBook
    BY <2>1 DEF BookOf, EmptyBook
  <2>3. QED
    BY <2>2, <1>2, <1>7, BookIs DEF BookInv
<1>13. CallInv
  BY <1>7 DEF CallInv
<1>14. \A s \in 1..First : Len(heard[s]) = 0 /\ DOMAIN heard[s] = {} /\ DOMAIN heard = 1..First
  BY <1>2
<1>15. HeardInv /\ HeardInOrder
  BY <1>2, <1>5, <1>14 DEF HeardInv, HeardInOrder
<1>16. QED
  BY <1>8, <1>9, <1>10, <1>11, <1>12, <1>13, <1>15 DEF IInv

LEMMA NextInv ==
  ASSUME IInv, [Next]_vars
  PROVE  IInv'
<1>1. CASE UNCHANGED vars
  <2>1. /\ UNCHANGED <<design, mutex, book, lists, added, issued, others, pc, packet, snapshot,
                       known, subs, at, copied, applied, heard>>
        /\ callbacks' = callbacks
    BY <1>1 DEF vars, sharedVars, clientVars, threadVars, callbacks
  <2>2. TypeOK' /\ MutexInv' /\ ListInv' /\ PacketInv'
    BY <2>1 DEF IInv, TypeOK, MutexInv, Inside, ListInv, PacketInv
  <2>3. BookInv' /\ HeardInv' /\ HeardInOrder'
    BY <2>1, BookKept, HeardKept DEF IInv
  <2>4. CallInv'
    BY <2>1, ShowingKept, OwingKept DEF IInv, CallInv
  <2>5. QED
    BY <2>2, <2>3, <2>4 DEF IInv
<1>2. CASE \E t \in Threads : CallPacket(t) \/ CallOther(t)
  BY <1>2, CallPacketKeepsInv, CallOtherKeepsInv
<1>3. CASE \E t \in Threads : Thread(t)
  <2>1. PICK t \in Threads : Thread(t)
    BY <1>3
  <2>2. QED
    BY <2>1, LockForPacketKeepsInv, ApplyKeepsInv, LeaveBlockKeepsInv, LoadListKeepsInv,
       CallBackKeepsInv, CallBackQuotingKeepsInv, CallBackSubscribingKeepsInv,
       BestBidKeepsInv, PacketReturnsKeepsInv, LockForSubscribeKeepsInv, PushBackKeepsInv,
       CopyListKeepsInv, StoreListKeepsInv DEF Thread
<1>4. QED
  BY <1>1, <1>2, <1>3 DEF Next

\* What holds of all three designs: whose the mutex is, which lists there are, what
\* the book is, and what every call has shown to whom.
THEOREM Invariant == Spec => []IInv
<1>1. Init => IInv
  BY InitInv
<1>2. IInv /\ [Next]_vars => IInv'
  BY NextInv
<1>3. QED
  BY <1>1, <1>2, PTL DEF Spec

\* Under A's lock every subscriber hears of the packets in the order in which they
\* were applied.
THEOREM OrderedUnderTheLock == Spec => []HeardInOrder
<1>1. IInv => HeardInOrder
  BY DEF IInv
<1>2. QED
  BY <1>1, Invariant, PTL

-----------------------------------------------------------------------------
(* Every step is one of the packet feed, or none.                            *)

Finished == {n \in DOMAIN applied : \A t \in Threads : packet[t] # applied[n].packet}

\* No packet applied, nobody entered, nobody called: nothing has happened.
LEMMA Unseen ==
  ASSUME UNCHANGED <<lists, applied, heard>>, Finished' = Finished
  PROVE  UNCHANGED Feed!feedVars
<1>1. callbacks' = callbacks
  BY DEF callbacks
<1>2. QED
  BY <1>1 DEF Feed!feedVars, Finished

LEMMA FinishedKept ==
  ASSUME UNCHANGED <<applied, packet>>
  PROVE  Finished' = Finished
  BY DEF Finished

LEMMA CallPacketUnseen ==
  ASSUME IInv, NEW t \in Threads, CallPacket(t)
  PROVE  UNCHANGED Feed!feedVars
<1>0. TypeOK /\ PacketInv
  BY DEF IInv
<1>1. /\ pc[t] = "idle" /\ packet' = [packet EXCEPT ![t] = issued + 1]
      /\ UNCHANGED <<lists, applied, heard>>
  BY DEF CallPacket, sharedVars
<1>2. packet[t] = 0 /\ packet'[t] = issued + 1
      /\ \A u \in Threads : u # t => packet'[u] = packet[u]
  BY <1>0, <1>1 DEF PacketInv, TypeOK
<1>3. \A n \in DOMAIN applied : applied[n].packet \in 1..issued
  <2>1. DOMAIN applied = 1..Len(applied)
    BY <1>0 DEF TypeOK
  <2>2. QED
    BY <2>1, <1>0 DEF PacketInv
<1>4. issued \in Nat
  BY <1>0 DEF TypeOK
<1>5. \A n \in DOMAIN applied : packet[t] # applied[n].packet /\ packet'[t] # applied[n].packet
  BY <1>2, <1>3, <1>4
<1>6. Finished' = Finished
  BY <1>1, <1>2, <1>5 DEF Finished
<1>7. QED
  BY <1>1, <1>6, Unseen

LEMMA ApplyApplies ==
  ASSUME IInv, NEW t \in Threads, Apply(t)
  PROVE  Feed!Apply
<1>0. TypeOK /\ PacketInv
  BY DEF IInv
<1> DEFINE e == [packet |-> packet[t], audience |-> Len(callbacks)]
<1>1. /\ pc[t] = "apply" /\ applied' = Append(applied, e)
      /\ UNCHANGED <<packet, lists, heard>>
  BY DEF Apply, clientVars
<1>2. e \in Entries /\ e.packet = packet[t]
  BY <1>0, OfThread, Newest DEF Entries
<1> HIDE DEF e
<1>3. /\ Len(applied) \in Nat /\ applied' \in Seq(Entries) /\ Len(applied') = Len(applied) + 1
      /\ applied'[Len(applied) + 1] = e
      /\ \A n \in 1..Len(applied) : applied'[n] = applied[n]
      /\ \A n : n \in 1..Len(applied') <=> n \in 1..Len(applied) \/ n = Len(applied) + 1
  BY <1>0, <1>1, <1>2, AppliedGrows
<1>4. packet[t] \in 1..Packets
  <2>1. packet[t] # 0 /\ packet[t] <= issued
    BY <1>0, <1>1 DEF PacketInv
  <2>2. packet[t] \in Nat /\ issued \in Nat /\ issued <= Packets /\ Packets \in Nat
    BY <1>0, ConstantsAssumption DEF TypeOK
  <2>3. QED
    BY <2>1, <2>2
<1>5. \A n \in 1..Len(applied) : applied[n].packet # packet[t]
  BY <1>0, <1>1, <1>4 DEF PacketInv
<1>6. callbacks' = callbacks
  BY <1>1 DEF callbacks
<1>7. Finished' = Finished
  <2>1. DOMAIN applied = 1..Len(applied) /\ DOMAIN applied' = 1..Len(applied')
    BY <1>0, <1>3 DEF TypeOK
  <2>2. QED
    BY <2>1, <1>1, <1>2, <1>3 DEF Finished
<1>8. QED
  BY <1>1, <1>4, <1>5, <1>6, <1>7 DEF Feed!Apply, Finished, e

LEMMA EnterSubscribes ==
  ASSUME TypeOK, Enter(callbacks), UNCHANGED <<applied, packet>>
  PROVE  Feed!Subscribe
<1>1. Len(callbacks') = Len(callbacks) + 1 /\ Len(callbacks) \in Nat
  BY ListsGrow
<1>2. DOMAIN heard = 1..Len(callbacks)
  BY DEF TypeOK
<1>3. heard' = [s \in 1..(Len(callbacks) + 1) |->
                  IF s <= Len(callbacks) THEN heard[s] ELSE << >>]
  BY <1>1, <1>2 DEF Enter
<1>4. QED
  BY <1>1, <1>3, FinishedKept DEF Feed!Subscribe, Finished

LEMMA CallingIsHeard ==
  ASSUME IInv, NEW t \in Threads, NEW kind, Calling(t, kind)
  PROVE  Feed!Hear
<1>1. /\ pc[t] = "notify" /\ at[t] <= Len(subs[t])
      /\ heard' = [heard EXCEPT ![at[t]] = Append(heard[at[t]], Given(t))]
      /\ UNCHANGED <<lists, packet, applied>>
  BY DEF Calling
<1>2. PICK n \in 1..Len(applied) :
           /\ applied[n].packet = packet[t] /\ packet[t] # 0
           /\ Given(t) = BookOf(applied, n) /\ Given(t) \in Books
           /\ at[t] \in 1..Len(callbacks) /\ ~Heard(at[t], n)
  BY <1>1, AboutToCall
<1>3. callbacks' = callbacks /\ Finished' = Finished
  BY <1>1, FinishedKept DEF callbacks
<1>4. n \notin Finished
  BY <1>2 DEF Finished
<1>5. PICK s \in 1..Len(callbacks) : s = at[t]
  BY <1>2
<1>6. heard' = [heard EXCEPT ![s] = Append(heard[s], Feed!BookAfter(n))]
  BY <1>1, <1>2, <1>5, BookIs
<1>7. \A k \in 1..Len(heard[s]) : heard[s][k].seq # n
  BY <1>2, <1>5 DEF Heard
<1>8. QED
  BY <1>1, <1>3, <1>4, <1>6, <1>7 DEF Feed!Hear, Finished

LEMMA PacketReturnsFinishes ==
  ASSUME IInv, NEW t \in Threads, PacketReturns(t)
  PROVE  Feed!Finish
<1>0. TypeOK /\ PacketInv
  BY DEF IInv
<1>1. /\ pc[t] = "notify" /\ at[t] > Len(subs[t])
      /\ packet' = [packet EXCEPT ![t] = 0]
      /\ UNCHANGED <<lists, applied, heard>>
  BY DEF PacketReturns
<1>2. /\ packet[t] # 0 /\ packet'[t] = 0
      /\ \A u \in Threads : u # t => packet'[u] = packet[u]
  BY <1>0, <1>1 DEF PacketInv, TypeOK
<1>3. PICK n \in 1..Len(applied) :
        applied[n].packet = packet[t] /\ Showing(t, n) /\ Owing(t, n)
  BY <1>1, <1>2, Place
<1>4. /\ applied[n].audience \in Nat /\ at[t] \in Nat /\ Len(subs[t]) \in Nat
      /\ Len(callbacks) \in Nat
  BY <1>0, Entry, OfThread, Newest
<1>5. DoneWith(t) = at[t] - 1
  BY <1>1 DEF DoneWith
<1>6. applied[n].audience <= Len(callbacks) /\ applied[n].audience <= DoneWith(t)
  BY <1>1, <1>3, <1>4, <1>5 DEF Owing
<1>7. \A s \in 1..applied[n].audience : s \in 1..Len(callbacks) /\ s <= DoneWith(t)
  BY <1>4, <1>5, <1>6
<1>8. \A s \in 1..applied[n].audience : \E k \in 1..Len(heard[s]) : heard[s][k].seq = n
  BY <1>3, <1>7 DEF Showing, Heard
<1>9. DOMAIN applied = 1..Len(applied) /\ \A m \in 1..Len(applied) : applied[m].packet # 0
  BY <1>0, AppliedPackets
<1>10. \A m \in 1..Len(applied) :
         (\A u \in Threads : packet'[u] # applied[m].packet) <=>
           (\A u \in Threads : packet[u] # applied[m].packet) \/ m = n
  <2> SUFFICES ASSUME NEW m \in 1..Len(applied)
               PROVE  (\A u \in Threads : packet'[u] # applied[m].packet) <=>
                        (\A u \in Threads : packet[u] # applied[m].packet) \/ m = n
    OBVIOUS
  <2>1. CASE m = n
    BY <2>1, <1>0, <1>2, <1>3 DEF PacketInv
  <2>2. CASE m # n
    <3>1. packet[t] # applied[m].packet
      BY <2>2, <1>0, <1>3 DEF PacketInv
    <3>2. QED
      BY <2>2, <3>1, <1>2, <1>9
  <2>3. QED
    BY <2>1, <2>2
<1>11. Finished' = Finished \union {n}
  BY <1>1, <1>9, <1>10 DEF Finished
<1>12. n \notin Finished /\ callbacks' = callbacks
  BY <1>1, <1>3 DEF Finished, callbacks
<1>13. QED
  BY <1>1, <1>8, <1>11, <1>12 DEF Feed!Finish, Finished

LEMMA StepIsFeedStep ==
  ASSUME IInv, [Next]_vars
  PROVE  [Feed!Next]_(Feed!feedVars)
<1>0. TypeOK
  BY DEF IInv
<1>1. CASE UNCHANGED vars
  BY <1>1, FinishedKept, Unseen DEF vars, sharedVars, threadVars
<1>2. CASE \E t \in Threads : CallPacket(t)
  BY <1>2, CallPacketUnseen
<1>3. CASE \E t \in Threads : CallOther(t)
  BY <1>3, FinishedKept, Unseen DEF CallOther, sharedVars
<1>4. CASE \E t \in Threads : Thread(t)
  <2>1. PICK t \in Threads : Thread(t)
    BY <1>4
  <2>2. CASE Apply(t)
    BY <2>2, ApplyApplies DEF Feed!Next
  <2>3. CASE CallBack(t) \/ CallBackQuoting(t) \/ CallBackSubscribing(t)
    <3>1. \E kind : Calling(t, kind)
      BY <2>3 DEF CallBack, CallBackQuoting, CallBackSubscribing
    <3>2. QED
      BY <3>1, CallingIsHeard DEF Feed!Next
  <2>4. CASE PacketReturns(t)
    BY <2>4, PacketReturnsFinishes DEF Feed!Next
  <2>5. CASE PushBack(t)
    BY <2>5, <1>0, EnterSubscribes DEF PushBack, Feed!Next
  <2>6. CASE StoreList(t)
    <3>1. copied[t] = callbacks
      BY <2>6 DEF IInv, ListInv, StoreList
    <3>2. QED
      BY <2>6, <3>1, <1>0, EnterSubscribes DEF StoreList, Feed!Next
  <2>7. CASE \/ LockForPacket(t) \/ LeaveBlock(t) \/ \E k \in 1..Len(lists) : LoadList(t, k)
             \/ BestBid(t) \/ LockForSubscribe(t) \/ CopyList(t)
    <3>1. UNCHANGED <<lists, applied, heard, packet>>
      BY <2>7 DEF LockForPacket, LeaveBlock, LoadList, BestBid, LockForSubscribe, CopyList,
                  sharedVars
    <3>2. QED
      BY <3>1, FinishedKept, Unseen
  <2>8. QED
    BY <2>1, <2>2, <2>3, <2>4, <2>5, <2>6, <2>7 DEF Thread
<1>5. QED
  BY <1>1, <1>2, <1>3, <1>4 DEF Next

LEMMA InitIsFeedInit ==
  ASSUME Init
  PROVE  Feed!Init
<1>1. /\ applied = << >> /\ heard = [s \in 1..First |-> << >>]
  BY DEF Init
<1>2. Len(callbacks) = First
  <2>1. TypeOK /\ ListInv /\ Len(lists) = 1
    BY InitInv DEF IInv, Init
  <2>2. First \in Nat
    BY ConstantsAssumption
  <2>3. QED
    BY <2>1, <2>2 DEF ListInv, callbacks
<1>3. Finished = {}
  BY <1>1 DEF Finished
<1>4. QED
  BY <1>1, <1>2, <1>3 DEF Feed!Init, Finished

\* A, B and C each do what a packet feed does: every call of a subscriber shows it
\* the whole book after some packet, which it was not shown before, and on_packet()
\* does not return before everybody it owes the packet to has been called.
THEOREM FeedIsPacketFeed == Spec => FeedSpec
<1>1. Init => Feed!Init
  BY InitIsFeedInit
<1>2. IInv /\ [Next]_vars => [Feed!Next]_(Feed!feedVars)
  BY StepIsFeedStep
<1>3. QED
  BY <1>1, <1>2, Invariant, PTL DEF Spec, FeedSpec, Feed!Spec

-----------------------------------------------------------------------------
(* Nobody waits for ever on one another, unless a callback calls back in.    *)

\* m_ is never left locked by a thread that is outside.
HeldInv == mutex # NoThread => Inside(mutex)

\* A step of t: what it does to m_, and that it is not a step of a thread that has
\* called back in, which waits for itself.
LEMMA StepOf ==
  ASSUME IInv, NEW t \in Threads, CallPacket(t) \/ CallOther(t) \/ Thread(t)
  PROVE  /\ design' = design /\ ~Reentered(t)
         /\ \A u \in Threads : u # t => pc'[u] = pc[u] /\ packet'[u] = packet[u]
         /\ \/ mutex' = mutex /\ (Inside(t) => Inside(t)')
            \/ mutex' = t /\ Inside(t)'
            \/ mutex' = NoThread
<1>0. /\ TypeOK /\ pc \in [Threads -> Labels] /\ packet \in [Threads -> Nat]
      /\ design \in Designs /\ t # NoThread
      /\ pc[t] = "idle" => packet[t] = 0
      /\ pc[t] \in {"lock", "apply", "applied", "load", "notify"} => packet[t] # 0
      /\ Inside(t) => mutex = t
  BY ConstantsAssumption DEF IInv, TypeOK, PacketInv, MutexInv
<1>1. CASE CallPacket(t) \/ CallOther(t)
  BY <1>0, <1>1 DEF CallPacket, CallOther, Goto, Inside, Reentered, sharedVars
<1>2. CASE LockForPacket(t)
  BY <1>0, <1>2 DEF LockForPacket, Lock, Goto, Inside, Reentered
<1>3. CASE Apply(t)
  BY <1>0, <1>3 DEF Apply, Goto, Inside, Reentered
<1>4. CASE LeaveBlock(t)
  BY <1>0, <1>4 DEF LeaveBlock, HoldsWhileNotifying, Unlock, Goto, Inside, Reentered
<1>5. CASE \E k \in 1..Len(lists) : LoadList(t, k)
  BY <1>0, <1>5 DEF LoadList, Goto, Inside, Reentered, sharedVars
<1>6. CASE CallBack(t)
  <2>1. /\ pc[t] = "notify" /\ pc'[t] = "notify" /\ mutex' = mutex
        /\ design' = design /\ packet' = packet
        /\ \A u \in Threads : u # t => pc'[u] = pc[u]
    BY <1>0, <1>6, GoesOn DEF CallBack, Calling
  <2>2. QED
    BY <1>0, <2>1 DEF Inside, Reentered
<1>7. CASE CallBackQuoting(t) \/ CallBackSubscribing(t)
  BY <1>0, <1>7 DEF CallBackQuoting, CallBackSubscribing, Calling, Goto, Inside, Reentered
<1>8. CASE BestBid(t)
  <2>1. /\ mutex = NoThread /\ mutex' = mutex /\ design' = design /\ packet' = packet
        /\ pc[t] = "quote"
        /\ \A u \in Threads : u # t => pc'[u] = pc[u]
    BY <1>0, <1>8, GoesOn DEF BestBid, Free, sharedVars
  <2>2. QED
    BY <1>0, <2>1 DEF Inside, Reentered
<1>9. CASE PacketReturns(t)
  BY <1>0, <1>9 DEF PacketReturns, LetGo, HoldsWhileNotifying, Unlock, Goto, Inside, Reentered
<1>10. CASE LockForSubscribe(t)
  BY <1>0, <1>10 DEF LockForSubscribe, Lock, Free, Goto, Inside, Reentered
<1>11. CASE PushBack(t) \/ StoreList(t)
  <2>1. /\ mutex' = NoThread /\ design' = design /\ packet' = packet
        /\ pc[t] \in {"list", "store"}
        /\ \A u \in Threads : u # t => pc'[u] = pc[u]
    BY <1>0, <1>11, GoesOn DEF PushBack, StoreList, Unlock
  <2>2. QED
    BY <1>0, <2>1 DEF Reentered
<1>12. CASE CopyList(t)
  BY <1>0, <1>12 DEF CopyList, Goto, Inside, Reentered, sharedVars
<1>13. QED
  BY <1>1, <1>2, <1>3, <1>4, <1>5, <1>6, <1>7, <1>8, <1>9, <1>10, <1>11, <1>12 DEF Thread

\* Once a callback has called back into A it stays there: m_ is its own thread's.
LEMMA ReentryStays ==
  ASSUME IInv, [Next]_vars, NEW t \in Threads, Reentered(t)
  PROVE  Reentered(t)'
<1>1. CASE UNCHANGED vars
  BY <1>1 DEF vars, sharedVars, threadVars, Reentered
<1>2. ASSUME NEW u \in Threads, CallPacket(u) \/ CallOther(u) \/ Thread(u)
      PROVE  Reentered(t)'
  <2>1. u # t /\ pc'[t] = pc[t] /\ packet'[t] = packet[t] /\ design' = design
    BY <1>2, StepOf
  <2>2. QED
    BY <2>1 DEF Reentered
<1>3. QED
  BY <1>1, <1>2 DEF Next

\* Meanwhile no other thread is anywhere it could go on from for good.
LEMMA ReentryStops ==
  ASSUME IInv, NEW t \in Threads, Reentered(t)
  PROVE  \A u \in Threads \ {t} : pc[u] \in {"idle", "lock", "subscribe", "quote"}
<1>1. mutex = t
  BY DEF IInv, MutexInv, Inside, Reentered
<1>2. ASSUME NEW u \in Threads, u # t PROVE pc[u] \in {"idle", "lock", "subscribe", "quote"}
  <2>1. ~Inside(u) /\ pc[u] \in Labels /\ design = "A"
    BY <1>1, <1>2 DEF IInv, TypeOK, MutexInv, Reentered
  <2>2. pc[u] \in {"load", "notify"} => packet[u] # 0
    BY DEF IInv, PacketInv
  <2>3. QED
    BY <2>1, <2>2 DEF Inside, Labels
<1>3. QED
  BY <1>2

\* "A survives a callback that calls back in : NO (deadlock)": whatever the number
\* of threads, once it has happened that call never returns and no other call gets
\* past m_ again.
THEOREM ReentryIsForEver == Spec => ReentryHangsAll
<1> SUFFICES ASSUME NEW t \in Threads
             PROVE  Spec => (Reentered(t) ~> [](Reentered(t) /\
                       \A u \in Threads \ {t} : pc[u] \in {"idle", "lock", "subscribe", "quote"}))
  BY DEF ReentryHangsAll
<1> DEFINE Stopped == \A u \in Threads \ {t} : pc[u] \in {"idle", "lock", "subscribe", "quote"}
<1>1. IInv /\ Reentered(t) => Stopped
  BY ReentryStops
<1>2. IInv /\ [Next]_vars /\ Reentered(t) => Reentered(t)'
  BY ReentryStays
<1>3. QED
  <2> HIDE DEF Stopped
  <2>1. Spec => (Reentered(t) ~> [](Reentered(t) /\ Stopped))
    BY <1>1, <1>2, Invariant, PTL DEF Spec
  <2>2. QED
    BY <2>1 DEF Stopped

\* Where all subscribers keep out of the feed nobody ever calls back into A.
CheapList(list) == \A k \in 1..Len(list) : list[k] = "cheap"
GentleInv ==
  design = "A" /\ ~Hostile =>
    /\ \A k \in 1..Len(lists) : CheapList(lists[k])
    /\ \A t \in Threads : CheapList(subs[t]) /\ ~Reentered(t)

LEMMA InitHeldGentle == Init => HeldInv /\ GentleInv
<1> SUFFICES ASSUME Init PROVE HeldInv /\ GentleInv
  OBVIOUS
<1>1. HeldInv
  BY DEF Init, HeldInv
<1>2. ASSUME design = "A", ~Hostile PROVE \A k \in 1..Len(lists) : CheapList(lists[k])
  <2>1. PICK list \in Setups[design] : lists = <<list>>
    BY DEF Init
  <2>2. list \in [1..First -> Kinds] /\ First \in Nat
    BY <2>1, ConstantsAssumption DEF Init
  <2>3. Len(list) = First /\ lists[1] = list /\ Len(lists) = 1
    BY <2>1, <2>2
  <2>4. \A k \in 1..First : list[k] = "cheap"
    BY <1>2, <2>3 DEF Hostile
  <2>5. QED
    BY <2>3, <2>4 DEF CheapList
<1>3. \A t \in Threads : CheapList(subs[t]) /\ ~Reentered(t)
  <2>1. \A t \in Threads : subs[t] = << >> /\ packet[t] = 0
    BY DEF Init
  <2>2. CheapList(<< >>)
    BY DEF CheapList
  <2>3. ASSUME NEW t \in Threads PROVE CheapList(subs[t]) /\ ~Reentered(t)
    BY <2>1, <2>2, <2>3 DEF Reentered
  <2>4. QED
    BY <2>3
<1>4. QED
  BY <1>1, <1>2, <1>3 DEF GentleInv

LEMMA HeldStep ==
  ASSUME IInv, HeldInv, [Next]_vars
  PROVE  HeldInv'
<1>1. CASE UNCHANGED vars
  BY <1>1 DEF vars, sharedVars, threadVars, HeldInv, Inside
<1>2. ASSUME NEW t \in Threads, CallPacket(t) \/ CallOther(t) \/ Thread(t)
      PROVE  HeldInv'
  <2> SUFFICES ASSUME mutex' # NoThread PROVE Inside(mutex)'
    BY DEF HeldInv
  <2>1. /\ design' = design
        /\ \A u \in Threads : u # t => pc'[u] = pc[u] /\ packet'[u] = packet[u]
        /\ \/ mutex' = mutex /\ (Inside(t) => Inside(t)')
           \/ mutex' = t /\ Inside(t)'
    BY <1>2, StepOf
  <2>2. CASE mutex' = t
    <3>1. Inside(t)'
      BY <2>1, <2>2 DEF HeldInv
    <3>2. QED
      BY <2>2, <3>1 DEF Inside
  <2>3. CASE mutex' # t
    <3>1. mutex' = mutex /\ mutex \in Threads /\ Inside(mutex)
      BY <2>1, <2>3 DEF HeldInv, IInv, TypeOK
    <3>2. QED
      BY <2>1, <2>3, <3>1 DEF Inside
  <2>4. QED
    BY <2>2, <2>3
<1>3. QED
  BY <1>1, <1>2 DEF Next

\* Which lists a step of t adds or takes.
LEMMA ListsOf ==
  ASSUME IInv, NEW t \in Threads, CallPacket(t) \/ CallOther(t) \/ Thread(t)
  PROVE  /\ \/ lists' = lists
            \/ lists' = Append(lists, Append(callbacks, "cheap"))
         /\ \A u \in Threads : u # t => subs'[u] = subs[u]
         /\ subs'[t] = subs[t] \/ subs'[t] = << >> \/ \E k \in 1..Len(lists) : subs'[t] = lists[k]
         /\ \/ ~Reentered(t)'
            \/ pc[t] = "notify" /\ at[t] \in 1..Len(subs[t]) /\ subs[t][at[t]] # "cheap"
<1>0. /\ TypeOK /\ pc \in [Threads -> Labels] /\ packet \in [Threads -> Nat]
      /\ subs \in [Threads -> Seq(Kinds)] /\ at[t] \in Nat \ {0} /\ Len(subs[t]) \in Nat
      /\ pc[t] = "idle" => packet[t] = 0
      /\ callbacks = lists[Len(lists)] /\ Len(lists) \in 1..Len(lists)
  BY OfThread, Newest DEF IInv, TypeOK, PacketInv, callbacks
<1>1. CASE CallPacket(t) \/ CallOther(t)
  BY <1>0, <1>1 DEF CallPacket, CallOther, Goto, Reentered, sharedVars
<1>2. CASE LockForPacket(t) \/ Apply(t) \/ CopyList(t) \/ LockForSubscribe(t) \/ PacketReturns(t)
  BY <1>0, <1>2 DEF LockForPacket, Apply, CopyList, LockForSubscribe, PacketReturns, Goto,
     Reentered, sharedVars
<1>3. CASE LeaveBlock(t)
  <2>1. /\ lists' = lists
        /\ subs' = [subs EXCEPT ![t] = IF design = "C" THEN << >> ELSE callbacks]
        /\ pc'[t] \in {"load", "notify"}
    BY <1>0, <1>3 DEF LeaveBlock, Goto
  <2>2. subs'[t] = << >> \/ subs'[t] = callbacks
    BY <1>0, <2>1
  <2>3. QED
    BY <1>0, <2>1, <2>2 DEF Reentered
<1>4. ASSUME NEW k \in 1..Len(lists), LoadList(t, k)
      PROVE  /\ lists' = lists /\ \A u \in Threads : u # t => subs'[u] = subs[u]
             /\ subs'[t] = lists[k] /\ ~Reentered(t)'
  BY <1>0, <1>4 DEF LoadList, Goto, Reentered, sharedVars
<1>5. CASE CallBack(t)
  <2>1. pc[t] = "notify" /\ pc'[t] = "notify" /\ lists' = lists /\ subs' = subs
    BY <1>0, <1>5, GoesOn DEF CallBack, Calling, IInv, PacketInv
  <2>2. QED
    BY <2>1 DEF Reentered
<1>6. CASE CallBackQuoting(t) \/ CallBackSubscribing(t)
  BY <1>0, <1>6 DEF CallBackQuoting, CallBackSubscribing, Calling
<1>7. CASE BestBid(t)
  <2>1. pc'[t] \in {"idle", "notify"} /\ lists' = lists /\ subs' = subs
    BY <1>0, <1>7, GoesOn DEF BestBid, sharedVars
  <2>2. QED
    BY <2>1 DEF Reentered
<1>8. CASE PushBack(t) \/ StoreList(t)
  <2>1. /\ pc'[t] \in {"idle", "notify"} /\ subs' = subs
        /\ lists' = Append(lists, Append(callbacks, "cheap"))
    BY <1>0, <1>8, GoesOn DEF PushBack, StoreList, Enter, IInv, ListInv
  <2>2. QED
    BY <2>1 DEF Reentered
<1>9. QED
  BY <1>1, <1>2, <1>3, <1>4, <1>5, <1>6, <1>7, <1>8 DEF Thread

LEMMA GentleStep ==
  ASSUME IInv, GentleInv, [Next]_vars
  PROVE  GentleInv'
<1>1. CASE UNCHANGED vars
  BY <1>1 DEF vars, sharedVars, threadVars, GentleInv, Hostile, Reentered
<1>2. ASSUME NEW t \in Threads, CallPacket(t) \/ CallOther(t) \/ Thread(t)
      PROVE  GentleInv'
  <2>0. /\ design' = design
        /\ \A u \in Threads : u # t => pc'[u] = pc[u] /\ packet'[u] = packet[u]
    BY <1>2, StepOf
  <2>1. /\ \/ lists' = lists
           \/ lists' = Append(lists, Append(callbacks, "cheap"))
        /\ \A u \in Threads : u # t => subs'[u] = subs[u]
        /\ subs'[t] = subs[t] \/ subs'[t] = << >> \/ \E k \in 1..Len(lists) : subs'[t] = lists[k]
        /\ \/ ~Reentered(t)'
           \/ pc[t] = "notify" /\ at[t] \in 1..Len(subs[t]) /\ subs[t][at[t]] # "cheap"
    BY <1>2, ListsOf
  <2>2. /\ lists \in Seq(Seq(Kinds)) /\ Len(lists) \in Nat \ {0} /\ callbacks \in Seq(Kinds)
        /\ callbacks = lists[Len(lists)] /\ Len(callbacks) \in Nat /\ Len(lists) \in 1..Len(lists)
    BY Newest DEF IInv, TypeOK, callbacks
  <2> DEFINE new == Append(callbacks, "cheap")
  <2>3. /\ new \in Seq(Kinds) /\ Len(new) = Len(callbacks) + 1 /\ new[Len(callbacks) + 1] = "cheap"
        /\ \A k \in 1..Len(callbacks) : new[k] = callbacks[k]
    BY <2>2 DEF Kinds
  <2> HIDE DEF new
  <2>4. /\ \A k \in 1..Len(lists) : lists'[k] = lists[k]
        /\ \A k \in 1..Len(lists') : k \in 1..Len(lists) \/ lists'[k] = new
    <3>1. CASE lists' = lists
      BY <3>1
    <3>2. CASE lists' = Append(lists, new)
      BY <2>2, <2>3, <3>2
    <3>3. QED
      BY <2>1, <3>1, <3>2 DEF new
  <2>5. Hostile' <=> Hostile
    BY <2>0, <2>2, <2>4 DEF Hostile
  <2> SUFFICES ASSUME design = "A", ~Hostile
               PROVE  /\ \A k \in 1..Len(lists') : CheapList(lists'[k])
                      /\ \A u \in Threads : CheapList(subs'[u]) /\ ~Reentered(u)'
    BY <2>0, <2>5 DEF GentleInv
  <2>6. /\ \A k \in 1..Len(lists) : CheapList(lists[k])
        /\ \A u \in Threads : CheapList(subs[u]) /\ ~Reentered(u)
    BY DEF GentleInv
  <2>7. CheapList(new) /\ CheapList(<< >>)
    BY <2>2, <2>3, <2>6 DEF CheapList
  <2>8. \A k \in 1..Len(lists') : CheapList(lists'[k])
    BY <2>4, <2>6, <2>7
  <2>9. \A u \in Threads : CheapList(subs'[u])
    BY <2>1, <2>6, <2>7
  <2>10. ~Reentered(t)'
    BY <2>1, <2>6 DEF CheapList
  <2>11. \A u \in Threads : u # t => ~Reentered(u)'
    BY <2>0, <2>6 DEF Reentered
  <2>12. QED
    BY <2>8, <2>9, <2>10, <2>11
<1>3. QED
  BY <1>1, <1>2 DEF Next

\* A thread can go no further until another lets m_ go.
HeldUp(t) == pc[t] \in {"lock", "subscribe", "quote"} /\ mutex # NoThread

\* Whom a thread waits for is at work inside a guarded block, not itself waiting:
\* the safety half of CallsReturn.
WaitsForOneAtWork ==
  ~Hostile => \A t \in Threads : HeldUp(t) =>
    mutex \in Threads \ {t} /\ Inside(mutex) /\ ~HeldUp(mutex) /\ pc[mutex] # "idle"

\* B and C are "safe against any callback", and A against those that keep out:
\* no thread ever waits for one that waits.
THEOREM NobodyHeldUpForEver == Spec => []WaitsForOneAtWork
<1>1. IInv /\ HeldInv /\ GentleInv => WaitsForOneAtWork
  <2> SUFFICES ASSUME IInv, HeldInv, GentleInv, ~Hostile, NEW t \in Threads, HeldUp(t)
               PROVE  /\ mutex \in Threads \ {t} /\ Inside(mutex)
                      /\ ~HeldUp(mutex) /\ pc[mutex] # "idle"
    BY DEF WaitsForOneAtWork
  <2>1. mutex \in Threads /\ Inside(mutex) /\ ~Reentered(mutex)
    BY DEF HeldUp, HeldInv, GentleInv, IInv, TypeOK, Reentered
  <2>2. pc[mutex] = "idle" => packet[mutex] = 0
    BY <2>1 DEF IInv, PacketInv
  <2>3. pc[mutex] \notin {"idle", "lock", "subscribe", "quote"}
    BY <2>1, <2>2 DEF Inside, Reentered
  <2>4. QED
    BY <2>1, <2>3 DEF HeldUp
<1>2. IInv /\ HeldInv /\ GentleInv /\ [Next]_vars => HeldInv' /\ GentleInv'
  BY HeldStep, GentleStep
<1>3. QED
  BY <1>1, <1>2, InitHeldGentle, Invariant, PTL DEF Spec

=============================================================================
