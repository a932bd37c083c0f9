----------------------------- MODULE FeedDProofs -----------------------------
(***************************************************************************)
(* Proofs about FeedD, for any depth of the book and any number of packets *)
(* and attempts.                                                           *)
(***************************************************************************)
EXTENDS FeedD, SequenceTheorems, TLAPS

-----------------------------------------------------------------------------
(* The book.                                                                 *)

LEMMA Places ==
  /\ Depth \in Nat \ {0} /\ Packets \in Nat /\ Attempts \in Nat \ {0} /\ InOrder \in BOOLEAN
  /\ BookSeq \in Parts /\ BookSeq = Depth
  /\ \A p : p \in Parts <=> p \in Nat /\ p <= Depth
  /\ \A k \in Nat \ {0} : LevelOf(k) \in Parts /\ LevelOf(k) # BookSeq
<1>1. Depth \in Nat \ {0} /\ Packets \in Nat /\ Attempts \in Nat \ {0} /\ InOrder \in BOOLEAN
  BY ConstantsAssumption
<1>2. \A k \in Nat \ {0} : LevelOf(k) \in 0..(Depth - 1)
  BY <1>1 DEF LevelOf
<1>3. QED
  BY <1>1, <1>2 DEF BookSeq, Parts

\* The largest of a set, if it is there to be found.
LEMMA MaxIs ==
  ASSUME NEW S, NEW m \in S, \A x \in S : x \in Nat /\ x <= m
  PROVE  Max(S) = m
<1>1. m \in Nat /\ \A y \in S : m >= y
  OBVIOUS
<1>2. /\ Max(S) \in S
      /\ \A y \in S : Max(S) >= y
  BY <1>1 DEF Max
<1> HIDE DEF Max
<1>3. Max(S) \in Nat /\ Max(S) <= m /\ Max(S) >= m
  BY <1>2
<1>4. QED
  BY <1>1, <1>3

\* No packet has been applied to the first book.
LEMMA BookAfterNone == \A p \in Parts : BookAfter(0)[p] = 0
<1> SUFFICES ASSUME NEW p \in Parts PROVE BookAfter(0)[p] = 0
  OBVIOUS
<1>1. {0} \union {k \in 1..0 : LevelOf(k) = p} = {0}
  OBVIOUS
<1>2. Max({0}) = 0
  BY MaxIs
<1>3. QED
  BY <1>1, <1>2 DEF BookAfter

\* What one more packet does to the book.
LEMMA BookAfterOne ==
  ASSUME NEW k \in Nat \ {0}, NEW p \in Parts
  PROVE  /\ p = BookSeq => BookAfter(k)[p] = k
         /\ p = LevelOf(k) => BookAfter(k)[p] = k
         /\ p # BookSeq /\ p # LevelOf(k) => BookAfter(k)[p] = BookAfter(k - 1)[p]
<1> DEFINE S(n) == {0} \union {j \in 1..n : LevelOf(j) = p}
<1>1. p # BookSeq => BookAfter(k)[p] = Max(S(k)) /\ BookAfter(k - 1)[p] = Max(S(k - 1))
  BY DEF BookAfter
<1>2. p = BookSeq => BookAfter(k)[p] = k
  BY DEF BookAfter
<1>3. p = LevelOf(k) => Max(S(k)) = k
  <2>1. \A x \in S(k) : x \in Nat /\ x <= k
    OBVIOUS
  <2>2. p = LevelOf(k) => k \in S(k)
    OBVIOUS
  <2> HIDE DEF S
  <2>3. QED
    BY <2>1, <2>2, MaxIs
<1>4. p # LevelOf(k) => S(k) = S(k - 1)
  <2> SUFFICES ASSUME p # LevelOf(k) PROVE S(k) = S(k - 1)
    OBVIOUS
  <2>1. ASSUME NEW j \in 1..k, LevelOf(j) = p PROVE j \in 1..(k - 1)
    <3>1. j # k
      BY <2>1
    <3>2. QED
      BY <3>1
  <2>2. ASSUME NEW j \in 1..(k - 1) PROVE j \in 1..k
    OBVIOUS
  <2>3. QED
    BY <2>1, <2>2
<1>5. QED
  BY <1>1, <1>2, <1>3, <1>4, Places

-----------------------------------------------------------------------------
(* What the types say of a single store or value.                            *)

LEMMA SeqTypes ==
  ASSUME TypeOK
  PROVE  /\ Len(seqStores) \in Nat \ {0}
         /\ \A t \in 1..Len(seqStores) : /\ seqStores[t].val \in Nat
                                         /\ seqStores[t].book \in BookView
                                         /\ t \in Nat
         /\ SeqNow \in Nat
<1>1. Len(seqStores) \in Nat \ {0} /\ Len(seqStores) \in 1..Len(seqStores)
  BY DEF TypeOK
<1>2. \A t \in 1..Len(seqStores) : seqStores[t] \in SeqRecord
  BY ElementOfSeq DEF TypeOK
<1>3. \A x \in SeqRecord : x.val \in Nat /\ x.book \in BookView
  BY DEF SeqRecord
<1>4. QED
  BY <1>1, <1>2, <1>3 DEF SeqNow

LEMMA BookTypes ==
  ASSUME TypeOK, NEW p \in Parts
  PROVE  /\ bookStores[p] \in Seq(Nat) /\ Len(bookStores[p]) \in Nat \ {0}
         /\ \A t \in 1..Len(bookStores[p]) : bookStores[p][t] \in Nat /\ t \in Nat
<1>1. bookStores[p] \in Seq(Nat) /\ Len(bookStores[p]) > 0
  BY DEF TypeOK
<1>2. QED
  BY <1>1

LEMMA ScalarTypes ==
  ASSUME TypeOK
  PROVE  /\ packet \in Nat \ {0} /\ packet <= Packets + 1 /\ packet - 1 \in Nat
         /\ wpc \in {"begin", "level", "count", "end"}
         /\ s1 \in Nat /\ copied \in Nat /\ copied <= Depth + 1
         /\ attempt \in Nat /\ attempt <= Attempts
         /\ snap \in BookView /\ view.seq \in Nat /\ view.book \in BookView
<1>1. packet \in 1..(Packets + 1) /\ copied \in 0..(Depth + 1) /\ attempt \in 0..Attempts
  BY DEF TypeOK
<1>2. /\ packet \in Nat \ {0} /\ packet <= Packets + 1 /\ packet - 1 \in Nat
      /\ copied \in Nat /\ copied <= Depth + 1 /\ attempt \in Nat /\ attempt <= Attempts
  BY <1>1, Places
<1>3. view.seq \in Nat /\ view.book \in BookView
  BY DEF TypeOK, View
<1>4. snap \in BookView /\ s1 \in Nat /\ wpc \in {"begin", "level", "count", "end"}
  BY DEF TypeOK, BookView
<1>5. QED
  BY <1>2, <1>3, <1>4

LEMMA NextAttempt ==
  ASSUME TypeOK, attempt < Attempts
  PROVE  attempt + 1 \in 0..Attempts
<1>1. attempt \in Nat /\ Attempts \in Nat
  BY ScalarTypes, Places
<1>2. QED
  BY <1>1

\* seq_ is even exactly between two packets, and then says how many there were.
LEMMA SeqParity ==
  ASSUME TypeOK, WriterInv
  PROVE  /\ SeqNow % 2 = 0 <=> wpc = "begin"
         /\ wpc = "begin" => SeqNow \div 2 = packet - 1
         /\ SeqNow \div 2 \in 0..Packets
<1>1. CASE wpc = "begin"
  <2>1. SeqNow = 2 * (packet - 1)
    BY <1>1, ScalarTypes DEF WriterInv
  <2>2. QED
    BY <1>1, <2>1, ScalarTypes, Places
<1>2. CASE wpc # "begin"
  <2>1. SeqNow = 2 * (packet - 1) + 1 /\ packet <= Packets
    BY <1>2 DEF WriterInv
  <2>2. QED
    BY <1>2, <2>1, ScalarTypes, Places
<1>3. QED
  BY <1>1, <1>2

-----------------------------------------------------------------------------
(* The inductive invariant.                                                  *)

LEMMA InitInvariant == Init => IInv
<1> SUFFICES ASSUME Init PROVE IInv
  OBVIOUS
<1> DEFINE first == [val |-> 0, book |-> FirstView.book]
<1>1. FirstView.book \in BookView /\ FirstView \in View
  BY DEF FirstView, View, BookView
<1>2. first \in SeqRecord /\ first.val = 0
  BY <1>1 DEF SeqRecord
<1>3. seqStores = <<first>>
  BY DEF Init
<1> HIDE DEF first
<1>4. /\ seqStores \in Seq(SeqRecord) /\ Len(seqStores) = 1
      /\ seqStores[1].val = 0
  BY <1>2, <1>3
<1>5. /\ \A p \in Parts : bookStores[p] = <<0>> /\ Len(bookStores[p]) = 1 /\ bookStores[p][1] = 0
      /\ bookStores \in [Parts -> Seq(Nat)]
  <2> DEFINE none == <<0>>
  <2>1. none \in Seq(Nat) /\ Len(none) = 1 /\ none[1] = 0
    OBVIOUS
  <2>2. bookStores = [p \in Parts |-> none]
    BY DEF Init
  <2> HIDE DEF none
  <2>3. (\A p \in Parts : bookStores[p] = none) /\ bookStores \in [Parts -> Seq(Nat)]
    BY <2>1, <2>2
  <2>4. QED
    BY <2>1, <2>3 DEF none
<1>6. TypeOK
  <2>1. \A p \in Parts : Len(bookStores[p]) > 0
    BY <1>5
  <2>2. /\ stop \in BOOLEAN /\ wpc = "begin" /\ packet = 1 /\ rpc = "call" /\ attempt = 0
        /\ s1 = 0 /\ copied = 0 /\ snap \in BookView /\ view = FirstView
    BY DEF Init, BookView
  <2>3. packet \in 1..(Packets + 1) /\ attempt \in 0..Attempts /\ copied \in 0..(Depth + 1)
    BY <2>2, Places
  <2>4. QED
    BY <1>1, <1>4, <1>5, <2>1, <2>2, <2>3 DEF TypeOK, BookView
<1>7. SeqNow = 0 /\ \A p \in Parts : BookNow(p) = 0
  BY <1>4, <1>5 DEF SeqNow, BookNow
<1>8. WriterInv
  BY <1>7, BookAfterNone DEF Init, WriterInv, Written
<1>9. ReaderInv
  BY DEF Init, ReaderInv
<1>10. QED
  BY <1>6, <1>8, <1>9 DEF IInv

\* What a store to seq_ does.
LEMMA SeqStoreStep ==
  ASSUME TypeOK, seqStores' = Append(seqStores, SeqStore), UNCHANGED readerVars
  PROVE  /\ seqStores' \in Seq(SeqRecord) /\ Len(seqStores') > 0
         /\ SeqNow' = SeqNow + 1
         /\ ReaderInv => ReaderInv'
<1>1. SeqStore \in SeqRecord /\ SeqStore.val = SeqNow + 1
  <2> DEFINE written == [p \in Parts |-> Len(bookStores[p])]
  <2>1. written \in BookView
    BY BookTypes DEF BookView
  <2>2. SeqStore = [val |-> SeqNow + 1, book |-> written]
    BY DEF SeqStore, SeqNow
  <2> HIDE DEF written
  <2>3. QED
    BY <2>1, <2>2, SeqTypes DEF SeqRecord
<1>2. /\ seqStores' \in Seq(SeqRecord) /\ Len(seqStores') = Len(seqStores) + 1
      /\ seqStores'[Len(seqStores) + 1] = SeqStore
  BY <1>1, AppendProperties DEF TypeOK
<1>3. SeqNow' = SeqNow + 1 /\ Len(seqStores') > 0
  BY <1>1, <1>2, SeqTypes DEF SeqNow
<1>4. ReaderInv => ReaderInv'
  BY <1>3, SeqTypes, ScalarTypes DEF ReaderInv, readerVars
<1>5. QED
  BY <1>2, <1>3, <1>4

LEMMA StoreOddStep ==
  ASSUME IInv, StoreOdd
  PROVE  IInv'
<1>1. TypeOK /\ WriterInv /\ (InOrder => ReaderInv)
  BY DEF IInv
<1>2. /\ wpc = "begin" /\ wpc' = "level" /\ packet <= Packets
      /\ seqStores' = Append(seqStores, SeqStore)
      /\ UNCHANGED <<bookStores, stop, packet, readerVars>>
  BY DEF StoreOdd
<1>3. /\ seqStores' \in Seq(SeqRecord) /\ Len(seqStores') > 0
      /\ SeqNow' = SeqNow + 1
      /\ ReaderInv => ReaderInv'
  BY <1>1, <1>2, SeqStoreStep
<1>4. TypeOK'
  BY <1>1, <1>2, <1>3 DEF TypeOK, readerVars
<1>5. WriterInv'
  <2>1. \A p \in Parts : BookNow(p)' = BookNow(p) /\ Written(p)' = Written(p)
    BY <1>2 DEF BookNow, Written
  <2>2. SeqNow = 2 * (packet - 1) /\ SeqNow' = 2 * (packet - 1) + 1
    BY <1>1, <1>2, <1>3, ScalarTypes DEF WriterInv
  <2>3. \A p \in Parts : ~Written(p)
    BY <1>2 DEF Written
  <2>4. QED
    BY <1>1, <1>2, <2>1, <2>2, <2>3 DEF WriterInv, BookAfter
<1>6. QED
  BY <1>1, <1>3, <1>4, <1>5 DEF IInv

\* What a store to part p of the book does.
LEMMA BookStoreStep ==
  ASSUME TypeOK, NEW p \in Parts, NEW k \in Nat,
         bookStores' = [bookStores EXCEPT ![p] = Append(@, k)]
  PROVE  /\ bookStores' \in [Parts -> Seq(Nat)] /\ \A q \in Parts : Len(bookStores'[q]) > 0
         /\ BookNow(p)' = k
         /\ \A q \in Parts : q # p => BookNow(q)' = BookNow(q)
<1>1. /\ bookStores[p] \in Seq(Nat) /\ Len(bookStores[p]) \in Nat
      /\ bookStores'[p] = Append(bookStores[p], k)
      /\ \A q \in Parts : q # p => bookStores'[q] = bookStores[q]
  BY BookTypes DEF TypeOK
<1>2. /\ bookStores'[p] \in Seq(Nat) /\ Len(bookStores'[p]) = Len(bookStores[p]) + 1
      /\ bookStores'[p][Len(bookStores[p]) + 1] = k
  BY <1>1, AppendProperties
<1>3. bookStores' \in [Parts -> Seq(Nat)] /\ \A q \in Parts : Len(bookStores'[q]) > 0
  <2>1. \A q \in Parts : bookStores'[q] \in Seq(Nat) /\ Len(bookStores'[q]) > 0
    BY <1>1, <1>2, BookTypes
  <2>2. bookStores' = [q \in Parts |-> bookStores'[q]]
    BY DEF TypeOK
  <2>3. QED
    BY <2>1, <2>2
<1>4. QED
  BY <1>1, <1>2, <1>3 DEF BookNow

\* A step of main that leaves seq_ alone does not bother the reader.
LEMMA ReaderKept ==
  ASSUME ReaderInv, UNCHANGED <<readerVars, seqStores>>
  PROVE  ReaderInv'
BY DEF ReaderInv, readerVars, SeqNow, BookAfter

LEMMA WriteLevelStep ==
  ASSUME IInv, WriteLevel
  PROVE  IInv'
<1>1. TypeOK /\ WriterInv /\ (InOrder => ReaderInv)
  BY DEF IInv
<1>2. /\ wpc = "level" /\ wpc' = "count"
      /\ bookStores' = [bookStores EXCEPT ![LevelOf(packet)] = Append(@, packet)]
      /\ UNCHANGED <<seqStores, stop, packet, readerVars>>
  BY DEF WriteLevel
<1>3. PICK level \in Parts : level = LevelOf(packet) /\ level # BookSeq /\ packet \in Nat \ {0}
  BY <1>1, Places, ScalarTypes
<1>4. /\ bookStores' \in [Parts -> Seq(Nat)] /\ \A q \in Parts : Len(bookStores'[q]) > 0
      /\ BookNow(level)' = packet
      /\ \A q \in Parts : q # level => BookNow(q)' = BookNow(q)
  BY <1>1, <1>2, <1>3, BookStoreStep
<1>5. TypeOK'
  BY <1>1, <1>2, <1>4 DEF TypeOK, readerVars
<1>6. WriterInv'
  <2>1. ASSUME NEW q \in Parts
        PROVE  BookNow(q)' = BookAfter(IF Written(q)' THEN packet ELSE packet - 1)[q]
    <3>1. BookNow(q) = BookAfter(packet - 1)[q]
      BY <1>1, <1>2 DEF WriterInv, Written
    <3>2. Written(q)' <=> q # BookSeq
      BY <1>2 DEF Written
    <3>3. /\ q = level => BookAfter(packet)[q] = packet
          /\ q # BookSeq /\ q # level => BookAfter(packet)[q] = BookAfter(packet - 1)[q]
      BY <1>3, BookAfterOne
    <3>4. CASE q = BookSeq
      BY <1>3, <1>4, <3>1, <3>2, <3>4
    <3>5. CASE q = level
      BY <1>3, <1>4, <3>2, <3>3, <3>5
    <3>6. CASE q # BookSeq /\ q # level
      BY <1>4, <3>1, <3>2, <3>3, <3>6
    <3>7. QED
      BY <3>4, <3>5, <3>6
  <2>2. SeqNow' = 2 * (packet' - 1) + 1 /\ packet' <= Packets
    BY <1>1, <1>2 DEF WriterInv, SeqNow
  <2>3. QED
    BY <1>2, <2>1, <2>2 DEF WriterInv, BookAfter
<1>7. QED
  BY <1>1, <1>2, <1>5, <1>6, ReaderKept DEF IInv

LEMMA WriteSeqStep ==
  ASSUME IInv, WriteSeq
  PROVE  IInv'
<1>1. TypeOK /\ WriterInv /\ (InOrder => ReaderInv)
  BY DEF IInv
<1>2. /\ wpc = "count" /\ wpc' = "end"
      /\ bookStores' = [bookStores EXCEPT ![BookSeq] = Append(@, packet)]
      /\ UNCHANGED <<seqStores, stop, packet, readerVars>>
  BY DEF WriteSeq
<1>3. BookSeq \in Parts /\ packet \in Nat \ {0}
  BY <1>1, Places, ScalarTypes
<1>4. /\ bookStores' \in [Parts -> Seq(Nat)] /\ \A q \in Parts : Len(bookStores'[q]) > 0
      /\ BookNow(BookSeq)' = packet
      /\ \A q \in Parts : q # BookSeq => BookNow(q)' = BookNow(q)
  BY <1>1, <1>2, <1>3, BookStoreStep
<1>5. TypeOK'
  BY <1>1, <1>2, <1>4 DEF TypeOK, readerVars
<1>6. WriterInv'
  <2>1. ASSUME NEW q \in Parts
        PROVE  BookNow(q)' = BookAfter(packet)[q]
    <3>1. q # BookSeq => BookNow(q) = BookAfter(packet)[q]
      BY <1>1, <1>2 DEF WriterInv, Written
    <3>2. q = BookSeq => BookAfter(packet)[q] = packet
      BY <1>3, BookAfterOne
    <3>3. QED
      BY <1>4, <3>1, <3>2
  <2>2. SeqNow' = 2 * (packet' - 1) + 1 /\ packet' <= Packets
    BY <1>1, <1>2 DEF WriterInv, SeqNow
  <2>3. \A q \in Parts : Written(q)'
    BY <1>2 DEF Written
  <2>4. QED
    BY <1>2, <2>1, <2>2, <2>3 DEF WriterInv, BookAfter
<1>7. QED
  BY <1>1, <1>2, <1>5, <1>6, ReaderKept DEF IInv

LEMMA StoreEvenStep ==
  ASSUME IInv, StoreEven
  PROVE  IInv'
<1>1. TypeOK /\ WriterInv /\ (InOrder => ReaderInv)
  BY DEF IInv
<1>2. /\ wpc = "end" /\ wpc' = "begin" /\ packet' = packet + 1
      /\ seqStores' = Append(seqStores, SeqStore)
      /\ UNCHANGED <<bookStores, stop, readerVars>>
  BY DEF StoreEven
<1>3. /\ seqStores' \in Seq(SeqRecord) /\ Len(seqStores') > 0
      /\ SeqNow' = SeqNow + 1
      /\ ReaderInv => ReaderInv'
  BY <1>1, <1>2, SeqStoreStep
<1>4. SeqNow = 2 * (packet - 1) + 1 /\ packet <= Packets /\ packet \in Nat \ {0}
  BY <1>1, <1>2, ScalarTypes DEF WriterInv
<1>5. TypeOK'
  <2>1. packet' \in 1..(Packets + 1)
    BY <1>2, <1>4, Places
  <2>2. QED
    BY <1>1, <1>2, <1>3, <2>1 DEF TypeOK, readerVars
<1>6. WriterInv'
  <2>1. \A p \in Parts : BookNow(p)' = BookAfter(packet)[p] /\ ~Written(p)'
    <3>1. \A p \in Parts : BookNow(p) = BookAfter(packet)[p]
      BY <1>1, <1>2 DEF WriterInv, Written
    <3>2. QED
      BY <1>2, <3>1 DEF BookNow, Written
  <2>2. packet = packet' - 1 /\ SeqNow' = 2 * (packet' - 1)
    BY <1>2, <1>3, <1>4
  <2>3. \A p \in Parts : BookNow(p)' = BookAfter(packet' - 1)[p]
    BY <2>1, <2>2
  <2>4. \A p \in Parts : BookNow(p)' = BookAfter(IF Written(p)' THEN packet' ELSE packet' - 1)[p]
    BY <2>1, <2>3
  <2>5. QED
    BY <1>2, <2>2, <2>4 DEF WriterInv, BookAfter
<1>7. QED
  BY <1>1, <1>3, <1>5, <1>6 DEF IInv

\* A step of the reader leaves main alone.
LEMMA WriterKept ==
  ASSUME WriterInv, UNCHANGED writerVars
  PROVE  WriterInv' /\ SeqNow' = SeqNow
BY DEF WriterInv, writerVars, SeqNow, BookNow, Written, BookAfter

\* What an acquire load of seq_ returns.
LEMMA AcquireStep ==
  ASSUME TypeOK, NEW t \in 1..Len(seqStores), AcquireSeq(t)
  PROVE  /\ view' \in View
         /\ seqStores[t].val \in Nat
         /\ InOrder => seqStores[t].val = SeqNow
<1>1. /\ view' = [seq |-> t, book |-> Later(view.book, seqStores[t].book)]
      /\ t \in Loadable(view.seq, Len(seqStores))
  BY DEF AcquireSeq
<1>2. /\ t \in Nat /\ seqStores[t].val \in Nat
      /\ seqStores[t].book \in BookView /\ view.book \in BookView
  BY SeqTypes, ScalarTypes
<1>3. ASSUME NEW a \in BookView, NEW b \in BookView PROVE Later(a, b) \in BookView
  BY <1>3 DEF Later, BookView
<1>4. view' \in View
  BY <1>1, <1>2, <1>3 DEF View
<1>5. InOrder => t = Len(seqStores)
  BY <1>1 DEF Loadable
<1>6. QED
  BY <1>2, <1>4, <1>5 DEF SeqNow

\* read_snapshot() is not at work on a book.
LEMMA Outside == rpc' \in {"call", "done"} => ReaderInv'
BY DEF ReaderInv

LEMMA ReaderEndsStep ==
  ASSUME IInv, ReaderEnds
  PROVE  IInv'
<1>1. TypeOK' /\ rpc' = "done"
  BY DEF IInv, ReaderEnds, TypeOK, writerVars
<1>2. QED
  BY <1>1, Outside, WriterKept DEF IInv, ReaderEnds

LEMMA ReturnedStep ==
  ASSUME IInv, Returned
  PROVE  IInv'
<1>1. TypeOK /\ rpc' = "call" /\ attempt' = 0 /\ 0 \in 0..Attempts
      /\ UNCHANGED <<s1, copied, snap, view, seqStores, bookStores, stop, wpc, packet>>
  BY Places DEF IInv, Returned, writerVars
<1>2. TypeOK'
  BY <1>1 DEF TypeOK
<1>3. QED
  BY <1>1, <1>2, Outside, WriterKept DEF IInv, Returned

LEMMA FirstBusyStep ==
  ASSUME IInv, NEW t \in 1..Len(seqStores), FirstBusy(t)
  PROVE  IInv'
<1>1. /\ TypeOK /\ rpc = "call" /\ attempt < Attempts /\ AcquireSeq(t)
      /\ s1' = seqStores[t].val /\ attempt' = attempt + 1
      /\ UNCHANGED <<rpc, copied, snap, seqStores, bookStores, stop, wpc, packet>>
  BY DEF IInv, FirstBusy, Trying, AttemptSpent, writerVars
<1>2. view' \in View /\ s1' \in Nat /\ attempt' \in 0..Attempts
  <2>1. attempt + 1 \in 0..Attempts
    BY <1>1, NextAttempt
  <2>2. QED
    BY <1>1, <2>1, AcquireStep
<1>3. TypeOK'
  BY <1>1, <1>2 DEF TypeOK
<1>4. QED
  BY <1>1, <1>3, Outside, WriterKept DEF IInv, FirstBusy

LEMMA FirstEvenStep ==
  ASSUME IInv, NEW t \in 1..Len(seqStores), FirstEven(t)
  PROVE  IInv'
<1>1. /\ TypeOK /\ WriterInv /\ AcquireSeq(t) /\ seqStores[t].val % 2 = 0 /\ attempt < Attempts
      /\ s1' = seqStores[t].val /\ copied' = 0 /\ rpc' = "copy"
      /\ UNCHANGED <<attempt, snap, seqStores, bookStores, stop, wpc, packet>>
  BY DEF IInv, FirstEven, Trying, writerVars
<1>2. /\ view' \in View /\ s1' \in Nat /\ copied' \in 0..(Depth + 1)
      /\ InOrder => s1' = SeqNow
  BY <1>1, AcquireStep, Places
<1>3. TypeOK'
  BY <1>1, <1>2 DEF TypeOK
<1>4. WriterInv' /\ SeqNow' = SeqNow
  BY <1>1, WriterKept DEF FirstEven
<1>5. InOrder => ReaderInv'
  <2>1. \A p \in Parts : ~(p < 0)
    BY Places
  <2>2. SeqNow <= SeqNow
    BY <1>1, SeqTypes
  <2>3. QED
    BY <1>1, <1>2, <1>4, <2>1, <2>2 DEF ReaderInv
<1>6. QED
  BY <1>3, <1>4, <1>5 DEF IInv

\* As long as seq_ is what the first load returned, a part of the book is as it was
\* announced.
LEMMA PartIsAnnounced ==
  ASSUME TypeOK, WriterInv, s1 % 2 = 0, SeqNow = s1, NEW p \in Parts
  PROVE  BookNow(p) = BookAfter(s1 \div 2)[p]
<1>1. wpc = "begin" /\ s1 \div 2 = packet - 1
  BY SeqParity
<1>2. ~Written(p)
  BY <1>1 DEF Written
<1>3. QED
  BY <1>1, <1>2 DEF WriterInv

LEMMA CopyPartStep ==
  ASSUME IInv, copied \in Parts, NEW t \in 1..Len(bookStores[copied]), CopyPart(t)
  PROVE  IInv'
<1>1. /\ TypeOK /\ WriterInv /\ rpc = "copy" /\ copied <= Depth
      /\ t \in Loadable(view.book[copied], Len(bookStores[copied]))
      /\ snap' = [snap EXCEPT ![copied] = bookStores[copied][t]]
      /\ view' = [view EXCEPT !.book[copied] = t]
      /\ copied' = copied + 1
      /\ UNCHANGED <<rpc, attempt, s1, seqStores, bookStores, stop, wpc, packet>>
  BY DEF IInv, CopyPart, writerVars
<1>2. bookStores[copied][t] \in Nat /\ t \in Nat
  BY <1>1, BookTypes
<1>3. /\ snap'[copied] = bookStores[copied][t]
      /\ \A p \in Parts : p # copied => snap'[p] = snap[p]
      /\ snap' \in BookView
  BY <1>1, <1>2, ScalarTypes DEF BookView
<1>4. view' \in View
  <2> DEFINE book == [view.book EXCEPT ![copied] = t]
  <2>1. book \in BookView
    BY <1>1, <1>2, ScalarTypes DEF BookView
  <2>2. view' = [view EXCEPT !.book = book]
    BY <1>1
  <2> HIDE DEF book
  <2>3. QED
    BY <1>1, <2>1, <2>2 DEF TypeOK, View
<1>5. TypeOK'
  <2>1. copied' \in 0..(Depth + 1)
    <3>1. copied \in Nat /\ Depth \in Nat /\ copied <= Depth
      BY <1>1, ScalarTypes, Places
    <3>2. QED
      BY <1>1, <3>1
  <2>2. QED
    BY <1>1, <1>3, <1>4, <2>1 DEF TypeOK, BookView
<1>6. WriterInv' /\ SeqNow' = SeqNow
  BY <1>1, WriterKept DEF CopyPart
<1>7. ASSUME InOrder PROVE ReaderInv'
  <2>1. /\ s1 <= SeqNow /\ s1 % 2 = 0
        /\ SeqNow = s1 => \A p \in Parts : p < copied => snap[p] = BookAfter(s1 \div 2)[p]
    BY <1>1, <1>7 DEF IInv, ReaderInv
  <2>2. SeqNow = s1 => snap'[copied] = BookAfter(s1 \div 2)[copied]
    <3>1. snap'[copied] = BookNow(copied)
      BY <1>1, <1>3, <1>7 DEF Loadable, BookNow
    <3>2. QED
      BY <1>1, <2>1, <3>1, PartIsAnnounced
  <2>3. \A p \in Parts : p < copied' => p < copied \/ p = copied
    BY <1>1, Places
  <2>4. SeqNow = s1 => \A p \in Parts : p < copied' => snap'[p] = BookAfter(s1 \div 2)[p]
    <3> SUFFICES ASSUME SeqNow = s1, NEW p \in Parts, p < copied'
                 PROVE  snap'[p] = BookAfter(s1 \div 2)[p]
      OBVIOUS
    <3>1. CASE p = copied
      BY <2>2, <3>1
    <3>2. CASE p # copied
      BY <1>3, <2>1, <2>3, <3>2
    <3>3. QED
      BY <3>1, <3>2
  <2>5. QED
    BY <1>1, <1>6, <2>1, <2>4 DEF ReaderInv, BookAfter
<1>8. QED
  BY <1>5, <1>6, <1>7 DEF IInv

LEMMA SecondEqualStep ==
  ASSUME IInv, NEW t \in 1..Len(seqStores), SecondEqual(t)
  PROVE  IInv'
<1>1. /\ TypeOK /\ WriterInv /\ rpc = "copy" /\ copied > Depth /\ AcquireSeq(t)
      /\ s1 = seqStores[t].val /\ rpc' = "taken"
      /\ UNCHANGED <<attempt, s1, copied, snap, seqStores, bookStores, stop, wpc, packet>>
  BY DEF IInv, SecondEqual, Accepts, writerVars
<1>2. view' \in View /\ (InOrder => s1 = SeqNow)
  BY <1>1, AcquireStep
<1>3. TypeOK'
  BY <1>1, <1>2 DEF TypeOK
<1>4. WriterInv' /\ SeqNow' = SeqNow
  BY <1>1, WriterKept DEF SecondEqual
<1>5. ASSUME InOrder PROVE ReaderInv'
  <2>1. /\ s1 <= SeqNow /\ s1 % 2 = 0
        /\ \A p \in Parts : p < copied => snap[p] = BookAfter(s1 \div 2)[p]
    BY <1>1, <1>2, <1>5 DEF IInv, ReaderInv
  <2>2. \A p \in Parts : p < copied
    BY <1>1, ScalarTypes, Places
  <2>3. snap = BookAfter(s1 \div 2)
    <3>1. \A p \in Parts : snap[p] = BookAfter(s1 \div 2)[p]
      BY <2>1, <2>2
    <3>2. snap = [p \in Parts |-> snap[p]]
      BY <1>1, ScalarTypes DEF BookView
    <3>3. BookAfter(s1 \div 2) = [p \in Parts |-> BookAfter(s1 \div 2)[p]]
      BY DEF BookAfter
    <3>4. QED
      BY <3>1, <3>2, <3>3
  <2>4. s1 \div 2 \in 0..Packets
    BY <1>1, <1>2, <1>5, SeqParity
  <2>5. QED
    BY <1>1, <1>4, <2>1, <2>3, <2>4 DEF ReaderInv, BookAfter
<1>6. QED
  BY <1>3, <1>4, <1>5 DEF IInv

LEMMA SecondDiffersStep ==
  ASSUME IInv, NEW t \in 1..Len(seqStores), SecondDiffers(t)
  PROVE  IInv'
<1>1. /\ TypeOK /\ AcquireSeq(t) /\ attempt' = attempt + 1 /\ rpc' = "call" /\ attempt < Attempts
      /\ UNCHANGED <<s1, copied, snap, seqStores, bookStores, stop, wpc, packet>>
  BY DEF IInv, SecondDiffers, AttemptSpent, writerVars, TypeOK
<1>2. view' \in View /\ attempt' \in 0..Attempts
  <2>1. attempt + 1 \in 0..Attempts
    BY <1>1, NextAttempt
  <2>2. QED
    BY <1>1, <2>1, AcquireStep
<1>3. TypeOK'
  BY <1>1, <1>2 DEF TypeOK
<1>4. QED
  BY <1>1, <1>3, Outside, WriterKept DEF IInv, SecondDiffers

LEMMA StopStep ==
  ASSUME IInv, Stop
  PROVE  IInv'
<1>1. /\ TypeOK /\ WriterInv /\ (InOrder => ReaderInv) /\ stop' = TRUE
      /\ UNCHANGED <<seqStores, bookStores, wpc, packet, readerVars>>
  BY DEF IInv, Stop
<1>2. TypeOK'
  BY <1>1 DEF TypeOK, readerVars
<1>3. WriterInv'
  BY <1>1 DEF WriterInv, SeqNow, BookNow, Written, BookAfter
<1>4. QED
  BY <1>1, <1>2, <1>3, ReaderKept DEF IInv

LEMMA NextInvariant == IInv /\ [Next]_vars => IInv'
<1> SUFFICES ASSUME IInv, [Next]_vars PROVE IInv'
  OBVIOUS
<1>1. CASE Writer
  BY <1>1, StoreOddStep, WriteLevelStep, WriteSeqStep, StoreEvenStep, StopStep DEF Writer
<1>2. CASE Reader
  <2>1. CASE ReaderEnds \/ Returned
    BY <2>1, ReaderEndsStep, ReturnedStep
  <2>2. ASSUME NEW t \in 1..Len(seqStores),
               FirstBusy(t) \/ FirstEven(t) \/ SecondEqual(t) \/ SecondDiffers(t)
        PROVE  IInv'
    BY <2>2, FirstBusyStep, FirstEvenStep, SecondEqualStep, SecondDiffersStep
  <2>3. ASSUME copied \in Parts, NEW t \in 1..Len(bookStores[copied]), CopyPart(t)
        PROVE  IInv'
    BY <2>3, CopyPartStep
  <2>4. QED
    BY <1>2, <2>1, <2>2, <2>3 DEF Reader
<1>3. CASE UNCHANGED vars
  <2>1. UNCHANGED writerVars /\ UNCHANGED readerVars /\ TypeOK
    BY <1>3 DEF vars, IInv
  <2>2. TypeOK'
    BY <2>1 DEF TypeOK, writerVars, readerVars
  <2>3. QED
    BY <2>1, <2>2, WriterKept, ReaderKept DEF IInv, writerVars
<1>4. QED
  BY <1>1, <1>2, <1>3 DEF Next, Joined

LEMMA Invariant == Spec => []IInv
BY InitInvariant, NextInvariant, PTL DEF Spec

-----------------------------------------------------------------------------
(* What the invariant means for the program.                                 *)

\* Whatever is reordered, read_snapshot() never goes beyond its attempts, a level
\* beyond the book, or a copy beyond its end.
THEOREM TypeCorrect == Spec => []TypeOK
<1>1. IInv => TypeOK
  BY DEF IInv
<1>2. QED
  BY <1>1, Invariant, PTL

\* If loads and stores are made in the order of the program, a snapshot returned
\* with true is the book that the first load of seq_ announced.
THEOREM AnnouncedInOrder == InOrder => (Spec => []SnapshotAnnounced)
<1> SUFFICES ASSUME InOrder PROVE Spec => []SnapshotAnnounced
  OBVIOUS
<1>1. IInv => SnapshotAnnounced
  BY DEF IInv, ReaderInv, SnapshotAnnounced
<1>2. QED
  BY <1>1, Invariant, PTL

\* ... and so it is the book between two packets: the fences missing in FeedD are
\* all that it takes to break the promise.
THEOREM ConsistentInOrder == InOrder => (Spec => []SnapshotConsistent)
<1> SUFFICES ASSUME InOrder PROVE Spec => []SnapshotConsistent
  OBVIOUS
<1>1. IInv => SnapshotConsistent
  BY DEF IInv, ReaderInv, SnapshotConsistent
<1>2. QED
  BY <1>1, Invariant, PTL

=============================================================================
