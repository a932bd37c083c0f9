---------------------------- MODULE SeqLockProofs ----------------------------
(***************************************************************************)
(* Proofs about SeqLock, for every number of words, readers, reads and     *)
(* updates.                                                                *)
(***************************************************************************)
EXTENDS SeqLock, SequenceTheorems, TLAPS

-----------------------------------------------------------------------------
(* The operators of the model.                                               *)

LEMMA Constants ==
  /\ NumWords \in Nat /\ NumWords >= 1 /\ 1 \in Words
  /\ Words = 1..NumWords
  /\ Reads \in Nat /\ MaxWrites \in Nat
BY ConstantsAssumption DEF Words

LEMMA ViewRange ==
  ASSUME NEW u \in View
  PROVE  /\ u.seq \in Nat /\ u.seq >= 1
         /\ \A i \in Words : u.words[i] \in Nat /\ u.words[i] >= 1
BY DEF View

\* A thread that learns knows no less of either.
LEMMA JoinFacts ==
  ASSUME NEW u \in View, NEW w \in View
  PROVE  /\ Join(u, w) \in View
         /\ Join(u, w).seq = MaxOf(u.seq, w.seq)
         /\ \A i \in Words : Join(u, w).words[i] = MaxOf(u.words[i], w.words[i])
<1>1. /\ u.seq \in Nat \ {0} /\ w.seq \in Nat \ {0}
      /\ \A i \in Words : u.words[i] \in Nat \ {0} /\ w.words[i] \in Nat \ {0}
  BY DEF View
<1>2. /\ MaxOf(u.seq, w.seq) \in Nat \ {0}
      /\ \A i \in Words : MaxOf(u.words[i], w.words[i]) \in Nat \ {0}
  BY <1>1 DEF MaxOf
<1>3. [i \in Words |-> MaxOf(u.words[i], w.words[i])] \in [Words -> Nat \ {0}]
  BY <1>2
<1>4. QED
  BY <1>2, <1>3 DEF Join, View

LEMMA MaxFacts ==
  ASSUME NEW a \in Nat, NEW b \in Nat
  PROVE  /\ MaxOf(a, b) \in Nat /\ MaxOf(a, b) >= a /\ MaxOf(a, b) >= b
         /\ MaxOf(a, b) = a \/ MaxOf(a, b) = b
BY DEF MaxOf

\* A view of an atomic moves to the store that was loaded.
LEMMA MoveFacts ==
  ASSUME NEW u \in View, NEW t \in Nat \ {0}
  PROVE  /\ [u EXCEPT !.seq = t] \in View
         /\ [u EXCEPT !.seq = t].seq = t
         /\ [u EXCEPT !.seq = t].words = u.words
BY DEF View

LEMMA MoveWordFacts ==
  ASSUME NEW u \in View, NEW t \in Nat \ {0}, NEW j \in Words
  PROVE  /\ [u EXCEPT !.words[j] = t] \in View
         /\ [u EXCEPT !.words[j] = t].seq = u.seq
         /\ [u EXCEPT !.words[j] = t].words = [u.words EXCEPT ![j] = t]
BY DEF View

LEMMA Lengths ==
  ASSUME TypeOK
  PROVE  /\ Len(seqStores) \in Nat /\ Len(seqStores) >= 1
         /\ \A i \in Words : Len(wordStores[i]) \in Nat /\ Len(wordStores[i]) >= 1
<1>1. Len(seqStores) \in Nat /\ Len(seqStores) >= 1
  BY DEF TypeOK
<1>2. ASSUME NEW i \in Words
      PROVE  Len(wordStores[i]) \in Nat /\ Len(wordStores[i]) >= 1
  <2>1. wordStores[i] \in Seq(Store) /\ wordStores[i] # << >>
    BY DEF TypeOK
  <2>2. QED
    BY <2>1
<1>3. QED
  BY <1>1, <1>2

LEMMA StoreRange ==
  ASSUME NEW x \in Store
  PROVE  x.val \in Nat /\ x.view \in View
BY DEF Store

LEMMA SeqStoreRange ==
  ASSUME TypeOK, NEW t \in 1..Len(seqStores)
  PROVE  /\ t \in Nat \ {0} /\ seqStores[t] \in Store
         /\ seqStores[t].val \in Nat /\ seqStores[t].view \in View
<1>1. seqStores[t] \in Store
  BY DEF TypeOK
<1>2. QED
  BY <1>1, StoreRange

LEMMA WordStoreRange ==
  ASSUME TypeOK, NEW i \in Words, NEW t \in 1..Len(wordStores[i])
  PROVE  /\ t \in Nat \ {0} /\ wordStores[i][t] \in Store
         /\ wordStores[i][t].val \in Nat /\ wordStores[i][t].view \in View
<1>1. wordStores[i] \in Seq(Store)
  BY DEF TypeOK
<1>2. wordStores[i][t] \in Store
  BY <1>1
<1>3. QED
  BY <1>2, StoreRange

LEMMA WriterViewRange ==
  ASSUME TypeOK
  PROVE  /\ WriterView \in View
         /\ WriterView.seq = Len(seqStores)
         /\ \A i \in Words : WriterView.words[i] = Len(wordStores[i])
<1>1. Len(seqStores) \in Nat \ {0} /\ \A i \in Words : Len(wordStores[i]) \in Nat \ {0}
  BY Lengths
<1>2. [i \in Words |-> Len(wordStores[i])] \in [Words -> Nat \ {0}]
  BY <1>1
<1>3. QED
  BY <1>1, <1>2 DEF WriterView, View

LEMMA AppendStore ==
  ASSUME NEW s \in Seq(Store), NEW x \in Store
  PROVE  /\ Append(s, x) \in Seq(Store) /\ Append(s, x) # << >>
         /\ Len(Append(s, x)) = Len(s) + 1
         /\ Append(s, x)[Len(s) + 1] = x
         /\ \A k \in 1..Len(s) : Append(s, x)[k] = s[k]
BY AppendProperties

\* The last value of seq_ is the number of stores that changed it.
LEMMA SeqValue ==
  ASSUME TypeOK, SeqInv
  PROVE  Seq_ \in Nat /\ Seq_ + 1 = Len(seqStores)
<1>1. Len(seqStores) \in 1..Len(seqStores)
  BY Lengths
<1>2. seqStores[Len(seqStores)].val = Len(seqStores) - 1
  BY <1>1 DEF SeqInv
<1>3. QED
  BY <1>2, Lengths DEF Seq_

-----------------------------------------------------------------------------
(* The inductive invariant.                                                  *)

LEMMA InitInvariant == Init => IInv
<1> SUFFICES ASSUME Init PROVE IInv
  OBVIOUS
<1>1. NoView \in View /\ NoView.seq = 1 /\ \A i \in Words : NoView.words[i] = 1
  BY DEF NoView, View
<1>2. InitialStore \in Store /\ InitialStore.val = 0 /\ InitialStore.view = NoView
  BY <1>1 DEF InitialStore, Store
<1>3. /\ <<InitialStore>> \in Seq(Store) /\ <<InitialStore>> # << >>
      /\ Len(<<InitialStore>>) = 1 /\ <<InitialStore>>[1] = InitialStore
  BY <1>2
<1>4. \A t \in 1..Len(<<InitialStore>>) : t = 1
  BY <1>3
<1>5. TypeOK
  <2>1. /\ seqStores \in Seq(Store) /\ seqStores # << >>
        /\ wordStores \in [Words -> Seq(Store)] /\ \A i \in Words : wordStores[i] # << >>
    BY <1>3 DEF Init
  <2>2. stop \in BOOLEAN /\ torn \in Nat /\ wpc \in {"idle", "words", "done"}
    BY DEF Init
  <2>3. word \in 1..(NumWords + 1) /\ v \in Nat \ {0} /\ fenced \in View
    BY <1>1, Constants DEF Init
  <2>4. /\ rpc \in [Readers -> {"first", "words"}] /\ s1 \in [Readers -> Nat]
        /\ pos \in [Readers -> 1..(NumWords + 1)] /\ out \in [Readers -> [Words -> Nat]]
    BY Constants DEF Init
  <2>5. /\ view \in [Readers -> View] /\ loaded \in [Readers -> View]
        /\ p \in [Readers -> [Words -> Nat]] /\ reads \in [Readers -> Nat]
    BY <1>1 DEF Init
  <2>6. QED
    BY <2>1, <2>2, <2>3, <2>4, <2>5 DEF TypeOK
<1>6. SeqInv
  BY <1>1, <1>2, <1>3, <1>4 DEF Init, SeqInv, begun, finished
<1>7. WordsInv
  BY <1>1, <1>2, <1>3, <1>4 DEF Init, WordsInv
<1>8. FenceInv
  BY <1>1, <1>3 DEF Init, FenceInv
<1>9. ReaderInv
  BY <1>1, <1>3, Constants DEF Init, ReaderInv, ViewsOf
<1>10. NoTornRead
  BY DEF Init, NoTornRead
<1>11. QED
  BY <1>5, <1>6, <1>7, <1>8, <1>9, <1>10 DEF IInv

-----------------------------------------------------------------------------
(* The writer's steps.                                                       *)

\* The types of what a writer's step leaves alone, and of what it changes.
LEMMA WriterTypes ==
  ASSUME TypeOK, UNCHANGED readerVars,
         seqStores' \in Seq(Store), seqStores' # << >>,
         wordStores' \in [Words -> Seq(Store)], \A i \in Words : wordStores'[i] # << >>,
         wpc' \in {"idle", "words", "done"}, word' \in 1..(NumWords + 1),
         v' \in Nat \ {0}, fenced' \in View
  PROVE  TypeOK'
BY DEF TypeOK, readerVars

\* More stores take nothing from what the readers know.
LEMMA WriterKeepsReaders ==
  ASSUME TypeOK, ReaderInv, NoTornRead, UNCHANGED readerVars,
         Len(seqStores') \in Nat, Len(seqStores') >= Len(seqStores)
  PROVE  ReaderInv' /\ NoTornRead'
<1>1. ASSUME NEW r \in Readers, ViewsOf(r)
      PROVE  ViewsOf(r)'
  <2>1. loaded[r].seq \in Nat /\ Len(seqStores) \in Nat
    BY ViewRange, Lengths DEF TypeOK
  <2>2. QED
    BY <1>1, <2>1 DEF ViewsOf, readerVars
<1>2. ASSUME NEW r \in Readers, ReadOf(r)
      PROVE  ReadOf(r)'
  BY <1>2 DEF ReadOf, readerVars
<1>3. ReaderInv'
  BY <1>1, <1>2 DEF ReaderInv, readerVars
<1>4. QED
  BY <1>3 DEF NoTornRead, readerVars

LEMMA StoreOddStep ==
  ASSUME IInv, StoreOdd
  PROVE  IInv'
<1> DEFINE n == Len(seqStores)
           x == Stored(Seq_ + 1)
<1>1. TypeOK /\ SeqInv /\ WordsInv /\ FenceInv /\ ReaderInv /\ NoTornRead
  BY DEF IInv
<1>2. /\ wpc = "idle" /\ wpc' = "words" /\ word' = 1 /\ v' = v
      /\ seqStores' = Append(seqStores, x) /\ wordStores' = wordStores
      /\ fenced' = [WriterView EXCEPT !.seq = n + 1] /\ UNCHANGED readerVars
  BY DEF StoreOdd, FenceAfterOdd
<1>3. n \in Nat /\ n >= 1 /\ v \in Nat /\ v >= 1 /\ n = 2 * v - 1
  BY <1>1, <1>2, Lengths DEF TypeOK, SeqInv, begun, finished
<1>4. x \in Store /\ x.val = n /\ x.view = fenced
  <2>1. Seq_ + 1 = n /\ n \in Nat /\ fenced \in View
    BY <1>1, <1>3, SeqValue DEF TypeOK
  <2>2. QED
    BY <2>1 DEF Stored, Store
<1>5. /\ seqStores' \in Seq(Store) /\ seqStores' # << >>
      /\ Len(seqStores') = n + 1 /\ seqStores'[n + 1] = x
      /\ \A k \in 1..n : seqStores'[k] = seqStores[k]
  BY <1>1, <1>2, <1>4, AppendStore DEF TypeOK
<1>6. /\ fenced' \in View /\ fenced'.seq = n + 1
      /\ \A i \in Words : fenced'.words[i] = Len(wordStores[i])
  <2>1. WriterView \in View /\ \A i \in Words : WriterView.words[i] = Len(wordStores[i])
    BY <1>1, WriterViewRange
  <2>2. n + 1 \in Nat \ {0}
    BY <1>3
  <2>3. /\ [WriterView EXCEPT !.seq = n + 1] \in View
        /\ [WriterView EXCEPT !.seq = n + 1].seq = n + 1
        /\ [WriterView EXCEPT !.seq = n + 1].words = WriterView.words
    BY <2>1, <2>2, MoveFacts
  <2>4. QED
    BY <1>2, <2>1, <2>3
<1>7. TypeOK'
  <2>1. word' \in 1..(NumWords + 1) /\ wpc' \in {"idle", "words", "done"} /\ v' \in Nat \ {0}
    BY <1>2, <1>3, Constants
  <2>2. wordStores' \in [Words -> Seq(Store)] /\ \A i \in Words : wordStores'[i] # << >>
    BY <1>1, <1>2 DEF TypeOK
  <2>3. QED
    BY <1>1, <1>2, <1>5, <1>6, <2>1, <2>2, WriterTypes
<1>8. SeqInv'
  <2>1. Len(seqStores') = (begun + finished + 1)'
    BY <1>2, <1>3, <1>5 DEF begun, finished
  <2>2. ASSUME NEW t \in 1..Len(seqStores')
        PROVE  /\ seqStores'[t].val = t - 1 /\ seqStores'[t].view.seq <= t
               /\ \A i \in Words : 2 * seqStores'[t].view.words[i] >= t
    <3>1. CASE t = n + 1
      <4>1. fenced.seq \in Nat /\ fenced.seq <= n /\ \A i \in Words : fenced.words[i] = v
        BY <1>1, ViewRange DEF TypeOK, FenceInv
      <4>2. QED
        BY <1>3, <1>4, <1>5, <3>1, <4>1
    <3>2. CASE t \in 1..n
      BY <1>1, <1>5, <3>2 DEF SeqInv
    <3>3. QED
      BY <1>3, <1>5, <3>1, <3>2
  <2>3. QED
    BY <2>1, <2>2 DEF SeqInv
<1>9. \A i \in Words : Len(wordStores[i]) = v
  BY <1>1, <1>2 DEF WordsInv
<1>10. WordsInv'
  <2>1. ASSUME NEW i \in Words, NEW t \in 1..Len(wordStores[i])
        PROVE  wordStores[i][t].view.seq <= n + 1
    <3>1. wordStores[i][t].view.seq \in Nat /\ wordStores[i][t].view.seq <= n
      BY <1>1, WordStoreRange, ViewRange DEF WordsInv
    <3>2. QED
      BY <1>3, <3>1
  <2>2. ASSUME NEW i \in Words
        PROVE  Len(wordStores[i]) = IF wpc' = "words" /\ i < word' THEN v' + 1 ELSE v'
    BY <1>2, <1>9, Constants
  <2>3. QED
    BY <1>1, <1>2, <1>5, <2>1, <2>2 DEF WordsInv
<1>11. FenceInv'
  BY <1>2, <1>3, <1>5, <1>6, <1>9 DEF FenceInv
<1>12. ReaderInv' /\ NoTornRead'
  BY <1>1, <1>2, <1>3, <1>5, WriterKeepsReaders
<1>13. QED
  BY <1>7, <1>8, <1>10, <1>11, <1>12 DEF IInv

LEMMA StoreWordStep ==
  ASSUME IInv, StoreWord
  PROVE  IInv'
<1> DEFINE n == Len(seqStores)
           x == Stored(v)
           old == wordStores[word]
<1>1. TypeOK /\ SeqInv /\ WordsInv /\ FenceInv /\ ReaderInv /\ NoTornRead
  BY DEF IInv
<1>2. /\ wpc = "words" /\ wpc' = wpc /\ word' = word + 1 /\ v' = v
      /\ seqStores' = seqStores /\ fenced' = fenced /\ UNCHANGED readerVars
      /\ wordStores' = [wordStores EXCEPT ![word] = Append(old, x)]
  BY DEF StoreWord
<1>3. word \in Words /\ word \in Nat /\ word + 1 \in 1..(NumWords + 1)
  BY <1>1, Constants DEF StoreWord, TypeOK
<1>4. n \in Nat /\ v \in Nat /\ v >= 1 /\ n = 2 * v /\ fenced.seq = n
  BY <1>1, <1>2, Lengths DEF TypeOK, SeqInv, FenceInv, begun, finished
<1>5. x \in Store /\ x.val = v /\ x.view = fenced
  BY <1>1 DEF Stored, Store, TypeOK
<1>6. old \in Seq(Store) /\ Len(old) = v
  BY <1>1, <1>3 DEF TypeOK, WordsInv
<1>7. /\ Append(old, x) \in Seq(Store) /\ Append(old, x) # << >>
      /\ Len(Append(old, x)) = v + 1 /\ Append(old, x)[v + 1] = x
      /\ \A k \in 1..v : Append(old, x)[k] = old[k]
  BY <1>5, <1>6, AppendStore
<1>8. /\ wordStores' \in [Words -> Seq(Store)] /\ wordStores'[word] = Append(old, x)
      /\ \A i \in Words : i # word => wordStores'[i] = wordStores[i]
  BY <1>1, <1>2, <1>3, <1>7 DEF TypeOK
<1>9. TypeOK'
  <2>1. \A i \in Words : wordStores'[i] # << >>
    BY <1>1, <1>7, <1>8 DEF TypeOK
  <2>2. QED
    BY <1>1, <1>2, <1>3, <1>8, <2>1, WriterTypes DEF TypeOK
<1>10. SeqInv' /\ FenceInv'
  BY <1>1, <1>2 DEF SeqInv, FenceInv, begun, finished
<1>11. WordsInv'
  <2>1. ASSUME NEW i \in Words, NEW t \in 1..Len(wordStores'[i])
        PROVE  /\ wordStores'[i][t].val = t - 1 /\ wordStores'[i][t].view.seq <= n
               /\ t > 1 => wordStores'[i][t].view.seq >= 2 * t - 2
    <3>1. CASE i = word /\ t = v + 1
      BY <1>4, <1>5, <1>7, <1>8, <3>1
    <3>2. CASE i = word /\ t \in 1..v
      <4>1. wordStores'[i][t] = wordStores[i][t] /\ t \in 1..Len(wordStores[i])
        BY <1>6, <1>7, <1>8, <3>2
      <4>2. QED
        BY <1>1, <4>1 DEF WordsInv
    <3>3. CASE i # word
      BY <1>1, <1>8, <3>3 DEF WordsInv
    <3>4. QED
      BY <1>4, <1>7, <1>8, <3>1, <3>2, <3>3
  <2>2. ASSUME NEW i \in Words
        PROVE  Len(wordStores'[i]) = IF wpc' = "words" /\ i < word' THEN v' + 1 ELSE v'
    <3>1. i \in Nat
      BY Constants
    <3>2. CASE i = word
      BY <1>2, <1>3, <1>7, <1>8, <3>2
    <3>3. CASE i # word
      BY <1>1, <1>2, <1>3, <1>8, <3>1, <3>3 DEF WordsInv
    <3>4. QED
      BY <3>2, <3>3
  <2>3. QED
    BY <1>2, <2>1, <2>2 DEF WordsInv
<1>12. ReaderInv' /\ NoTornRead'
  BY <1>1, <1>2, <1>4, WriterKeepsReaders
<1>13. QED
  BY <1>9, <1>10, <1>11, <1>12 DEF IInv

LEMMA StoreEvenStep ==
  ASSUME IInv, StoreEven
  PROVE  IInv'
<1> DEFINE n == Len(seqStores)
<1>1. TypeOK /\ SeqInv /\ WordsInv /\ FenceInv /\ ReaderInv /\ NoTornRead
  BY DEF IInv
<1>2. /\ wpc = "words" /\ word > NumWords /\ wpc' = "idle" /\ v' = v + 1 /\ word' = word
      /\ seqStores' = Append(seqStores, EvenStore) /\ wordStores' = wordStores
      /\ fenced' = WriterView /\ UNCHANGED readerVars
  BY DEF StoreEven
<1>3. n \in Nat /\ n >= 1 /\ v \in Nat /\ v >= 1 /\ n = 2 * v
  BY <1>1, <1>2, Lengths DEF TypeOK, SeqInv, begun, finished
<1>4. \A i \in Words : Len(wordStores[i]) = v + 1
  BY <1>1, <1>2, Constants DEF WordsInv, TypeOK
<1>5. WriterView \in View /\ WriterView.seq = n /\ \A i \in Words : WriterView.words[i] = v + 1
  BY <1>1, <1>4, WriterViewRange
<1>6. EvenStore \in Store /\ EvenStore.val = n /\ EvenStore.view = WriterView
  BY <1>1, <1>5, SeqValue DEF EvenStore, Store
<1>7. /\ seqStores' \in Seq(Store) /\ seqStores' # << >>
      /\ Len(seqStores') = n + 1 /\ seqStores'[n + 1] = EvenStore
      /\ \A k \in 1..n : seqStores'[k] = seqStores[k]
  <2>1. seqStores \in Seq(Store) /\ EvenStore \in Store
    BY <1>1, <1>6 DEF TypeOK
  <2>2. QED
    BY <1>2, <2>1, AppendStore
<1>8. TypeOK'
  <2>1. wpc' = "idle" /\ v' \in Nat \ {0}
    BY <1>2, <1>3
  <2>2. /\ wordStores' \in [Words -> Seq(Store)]
        /\ \A i \in Words : wordStores'[i] # << >>
        /\ word' \in 1..(NumWords + 1)
    BY <1>1, <1>2 DEF TypeOK
  <2>3. fenced' \in View
    BY <1>2, <1>5
  <2>4. QED
    BY <1>1, <1>2, <1>7, <2>1, <2>2, <2>3, WriterTypes
<1>9. SeqInv'
  <2>1. Len(seqStores') = (begun + finished + 1)'
    BY <1>2, <1>3, <1>7 DEF begun, finished
  <2>2. ASSUME NEW t \in 1..Len(seqStores')
        PROVE  /\ seqStores'[t].val = t - 1 /\ seqStores'[t].view.seq <= t
               /\ \A i \in Words : 2 * seqStores'[t].view.words[i] >= t
    <3>1. CASE t = n + 1
      BY <1>3, <1>5, <1>6, <1>7, <3>1
    <3>2. CASE t \in 1..n
      BY <1>1, <1>7, <3>2 DEF SeqInv
    <3>3. QED
      BY <1>3, <1>7, <3>1, <3>2
  <2>3. QED
    BY <2>1, <2>2 DEF SeqInv
<1>10. WordsInv'
  <2>1. ASSUME NEW i \in Words, NEW t \in 1..Len(wordStores[i])
        PROVE  wordStores[i][t].view.seq <= n + 1
    <3>1. wordStores[i][t].view.seq \in Nat /\ wordStores[i][t].view.seq <= n
      BY <1>1, WordStoreRange, ViewRange DEF WordsInv
    <3>2. QED
      BY <1>3, <3>1
  <2>2. ASSUME NEW i \in Words
        PROVE  Len(wordStores[i]) = IF wpc' = "words" /\ i < word' THEN v' + 1 ELSE v'
    BY <1>2, <1>4
  <2>3. QED
    BY <1>1, <1>2, <1>7, <2>1, <2>2 DEF WordsInv
<1>11. FenceInv'
  BY <1>2, <1>3, <1>5, <1>7 DEF FenceInv
<1>12. ReaderInv' /\ NoTornRead'
  BY <1>1, <1>2, <1>3, <1>7, WriterKeepsReaders
<1>13. QED
  BY <1>8, <1>9, <1>10, <1>11, <1>12 DEF IInv

LEMMA WriterDoneStep ==
  ASSUME IInv, WriterDone
  PROVE  IInv'
<1>1. TypeOK /\ SeqInv /\ WordsInv /\ FenceInv /\ ReaderInv /\ NoTornRead
  BY DEF IInv
<1>2. /\ wpc = "idle" /\ wpc' = "done"
      /\ UNCHANGED <<seqStores, wordStores, word, v, fenced, readerVars>>
  BY DEF WriterDone
<1>3. TypeOK'
  BY <1>1, <1>2, WriterTypes DEF TypeOK
<1>4. SeqInv'
  BY <1>1, <1>2 DEF SeqInv, begun, finished
<1>5. WordsInv'
  BY <1>1, <1>2 DEF WordsInv
<1>6. FenceInv'
  BY <1>1, <1>2 DEF FenceInv
<1>7. ReaderInv' /\ NoTornRead'
  BY <1>1, <1>2, Lengths, WriterKeepsReaders
<1>8. QED
  BY <1>3, <1>4, <1>5, <1>6, <1>7 DEF IInv

-----------------------------------------------------------------------------
(* The readers' steps.                                                       *)

LEMMA ReaderKeepsWriter ==
  ASSUME SeqInv, WordsInv, FenceInv, UNCHANGED writerVars
  PROVE  SeqInv' /\ WordsInv' /\ FenceInv'
<1>1. UNCHANGED <<seqStores, wordStores, wpc, word, v, fenced>>
  BY DEF writerVars
<1>2. SeqInv'
  BY <1>1 DEF SeqInv, begun, finished
<1>3. WordsInv'
  BY <1>1 DEF WordsInv
<1>4. FenceInv'
  BY <1>1 DEF FenceInv
<1>5. QED
  BY <1>2, <1>3, <1>4

\* The types of what a reader's step leaves alone, and of what it changes.
LEMMA ReaderTypes ==
  ASSUME TypeOK, UNCHANGED writerVars, stop' \in BOOLEAN, torn' \in Nat,
         rpc' \in [Readers -> {"first", "words"}], s1' \in [Readers -> Nat],
         pos' \in [Readers -> 1..(NumWords + 1)], out' \in [Readers -> [Words -> Nat]],
         view' \in [Readers -> View], loaded' \in [Readers -> View],
         p' \in [Readers -> [Words -> Nat]], reads' \in [Readers -> Nat]
  PROVE  TypeOK'
BY DEF TypeOK, writerVars

LEMMA ReaderRanges ==
  ASSUME TypeOK, NEW r \in Readers
  PROVE  /\ rpc[r] \in {"first", "words"} /\ s1[r] \in Nat
         /\ pos[r] \in Nat /\ 1 <= pos[r] /\ pos[r] <= NumWords + 1
         /\ reads[r] \in Nat /\ view[r] \in View /\ loaded[r] \in View
         /\ out[r] \in [Words -> Nat] /\ p[r] \in [Words -> Nat]
         /\ view[r].seq \in Nat /\ view[r].seq >= 1 /\ loaded[r].seq \in Nat
         /\ \A i \in Words : view[r].words[i] \in Nat /\ view[r].words[i] >= 1
<1>1. view[r] \in View /\ loaded[r] \in View
  BY DEF TypeOK
<1>2. /\ rpc[r] \in {"first", "words"} /\ s1[r] \in Nat /\ reads[r] \in Nat
      /\ out[r] \in [Words -> Nat] /\ p[r] \in [Words -> Nat]
  BY DEF TypeOK
<1>3. pos[r] \in Nat /\ 1 <= pos[r] /\ pos[r] <= NumWords + 1
  <2>1. pos[r] \in 1..(NumWords + 1)
    BY DEF TypeOK
  <2>2. QED
    BY <2>1, Constants
<1>4. /\ view[r].seq \in Nat /\ view[r].seq >= 1 /\ loaded[r].seq \in Nat
      /\ \A i \in Words : view[r].words[i] \in Nat /\ view[r].words[i] >= 1
  BY <1>1, ViewRange
<1>5. QED
  BY <1>1, <1>2, <1>3, <1>4

\* Another reader is where it was.
LEMMA OtherReader ==
  ASSUME TypeOK, ReaderInv, UNCHANGED writerVars, NEW r \in Readers, NEW q \in Readers,
         rpc'[q] = rpc[q], s1'[q] = s1[q], pos'[q] = pos[q], out'[q] = out[q],
         view'[q] = view[q], loaded'[q] = loaded[q], p'[q] = p[q]
  PROVE  ViewsOf(q)' /\ (rpc'[q] = "words" => ReadOf(q)')
BY DEF ReaderInv, ViewsOf, ReadOf, writerVars

\* What loading seq_ first tells a reader: the store it loaded is its view.
LEMMA FirstLoaded ==
  ASSUME IInv, NEW r \in Readers, NEW t \in 1..Len(seqStores), LoadFirst(r, t)
  PROVE  /\ view' \in [Readers -> View] /\ loaded' \in [Readers -> View]
         /\ s1' \in [Readers -> Nat] /\ s1'[r] = t - 1
         /\ view'[r].seq = t /\ view[r].seq <= t
         /\ loaded'[r].seq \in Nat
         /\ t <= loaded'[r].seq /\ loaded'[r].seq <= Len(seqStores)
         /\ \A i \in Words : view'[r].words[i] \in Nat /\ 2 * view'[r].words[i] >= t
         /\ \A q \in Readers : q # r =>
              view'[q] = view[q] /\ loaded'[q] = loaded[q] /\ s1'[q] = s1[q]
<1> DEFINE x == seqStores[t]
           moved == [view[r] EXCEPT !.seq = t]
           learnt == Join(moved, x.view)
           kept == Join(loaded[r], learnt)
<1>1. TypeOK /\ SeqInv /\ WordsInv /\ FenceInv /\ ReaderInv /\ NoTornRead
  BY DEF IInv
<1>2. /\ view' = [view EXCEPT ![r] = learnt] /\ loaded' = [loaded EXCEPT ![r] = kept]
      /\ s1' = [s1 EXCEPT ![r] = x.val] /\ t \in view[r].seq..Len(seqStores)
  BY DEF LoadFirst
<1>3. t \in Nat \ {0} /\ x.val \in Nat /\ x.view \in View
  BY <1>1, SeqStoreRange
<1>4. /\ x.val = t - 1 /\ x.view.seq <= t
      /\ \A i \in Words : 2 * x.view.words[i] >= t
  BY <1>1 DEF SeqInv
<1>5. view[r] \in View /\ loaded[r] \in View /\ view[r].seq \in Nat /\ loaded[r].seq \in Nat
  BY <1>1, ReaderRanges
<1>6. moved \in View /\ moved.seq = t
  BY <1>3, <1>5, MoveFacts
<1> HIDE DEF x, moved
<1>7. /\ learnt \in View /\ learnt.seq = MaxOf(t, x.view.seq)
      /\ \A i \in Words : learnt.words[i] = MaxOf(moved.words[i], x.view.words[i])
  BY <1>3, <1>6, JoinFacts
<1>8. x.view.seq \in Nat /\ \A i \in Words : x.view.words[i] \in Nat /\ moved.words[i] \in Nat
  BY <1>3, <1>6, ViewRange
<1> HIDE DEF learnt
<1>9. learnt.seq = t
  <2> DEFINE y == x.view.seq
  <2>1. y \in Nat /\ y <= t /\ learnt.seq = MaxOf(t, y)
    BY <1>4, <1>7, <1>8
  <2> HIDE DEF y
  <2>2. QED
    BY <1>3, <2>1 DEF MaxOf
<1>10. ASSUME NEW i \in Words
       PROVE  learnt.words[i] \in Nat /\ 2 * learnt.words[i] >= t
  <2> DEFINE a == moved.words[i]
             b == x.view.words[i]
  <2>1. a \in Nat /\ b \in Nat /\ 2 * b >= t /\ learnt.words[i] = MaxOf(a, b)
    BY <1>4, <1>7, <1>8
  <2> HIDE DEF a, b
  <2>2. MaxOf(a, b) \in Nat /\ MaxOf(a, b) >= b
    BY <2>1, MaxFacts
  <2>3. QED
    BY <1>3, <2>1, <2>2
<1>11. kept \in View /\ kept.seq = MaxOf(loaded[r].seq, t)
  BY <1>5, <1>7, <1>9, JoinFacts
<1>12. Len(seqStores) \in Nat /\ loaded[r].seq <= Len(seqStores) /\ view[r].seq <= t
       /\ t <= Len(seqStores)
  BY <1>1, <1>2, Lengths DEF ReaderInv, ViewsOf
<1> HIDE DEF kept
<1>13. kept.seq \in Nat /\ kept.seq >= t /\ kept.seq <= Len(seqStores)
  BY <1>3, <1>5, <1>11, <1>12, MaxFacts
<1>14. view'[r] = learnt /\ loaded'[r] = kept /\ s1'[r] = t - 1
  BY <1>1, <1>2, <1>4 DEF TypeOK
<1>15. /\ view' \in [Readers -> View] /\ loaded' \in [Readers -> View] /\ s1' \in [Readers -> Nat]
  BY <1>1, <1>2, <1>3, <1>7, <1>11 DEF TypeOK
<1>16. QED
  BY <1>1, <1>2, <1>9, <1>10, <1>12, <1>13, <1>14, <1>15 DEF TypeOK

LEMMA LoadFirstStep ==
  ASSUME IInv, NEW r \in Readers, NEW t \in 1..Len(seqStores),
         FirstBusy(r, t) \/ FirstEven(r, t)
  PROVE  IInv'
<1>1. TypeOK /\ SeqInv /\ WordsInv /\ FenceInv /\ ReaderInv /\ NoTornRead
  BY DEF IInv
<1>2. LoadFirst(r, t)
  BY DEF FirstBusy, FirstEven
<1>3. rpc[r] = "first" /\ UNCHANGED <<out, p, reads, torn, stop, writerVars>>
  BY <1>2 DEF LoadFirst
<1>4. /\ rpc' = rpc /\ pos' = pos
      \/ /\ rpc' = [rpc EXCEPT ![r] = "words"] /\ pos' = [pos EXCEPT ![r] = 1]
         /\ ~Odd(seqStores[t].val)
  BY DEF FirstBusy, FirstEven
<1>5. TypeOK'
  <2>1. /\ rpc' \in [Readers -> {"first", "words"}] /\ pos' \in [Readers -> 1..(NumWords + 1)]
    <3>1. 1 \in 1..(NumWords + 1)
      BY Constants
    <3>2. QED
      BY <1>1, <1>4, <3>1 DEF TypeOK
  <2>2. /\ view' \in [Readers -> View] /\ loaded' \in [Readers -> View] /\ s1' \in [Readers -> Nat]
    BY <1>2, FirstLoaded
  <2>3. /\ stop' \in BOOLEAN /\ torn' \in Nat /\ out' \in [Readers -> [Words -> Nat]]
        /\ p' \in [Readers -> [Words -> Nat]] /\ reads' \in [Readers -> Nat]
    BY <1>1, <1>3 DEF TypeOK
  <2>4. QED
    BY <1>1, <1>3, <2>1, <2>2, <2>3, ReaderTypes
<1>6. ViewsOf(r)'
  <2>1. /\ view'[r].seq = t /\ view[r].seq <= t /\ t <= loaded'[r].seq
        /\ loaded'[r].seq <= Len(seqStores)
    BY <1>2, FirstLoaded
  <2>2. /\ view[r].seq \in Nat /\ t \in Nat
        /\ \A i \in Words : p[r][i] \in Nat /\ p[r][i] = p[r][1] /\ view[r].seq > 2 * p[r][i]
    BY <1>1, ReaderRanges DEF ReaderInv, ViewsOf
  <2>3. \A i \in Words : t > 2 * p[r][i]
    BY <2>1, <2>2
  <2>4. seqStores' = seqStores /\ p' = p
    BY <1>3 DEF writerVars
  <2>5. QED
    BY <2>1, <2>2, <2>3, <2>4 DEF ViewsOf
<1>7. rpc'[r] = "words" => ReadOf(r)'
  <2>1. SUFFICES ASSUME rpc'[r] = "words" PROVE ReadOf(r)'
    OBVIOUS
  <2>2. pos'[r] = 1 /\ ~Odd(seqStores[t].val)
    BY <1>1, <1>3, <1>4, <2>1 DEF TypeOK
  <2>3. seqStores[t].val = t - 1
    BY <1>1 DEF SeqInv
  <2>4. ~Odd(t - 1) /\ t \in Nat
    BY <2>2, <2>3
  <2>5. /\ s1'[r] = t - 1 /\ view'[r].seq = t
        /\ \A i \in Words : view'[r].words[i] \in Nat /\ 2 * view'[r].words[i] >= t
    BY <1>2, FirstLoaded
  <2>6. \A i \in Words : 2 * view'[r].words[i] >= (t - 1) + 2
    BY <2>4, <2>5 DEF Odd
  <2>7. \A i \in Words : ~(i < 1)
    BY Constants
  <2>8. QED
    BY <2>2, <2>4, <2>5, <2>6, <2>7 DEF ReadOf
<1>8. ReaderInv'
  <2>1. ASSUME NEW q \in Readers, q # r
        PROVE  ViewsOf(q)' /\ (rpc'[q] = "words" => ReadOf(q)')
    <3>1. rpc'[q] = rpc[q] /\ pos'[q] = pos[q]
      BY <1>1, <1>4, <2>1 DEF TypeOK
    <3>2. view'[q] = view[q] /\ loaded'[q] = loaded[q] /\ s1'[q] = s1[q]
      BY <1>2, <2>1, FirstLoaded
    <3>3. out'[q] = out[q] /\ p'[q] = p[q] /\ UNCHANGED writerVars
      BY <1>3
    <3>4. QED
      BY <1>1, <3>1, <3>2, <3>3, OtherReader
  <2>2. QED
    BY <1>6, <1>7, <2>1 DEF ReaderInv
<1>9. QED
  BY <1>1, <1>3, <1>5, <1>8, ReaderKeepsWriter DEF IInv, NoTornRead

\* What loading the next word tells a reader: a store of its view or a later
\* one, whose carried view it has loaded.
LEMMA WordLoaded ==
  ASSUME IInv, NEW r \in Readers, NEW i \in Words, NEW t \in 1..Len(wordStores[i]),
         pos[r] = i, LoadWord(r, t)
  PROVE  /\ out' \in [Readers -> [Words -> Nat]] /\ out'[r][i] = t - 1
         /\ \A j \in Words : j # i => out'[r][j] = out[r][j]
         /\ view' \in [Readers -> View] /\ loaded' \in [Readers -> View]
         /\ t \in Nat /\ view[r].words[i] <= t
         /\ view'[r].seq = view[r].seq /\ view'[r].words = [view[r].words EXCEPT ![i] = t]
         /\ loaded'[r].seq \in Nat /\ loaded[r].seq <= loaded'[r].seq
         /\ loaded'[r].seq <= Len(seqStores)
         /\ t > 1 => loaded'[r].seq >= 2 * t - 2
         /\ \A q \in Readers : q # r =>
              view'[q] = view[q] /\ loaded'[q] = loaded[q] /\ out'[q] = out[q]
<1> DEFINE x == wordStores[i][t]
           moved == [view[r] EXCEPT !.words[i] = t]
           held == [loaded[r] EXCEPT !.words[i] = t]
           kept == Join(held, x.view)
<1>1. TypeOK /\ SeqInv /\ WordsInv /\ FenceInv /\ ReaderInv /\ NoTornRead
  BY DEF IInv
<1>2. /\ out' = [out EXCEPT ![r][i] = x.val] /\ t \in view[r].words[i]..Len(wordStores[i])
      /\ view' = [view EXCEPT ![r].words[i] = t]
      /\ loaded' = [loaded EXCEPT ![r] = Join([@ EXCEPT !.words[i] = t], x.view)]
  BY DEF LoadWord
<1>3. t \in Nat \ {0} /\ x.val \in Nat /\ x.view \in View
  BY <1>1, WordStoreRange
<1>4. /\ x.val = t - 1 /\ x.view.seq <= Len(seqStores)
      /\ t > 1 => x.view.seq >= 2 * t - 2
  BY <1>1 DEF WordsInv
<1>5. view[r] \in View /\ loaded[r] \in View /\ view[r].words[i] \in Nat /\ out[r] \in [Words -> Nat]
  BY <1>1, ReaderRanges
<1>6. moved \in View /\ moved.seq = view[r].seq /\ moved.words = [view[r].words EXCEPT ![i] = t]
  <2>1. view[r] \in View /\ t \in Nat \ {0}
    BY <1>3, <1>5
  <2>2. QED
    BY <2>1, MoveWordFacts
<1>7. held \in View /\ held.seq = loaded[r].seq
  BY <1>3, <1>5, MoveWordFacts
<1>8. view' = [view EXCEPT ![r] = moved] /\ loaded' = [loaded EXCEPT ![r] = kept]
  BY <1>1, <1>2 DEF TypeOK
<1> HIDE DEF x, moved, held
<1>9. kept \in View /\ kept.seq = MaxOf(held.seq, x.view.seq)
  BY <1>3, <1>7, JoinFacts
<1> HIDE DEF kept
<1>10. /\ view' \in [Readers -> View] /\ loaded' \in [Readers -> View]
       /\ view'[r] = moved /\ loaded'[r] = kept
       /\ \A q \in Readers : q # r => view'[q] = view[q] /\ loaded'[q] = loaded[q]
  BY <1>1, <1>6, <1>8, <1>9 DEF TypeOK
<1>11. /\ out' = [out EXCEPT ![r] = [out[r] EXCEPT ![i] = t - 1]]
       /\ [out[r] EXCEPT ![i] = t - 1] \in [Words -> Nat]
  BY <1>1, <1>2, <1>3, <1>4, <1>5 DEF TypeOK
<1>12. /\ out' \in [Readers -> [Words -> Nat]] /\ out'[r][i] = t - 1
       /\ \A j \in Words : j # i => out'[r][j] = out[r][j]
       /\ \A q \in Readers : q # r => out'[q] = out[q]
  BY <1>1, <1>5, <1>11 DEF TypeOK
<1>13. /\ kept.seq \in Nat /\ loaded[r].seq <= kept.seq /\ kept.seq <= Len(seqStores)
       /\ t > 1 => kept.seq >= 2 * t - 2
  <2> DEFINE a == loaded[r].seq
             b == x.view.seq
             n == Len(seqStores)
  <2>1. /\ a \in Nat /\ b \in Nat /\ n \in Nat /\ a <= n /\ b <= n
        /\ t > 1 => b >= 2 * t - 2
        /\ kept.seq = MaxOf(a, b)
    BY <1>1, <1>3, <1>4, <1>5, <1>7, <1>9, ViewRange, Lengths DEF ReaderInv, ViewsOf
  <2> HIDE DEF a, b, n
  <2>2. /\ kept.seq \in Nat /\ a <= kept.seq /\ kept.seq <= n
        /\ t > 1 => kept.seq >= 2 * t - 2
    BY <1>3, <2>1 DEF MaxOf
  <2>3. QED
    BY <2>2 DEF a, n
<1>14. t \in Nat /\ view[r].words[i] <= t
  BY <1>2, <1>3, <1>5
<1>15. QED
  BY <1>6, <1>10, <1>12, <1>13, <1>14

LEMMA LoadWordStep ==
  ASSUME IInv, NEW r \in Readers, NEW i \in Words, NEW t \in 1..Len(wordStores[i]),
         pos[r] = i, LoadWord(r, t)
  PROVE  IInv'
<1>1. TypeOK /\ SeqInv /\ WordsInv /\ FenceInv /\ ReaderInv /\ NoTornRead
  BY DEF IInv
<1>2. /\ rpc[r] = "words" /\ UNCHANGED <<rpc, s1, p, reads, torn, stop, writerVars>>
      /\ pos' = [pos EXCEPT ![r] = i + 1]
  BY DEF LoadWord
<1>3. i \in Nat /\ i + 1 \in 1..(NumWords + 1)
  BY Constants
<1>4. TypeOK'
  <2>1. pos' \in [Readers -> 1..(NumWords + 1)]
    BY <1>1, <1>2, <1>3 DEF TypeOK
  <2>2. /\ view' \in [Readers -> View] /\ loaded' \in [Readers -> View]
        /\ out' \in [Readers -> [Words -> Nat]]
    BY WordLoaded
  <2>3. /\ rpc' \in [Readers -> {"first", "words"}] /\ s1' \in [Readers -> Nat]
        /\ stop' \in BOOLEAN /\ torn' \in Nat
        /\ p' \in [Readers -> [Words -> Nat]] /\ reads' \in [Readers -> Nat]
    BY <1>1, <1>2 DEF TypeOK
  <2>4. QED
    BY <1>1, <1>2, <2>1, <2>2, <2>3, ReaderTypes
<1>5. /\ loaded[r].seq \in Nat /\ view[r].seq \in Nat /\ s1[r] \in Nat
      /\ \A j \in Words : view[r].words[j] \in Nat /\ out[r][j] \in Nat
  BY <1>1, ReaderRanges
<1>6. ViewsOf(r) /\ ReadOf(r)
  BY <1>1, <1>2 DEF ReaderInv
<1>7. /\ view'[r].seq = view[r].seq /\ view'[r].words = [view[r].words EXCEPT ![i] = t]
      /\ loaded'[r].seq \in Nat /\ loaded[r].seq <= loaded'[r].seq
      /\ loaded'[r].seq <= Len(seqStores)
      /\ t \in Nat /\ view[r].words[i] <= t /\ (t > 1 => loaded'[r].seq >= 2 * t - 2)
      /\ out'[r][i] = t - 1 /\ \A j \in Words : j # i => out'[r][j] = out[r][j]
  BY WordLoaded
<1>8. ViewsOf(r)'
  <2>1. view'[r].seq <= loaded'[r].seq
    BY <1>5, <1>6, <1>7 DEF ViewsOf
  <2>2. p' = p /\ seqStores' = seqStores
    BY <1>2 DEF writerVars
  <2>3. QED
    BY <1>6, <1>7, <2>1, <2>2 DEF ViewsOf
<1>9. ReadOf(r)'
  <2>1. s1'[r] = s1[r] /\ pos'[r] = i + 1
    BY <1>1, <1>2 DEF TypeOK
  <2>2. ~Odd(s1[r]) /\ view'[r].seq = s1[r] + 1
    BY <1>6, <1>7 DEF ReadOf
  <2>3. ASSUME NEW j \in Words
        PROVE  2 * view'[r].words[j] >= s1[r] + 2
    <3>1. 2 * view[r].words[j] >= s1[r] + 2 /\ 2 * view[r].words[i] >= s1[r] + 2
      BY <1>6 DEF ReadOf
    <3>2. view[r].words \in [Words -> Nat \ {0}]
      BY <1>1, ReaderRanges DEF View
    <3>3. view'[r].words[j] = IF j = i THEN t ELSE view[r].words[j]
      BY <1>7, <3>2
    <3>4. QED
      BY <1>5, <1>7, <3>1, <3>3
  <2>4. ASSUME NEW j \in Words, j < i + 1
        PROVE  /\ 2 * out'[r][j] >= s1[r]
               /\ 2 * out'[r][j] > s1[r] => loaded'[r].seq >= 2 * out'[r][j]
    <3>1. CASE j = i
      <4>1. 2 * view[r].words[i] >= s1[r] + 2
        BY <1>6 DEF ReadOf
      <4>2. 2 * t >= s1[r] + 2
        BY <1>5, <1>7, <4>1
      <4>3. QED
        BY <1>5, <1>7, <3>1, <4>2
    <3>2. CASE j # i
      <4>1. j \in Nat /\ j < pos[r]
        BY <1>3, <2>4, <3>2, Constants
      <4>2. /\ 2 * out[r][j] >= s1[r]
            /\ 2 * out[r][j] > s1[r] => loaded[r].seq >= 2 * out[r][j]
        BY <1>6, <4>1 DEF ReadOf
      <4>3. out'[r][j] = out[r][j]
        BY <1>7, <3>2
      <4>4. QED
        BY <1>5, <1>7, <4>2, <4>3
    <3>3. QED
      BY <3>1, <3>2
  <2>5. QED
    BY <2>1, <2>2, <2>3, <2>4 DEF ReadOf
<1>10. ReaderInv'
  <2>1. ASSUME NEW q \in Readers, q # r
        PROVE  ViewsOf(q)' /\ (rpc'[q] = "words" => ReadOf(q)')
    <3>1. rpc'[q] = rpc[q] /\ s1'[q] = s1[q] /\ p'[q] = p[q] /\ pos'[q] = pos[q]
      BY <1>1, <1>2, <2>1 DEF TypeOK
    <3>2. view'[q] = view[q] /\ loaded'[q] = loaded[q] /\ out'[q] = out[q]
      BY <2>1, WordLoaded
    <3>3. QED
      BY <1>1, <1>2, <3>1, <3>2, OtherReader
  <2>2. QED
    BY <1>8, <1>9, <2>1 DEF ReaderInv
<1>11. QED
  BY <1>1, <1>2, <1>4, <1>10, ReaderKeepsWriter DEF IInv, NoTornRead

\* Loading seq_ again, after the acquire fence.
LEMMA SecondLoaded ==
  ASSUME IInv, NEW r \in Readers, NEW t \in 1..Len(seqStores), LoadSecond(r, t)
  PROVE  /\ view' \in [Readers -> View] /\ loaded' \in [Readers -> View]
         /\ t \in Nat /\ loaded[r].seq <= t /\ view'[r].seq = t
         /\ t <= loaded'[r].seq /\ loaded'[r].seq <= Len(seqStores)
         /\ \A q \in Readers : q # r => view'[q] = view[q] /\ loaded'[q] = loaded[q]
<1> DEFINE x == seqStores[t]
           known == [loaded[r] EXCEPT !.seq = t]
           kept == Join(known, x.view)
<1>1. TypeOK /\ SeqInv /\ WordsInv /\ FenceInv /\ ReaderInv /\ NoTornRead
  BY DEF IInv
<1>2. /\ view' = [view EXCEPT ![r] = known] /\ loaded' = [loaded EXCEPT ![r] = kept]
      /\ t \in loaded[r].seq..Len(seqStores)
  BY DEF LoadSecond, Acquired
<1>3. t \in Nat \ {0} /\ x.view \in View /\ x.view.seq <= t
  BY <1>1, SeqStoreRange DEF SeqInv
<1>4. loaded[r] \in View /\ loaded[r].seq \in Nat /\ Len(seqStores) \in Nat
  BY <1>1, ReaderRanges, Lengths
<1>5. known \in View /\ known.seq = t
  BY <1>3, <1>4, MoveFacts
<1>6. x.view.seq \in Nat
  BY <1>3, ViewRange
<1> HIDE DEF x, known
<1>7. kept \in View /\ kept.seq = MaxOf(t, x.view.seq)
  BY <1>3, <1>5, JoinFacts
<1> HIDE DEF kept
<1>8. kept.seq = t
  BY <1>3, <1>6, <1>7 DEF MaxOf
<1>9. loaded[r].seq <= t /\ t <= Len(seqStores)
  BY <1>2, <1>4
<1>10. /\ view' \in [Readers -> View] /\ loaded' \in [Readers -> View]
       /\ view'[r] = known /\ loaded'[r] = kept
       /\ \A q \in Readers : q # r => view'[q] = view[q] /\ loaded'[q] = loaded[q]
  BY <1>1, <1>2, <1>5, <1>7 DEF TypeOK
<1>11. QED
  BY <1>3, <1>5, <1>8, <1>9, <1>10

\* The heart of the seqlock: a snapshot that is accepted is the update that the
\* first load of seq_ announced, in every word.
LEMMA AcceptedIsAnnounced ==
  ASSUME IInv, NEW r \in Readers, NEW t \in 1..Len(seqStores), ReadReturns(r, t)
  PROVE  t = s1[r] + 1 /\ \A i \in Words : 2 * out[r][i] = s1[r]
<1>1. TypeOK /\ SeqInv /\ WordsInv /\ FenceInv /\ ReaderInv /\ NoTornRead
  BY DEF IInv
<1>2. rpc[r] = "words" /\ pos[r] > NumWords /\ s1[r] = seqStores[t].val /\ LoadSecond(r, t)
  BY DEF ReadReturns, LoadSecond, Accepted
<1>3. s1[r] = t - 1 /\ t \in Nat /\ loaded[r].seq <= t
  BY <1>1, <1>2, SecondLoaded DEF SeqInv
<1>4. ReadOf(r)
  BY <1>1, <1>2 DEF ReaderInv
<1>5. loaded[r].seq \in Nat /\ s1[r] \in Nat /\ pos[r] \in Nat /\ out[r] \in [Words -> Nat]
  BY <1>1, ReaderRanges
<1>6. ASSUME NEW i \in Words
      PROVE  2 * out[r][i] = s1[r]
  <2>1. i < pos[r]
    BY <1>2, <1>5, Constants
  <2>2. /\ 2 * out[r][i] >= s1[r]
        /\ 2 * out[r][i] > s1[r] => loaded[r].seq >= 2 * out[r][i]
        /\ ~Odd(s1[r])
    BY <1>4, <2>1 DEF ReadOf
  <2>3. out[r][i] \in Nat
    BY <1>5
  <2>4. 2 * out[r][i] # s1[r] + 1
    <3>1. s1[r] \in Nat /\ ~(s1[r] % 2 = 1)
      BY <1>5, <2>2 DEF Odd
    <3>2. \A a, b \in Nat : 2 * a = b + 1 => b % 2 = 1
      OBVIOUS
    <3>3. QED
      BY <2>3, <3>1, <3>2
  <2>5. QED
    BY <1>3, <1>5, <2>2, <2>3, <2>4
<1>7. QED
  BY <1>3, <1>6

LEMMA LoadSecondStep ==
  ASSUME IInv, NEW r \in Readers, NEW t \in 1..Len(seqStores),
         ReadReturns(r, t) \/ ReadRetries(r, t)
  PROVE  IInv'
<1>1. TypeOK /\ SeqInv /\ WordsInv /\ FenceInv /\ ReaderInv /\ NoTornRead
  BY DEF IInv
<1>2. LoadSecond(r, t)
  BY DEF ReadReturns, ReadRetries
<1>3. /\ rpc' = [rpc EXCEPT ![r] = "first"] /\ UNCHANGED <<s1, pos, out, stop, writerVars>>
  BY <1>2 DEF LoadSecond
<1>4. /\ view' \in [Readers -> View] /\ loaded' \in [Readers -> View]
      /\ t \in Nat /\ loaded[r].seq <= t /\ view'[r].seq = t
      /\ t <= loaded'[r].seq /\ loaded'[r].seq <= Len(seqStores)
      /\ \A q \in Readers : q # r => view'[q] = view[q] /\ loaded'[q] = loaded[q]
  BY <1>2, SecondLoaded
<1>5. /\ loaded[r].seq \in Nat /\ view[r].seq \in Nat /\ s1[r] \in Nat
      /\ out[r] \in [Words -> Nat] /\ p[r] \in [Words -> Nat]
  BY <1>1, ReaderRanges
<1>6. /\ torn' = 0 /\ p' \in [Readers -> [Words -> Nat]] /\ reads' \in [Readers -> Nat]
      /\ \A q \in Readers : q # r => p'[q] = p[q]
      /\ \A i \in Words : p'[r][i] = p'[r][1] /\ t > 2 * p'[r][i]
  <2>1. torn = 0
    BY <1>1 DEF NoTornRead
  <2>2. CASE ReadReturns(r, t)
    <3>1. t = s1[r] + 1 /\ \A i \in Words : 2 * out[r][i] = s1[r]
      BY <2>2, AcceptedIsAnnounced
    <3>2. ASSUME NEW i \in Words
          PROVE  out[r][i] = out[r][1] /\ t > 2 * out[r][i]
      <4>1. out[r][i] \in Nat /\ out[r][1] \in Nat /\ 1 \in Words
        BY <1>5, Constants
      <4>2. 2 * out[r][i] = s1[r] /\ 2 * out[r][1] = s1[r] /\ t = s1[r] + 1
        BY <3>1, <4>1
      <4> HIDE DEF Words
      <4>3. QED
        BY ONLY <1>5, <4>1, <4>2
    <3>3. Consistent(out[r])
      BY <3>2 DEF Consistent
    <3>4. /\ p' = [p EXCEPT ![r] = out[r]] /\ reads' = [reads EXCEPT ![r] = @ + 1] /\ torn' = torn
      BY <2>2, <3>3 DEF ReadReturns
    <3>5. p' \in [Readers -> [Words -> Nat]] /\ reads' \in [Readers -> Nat]
      BY <1>1, <1>5, <3>4 DEF TypeOK
    <3>6. p'[r] = out[r] /\ \A q \in Readers : q # r => p'[q] = p[q]
      BY <1>1, <3>4 DEF TypeOK
    <3>7. QED
      BY <2>1, <3>2, <3>4, <3>5, <3>6
  <2>3. CASE ReadRetries(r, t)
    <3>1. UNCHANGED <<p, reads, torn>>
      BY <2>3 DEF ReadRetries
    <3>2. \A i \in Words : p[r][i] \in Nat /\ p[r][i] = p[r][1] /\ t > 2 * p[r][i]
      <4>1. /\ view[r].seq <= loaded[r].seq
            /\ \A i \in Words : p[r][i] \in Nat /\ p[r][i] = p[r][1] /\ view[r].seq > 2 * p[r][i]
        BY <1>1, <1>5 DEF ReaderInv, ViewsOf
      <4>2. QED
        BY <1>4, <1>5, <4>1
    <3>3. QED
      BY <1>1, <2>1, <3>1, <3>2 DEF TypeOK
  <2>4. QED
    BY <2>2, <2>3
<1>7. TypeOK'
  <2>1. rpc' \in [Readers -> {"first", "words"}] /\ stop' \in BOOLEAN /\ torn' \in Nat
    BY <1>1, <1>3, <1>6 DEF TypeOK
  <2>2. /\ s1' \in [Readers -> Nat] /\ pos' \in [Readers -> 1..(NumWords + 1)]
        /\ out' \in [Readers -> [Words -> Nat]]
    BY <1>1, <1>3 DEF TypeOK
  <2>3. QED
    BY <1>1, <1>3, <1>4, <1>6, <2>1, <2>2, ReaderTypes
<1>8. ViewsOf(r)' /\ rpc'[r] = "first"
  <2>1. rpc'[r] = "first" /\ seqStores' = seqStores
    BY <1>1, <1>3 DEF TypeOK, writerVars
  <2>2. QED
    BY <1>4, <1>6, <2>1 DEF ViewsOf
<1>9. ReaderInv'
  <2>1. ASSUME NEW q \in Readers, q # r
        PROVE  ViewsOf(q)' /\ (rpc'[q] = "words" => ReadOf(q)')
    <3>1. rpc'[q] = rpc[q] /\ s1'[q] = s1[q] /\ out'[q] = out[q] /\ pos'[q] = pos[q]
      BY <1>1, <1>3, <2>1 DEF TypeOK
    <3>2. view'[q] = view[q] /\ loaded'[q] = loaded[q] /\ p'[q] = p[q]
      BY <1>4, <1>6, <2>1
    <3>3. QED
      BY <1>1, <1>3, <3>1, <3>2, OtherReader
  <2>2. QED
    BY <1>8, <2>1 DEF ReaderInv
<1>10. QED
  BY <1>1, <1>3, <1>6, <1>7, <1>9, ReaderKeepsWriter DEF IInv, NoTornRead

\* The end of hammer() changes nothing the invariant is about.
LEMMA StopStep ==
  ASSUME IInv, Stop \/ UNCHANGED vars
  PROVE  IInv'
<1>1. TypeOK /\ SeqInv /\ WordsInv /\ FenceInv /\ ReaderInv /\ NoTornRead
  BY DEF IInv
<1>2. /\ UNCHANGED <<rpc, s1, pos, out, view, loaded, p, reads, torn, writerVars>>
      /\ stop' = TRUE \/ stop' = stop
  BY DEF Stop, vars, readerVars
<1>3. TypeOK'
  BY <1>1, <1>2, ReaderTypes DEF TypeOK
<1>4. ReaderInv'
  BY <1>1, <1>2, OtherReader DEF ReaderInv
<1>5. QED
  BY <1>1, <1>2, <1>3, <1>4, ReaderKeepsWriter DEF IInv, NoTornRead

-----------------------------------------------------------------------------
(* The theorems.                                                             *)

LEMMA NextInvariant == IInv /\ [Next]_vars => IInv'
<1> SUFFICES ASSUME IInv, [Next]_vars PROVE IInv'
  OBVIOUS
<1>1. CASE Writer
  BY <1>1, StoreOddStep, StoreWordStep, StoreEvenStep, WriterDoneStep DEF Writer
<1>2. ASSUME NEW r \in Readers, Reader(r)
      PROVE  IInv'
  BY <1>2, LoadFirstStep, LoadWordStep, LoadSecondStep DEF Reader
<1>3. CASE Stop \/ Joined \/ UNCHANGED vars
  BY <1>3, StopStep DEF Joined
<1>4. QED
  BY <1>1, <1>2, <1>3 DEF Next

\* What the writer's stores carry and what the readers know of them always fit.
THEOREM Invariant == Spec => []IInv
BY InitInvariant, NextInvariant, PTL DEF Spec

\* Every variable keeps its type.
THEOREM TypeCorrect == Spec => []TypeOK
<1>1. IInv => TypeOK
  BY DEF IInv
<1>2. QED
  BY <1>1, Invariant, PTL

\* "The protocol must show zero": no reader returns a mixture of two updates.
THEOREM NeverTorn == Spec => []NoTornRead
<1>1. IInv => NoTornRead
  BY DEF IInv
<1>2. QED
  BY <1>1, Invariant, PTL

-----------------------------------------------------------------------------
(* The seqlock implements the register.                                      *)

LEMMA RegisterInit == Init => Register!Init
BY DEF Init, Register!Init, Register!Whole

LEMMA RegisterRead ==
  ASSUME IInv, NEW r \in Readers, NEW t \in 1..Len(seqStores), ReadReturns(r, t)
  PROVE  Register!Read(r)
<1> DEFINE k == out[r][1]
<1>1. TypeOK /\ SeqInv /\ ReaderInv
  BY DEF IInv
<1>2. t = s1[r] + 1 /\ \A i \in Words : 2 * out[r][i] = s1[r]
  BY AcceptedIsAnnounced
<1>3. out[r] \in [Words -> Nat] /\ s1[r] \in Nat /\ k \in Nat
  BY <1>1, Constants, ReaderRanges
<1>4. out[r] = [i \in Words |-> k]
  <2>1. \A i \in Words : out[r][i] = k
    BY <1>2, <1>3, Constants
  <2>2. QED
    BY <1>3, <2>1
<1>5. v \in Nat /\ v - 1 \in Nat /\ k <= v - 1
  <2>1. v \in Nat /\ v >= 1 /\ Len(seqStores) \in Nat /\ t \in Nat /\ t <= Len(seqStores)
    BY <1>1, Lengths DEF TypeOK
  <2>2. Len(seqStores) <= 2 * v
    BY <1>1, <2>1 DEF SeqInv, begun, finished
  <2>3. 2 * k = s1[r]
    BY <1>2, Constants
  <2>4. QED
    BY <1>2, <1>3, <2>1, <2>2, <2>3
<1>6. \A i \in Words : p[r][i] <= k
  <2>1. rpc[r] = "words"
    BY DEF ReadReturns, LoadSecond
  <2>2. /\ view[r].seq = s1[r] + 1
        /\ \A i \in Words : p[r][i] \in Nat /\ view[r].seq > 2 * p[r][i]
    BY <1>1, <2>1, ReaderRanges DEF ReaderInv, ViewsOf, ReadOf
  <2>3. 2 * k = s1[r]
    BY <1>2, Constants
  <2>4. view[r].seq = 2 * k + 1
    BY <2>2, <2>3
  <2>5. ASSUME NEW i \in Words
        PROVE  p[r][i] <= k
    <3>1. p[r][i] \in Nat /\ 2 * k + 1 > 2 * p[r][i]
      BY <2>2, <2>4
    <3>2. QED
      BY <1>3, <3>1
  <2>6. QED
    BY <2>5
<1>7. p' = [p EXCEPT ![r] = [i \in Words |-> k]] /\ v' = v
  BY <1>4 DEF ReadReturns, LoadSecond, writerVars
<1>8. k \in 0..(v - 1)
  BY <1>3, <1>5
<1> HIDE DEF k
<1>9. QED
  BY <1>6, <1>7, <1>8 DEF Register!Read, Register!Whole

LEMMA RegisterStep == IInv /\ [Next]_vars => [Register!Next]_(Register!registerVars)
<1> SUFFICES ASSUME IInv, [Next]_vars PROVE [Register!Next]_(Register!registerVars)
  OBVIOUS
<1>1. CASE StoreEven
  <2>1. v' = v + 1 /\ p' = p /\ v \in Nat
    BY <1>1 DEF StoreEven, readerVars, IInv, TypeOK
  <2>2. v' - 1 = (v - 1) + 1
    BY <2>1
  <2>3. QED
    BY <2>1, <2>2 DEF Register!Next, Register!Write
<1>2. ASSUME NEW r \in Readers, NEW t \in 1..Len(seqStores), ReadReturns(r, t)
      PROVE  Register!Next
  BY <1>2, RegisterRead DEF Register!Next
<1>3. ASSUME v' = v, p' = p
      PROVE  UNCHANGED Register!registerVars
  BY <1>3 DEF Register!registerVars
<1>4. CASE StoreOdd \/ StoreWord \/ WriterDone
  BY <1>3, <1>4 DEF StoreOdd, StoreWord, WriterDone, readerVars
<1>5. ASSUME NEW r \in Readers, NEW t \in 1..Len(seqStores),
             FirstBusy(r, t) \/ FirstEven(r, t) \/ ReadRetries(r, t)
      PROVE  UNCHANGED Register!registerVars
  BY <1>3, <1>5 DEF FirstBusy, FirstEven, LoadFirst, ReadRetries, LoadSecond, writerVars
<1>6. ASSUME NEW r \in Readers, NEW i \in Words, NEW t \in 1..Len(wordStores[i]), LoadWord(r, t)
      PROVE  UNCHANGED Register!registerVars
  BY <1>3, <1>6 DEF LoadWord, writerVars
<1>7. CASE Stop \/ Joined \/ UNCHANGED vars
  BY <1>3, <1>7 DEF Stop, Joined, vars, writerVars, readerVars
<1>8. QED
  BY <1>1, <1>2, <1>4, <1>5, <1>6, <1>7 DEF Next, Writer, Reader

\* The seqlock, for all its reordering, behaves as a register: each read returns
\* one whole, finished update and never goes back.
THEOREM ImplementsRegister == Spec => RegisterSpec
BY RegisterInit, RegisterStep, Invariant, PTL DEF Spec, RegisterSpec, Register!Spec

=============================================================================
