------------------------------ MODULE SeqLock ------------------------------
(***************************************************************************)
(* The seqlock of J3_seqlock.cpp: class SeqLock, driven as hammer() drives *)
(* it, by one writer thread and by readers that count torn snapshots.      *)
(*                                                                         *)
(* MEMORY MODEL.  seq_ and every word of data_ is an atomic, with the      *)
(* sequence of all stores made to it.  A thread has a view: for each       *)
(* atomic, the position of the oldest store it may still load.  A relaxed  *)
(* load may return any store from there on, and moves the view of that     *)
(* atomic only: another atomic may still be read as it was earlier, which  *)
(* is how a reader's loads appear out of order.  A relaxed store carries   *)
(* the view its thread had at its last release fence, which is how stores  *)
(* appear out of order.  An acquire load adds the view carried by what it  *)
(* returns; an acquire fence adds those carried by all that was loaded     *)
(* before it.  Readers store to no atomic that anybody loads, so this is   *)
(* all the reordering that the C++ memory model allows the program.        *)
(*                                                                         *)
(* ABSTRACTION.  The k-th write() is write(k), as hammer() makes them.     *)
(* seq_ does not reach its 2^64.  Pauses, timing and the retry counter are *)
(* left out, and so is main()'s control reader, which ignores the check.   *)
(***************************************************************************)
EXTENDS Integers, Sequences

CONSTANTS
  NumWords,       \* kWords
  Readers,        \* the reader threads (hammer() has one: its caller)
  Reads,          \* `reads' of hammer(): snapshots each reader takes
  MaxWrites       \* bound: the writer stops after so many updates

ASSUME ConstantsAssumption ==
  /\ NumWords \in Nat \ {0}
  /\ Reads \in Nat
  /\ MaxWrites \in Nat

Words == 1..NumWords

VARIABLES
  seqStores,      \* every store to seq_: value and the view it carries
  wordStores,     \* wordStores[i]: every store to data_[i]
  stop,           \* stop, as stored by the caller of hammer()
  torn,           \* torn
  \* the writer thread
  wpc,            \* where it is in its loop and in write()
  word,           \* i
  v,              \* v
  fenced,         \* its view at its last release fence
  \* the reader threads
  rpc,            \* where each is in try_read()
  s1,             \* s1
  pos,            \* i
  out,            \* out
  view,           \* the thread's view
  loaded,         \* its view joined with the views its loads have returned
  p,              \* p of hammer(), each time reader(p) returns
  reads           \* i of hammer()

writerVars == <<seqStores, wordStores, wpc, word, v, fenced>>
readerVars == <<rpc, s1, pos, out, view, loaded, p, reads, torn, stop>>
vars == <<writerVars, readerVars>>

NoView == [seq |-> 1, words |-> [i \in Words |-> 1]]
InitialStore == [val |-> 0, view |-> NoView]

Init ==
  /\ seqStores = <<InitialStore>>
  /\ wordStores = [i \in Words |-> <<InitialStore>>]
  /\ stop = FALSE
  /\ torn = 0
  /\ wpc = "idle"
  /\ word = 1
  /\ v = 1
  /\ fenced = NoView
  /\ rpc = [r \in Readers |-> "first"]
  /\ s1 = [r \in Readers |-> 0]
  /\ pos = [r \in Readers |-> 1]
  /\ out = [r \in Readers |-> [i \in Words |-> 0]]
  /\ view = [r \in Readers |-> NoView]
  /\ loaded = [r \in Readers |-> NoView]
  /\ p = [r \in Readers |-> [i \in Words |-> 0]]
  /\ reads = [r \in Readers |-> 0]

-----------------------------------------------------------------------------
(* Views.                                                                    *)

MaxOf(a, b) == IF a > b THEN a ELSE b

\* What a thread knows that learns w besides what it knew.
Join(u, w) ==
  [seq   |-> MaxOf(u.seq, w.seq),
   words |-> [i \in Words |-> MaxOf(u.words[i], w.words[i])]]

\* The writer is alone in storing: its view is the newest of everything.
WriterView == [seq |-> Len(seqStores), words |-> [i \in Words |-> Len(wordStores[i])]]

\* seq_ as the writer reads it: its own last store.
Seq_ == seqStores[Len(seqStores)].val

Stored(x) == [val |-> x, view |-> fenced]

-----------------------------------------------------------------------------
(* write().                                                                  *)

\* The view at a release fence that follows a store of seq_ in position n.
FenceForgotten(n) == fenced                   \* mutated: a release store, no fence
FenceAfterOdd(n) == [WriterView EXCEPT !.seq = n]

\* The loop of the writer thread goes on: its load of stop may be stale.
LoopGoesOn == v <= MaxWrites

\* seq_ becomes odd, and the fence keeps the stores of the words below it.
StoreOdd ==
  /\ wpc = "idle"
  /\ LoopGoesOn
  /\ seqStores' = Append(seqStores, Stored(Seq_ + 1))
  /\ fenced' = FenceAfterOdd(Len(seqStores) + 1)
  /\ word' = 1
  /\ wpc' = "words"
  /\ UNCHANGED <<wordStores, v, readerVars>>

\* data_[i].store(value, relaxed)
StoreWord ==
  /\ wpc = "words"
  /\ word <= NumWords
  /\ wordStores' = [wordStores EXCEPT ![word] = Append(@, Stored(v))]
  /\ word' = word + 1
  /\ UNCHANGED <<seqStores, wpc, v, fenced, readerVars>>

\* The fence that keeps the stores of the words above the next one, and the
\* store that makes seq_ even.
EvenUnfenced == Stored(Seq_ + 1)              \* mutated: no fence before it
EvenForgotten == [val |-> Seq_, view |-> WriterView]    \* mutated: still odd
EvenStore == [val |-> Seq_ + 1, view |-> WriterView]

StoreEven ==
  /\ wpc = "words"
  /\ word > NumWords
  /\ seqStores' = Append(seqStores, EvenStore)
  /\ fenced' = WriterView
  /\ v' = v + 1
  /\ wpc' = "idle"
  /\ UNCHANGED <<wordStores, word, readerVars>>

\* The writer sees stop (or reaches the bound) and ends.
WriterDone ==
  /\ wpc = "idle"
  /\ stop \/ v > MaxWrites
  /\ wpc' = "done"
  /\ UNCHANGED <<seqStores, wordStores, word, v, fenced, readerVars>>

-----------------------------------------------------------------------------
(* read(): try_read() until it succeeds.                                     *)

Odd(x) == x % 2 = 1

\* s1 = seq_.load(acquire), of the store in position t.
LoadFirst(r, t) ==
  /\ rpc[r] = "first"
  /\ reads[r] < Reads
  /\ t \in view[r].seq..Len(seqStores)
  /\ LET learnt == Join([view[r] EXCEPT !.seq = t], seqStores[t].view)
     IN /\ view' = [view EXCEPT ![r] = learnt]
        /\ loaded' = [loaded EXCEPT ![r] = Join(@, learnt)]
  /\ s1' = [s1 EXCEPT ![r] = seqStores[t].val]
  /\ UNCHANGED <<out, p, reads, torn, stop, writerVars>>

\* Writer mid-update: return false, and try again.
FirstBusy(r, t) ==
  /\ LoadFirst(r, t)
  /\ Odd(seqStores[t].val)
  /\ UNCHANGED <<rpc, pos>>

FirstEven(r, t) ==
  /\ LoadFirst(r, t)
  /\ ~Odd(seqStores[t].val)
  /\ rpc' = [rpc EXCEPT ![r] = "words"]
  /\ pos' = [pos EXCEPT ![r] = 1]

\* out.w[i] = data_[i].load(relaxed), of the store in position t.
LoadWord(r, t) ==
  LET i == pos[r] IN
  /\ rpc[r] = "words"
  /\ i <= NumWords
  /\ t \in view[r].words[i]..Len(wordStores[i])
  /\ out' = [out EXCEPT ![r][i] = wordStores[i][t].val]
  /\ view' = [view EXCEPT ![r].words[i] = t]
  /\ loaded' = [loaded EXCEPT ![r] = Join([@ EXCEPT !.words[i] = t], wordStores[i][t].view)]
  /\ pos' = [pos EXCEPT ![r] = i + 1]
  /\ UNCHANGED <<rpc, s1, p, reads, torn, stop, writerVars>>

\* The view after the acquire fence.
AcquireForgotten(r) == view[r]                \* mutated: an acquire load, no fence
Acquired(r) == loaded[r]

\* Is the snapshot good?
Accepted(first, second) == first = second

Consistent(w) == \A i \in Words : w[i] = w[1]

\* The fence and s2 = seq_.load(relaxed), of the store in position t.
LoadSecond(r, t) ==
  /\ rpc[r] = "words"
  /\ pos[r] > NumWords
  /\ t \in Acquired(r).seq..Len(seqStores)
  /\ LET known == [Acquired(r) EXCEPT !.seq = t]
     IN /\ view' = [view EXCEPT ![r] = known]
        /\ loaded' = [loaded EXCEPT ![r] = Join(known, seqStores[t].view)]
  /\ rpc' = [rpc EXCEPT ![r] = "first"]
  /\ UNCHANGED <<s1, pos, out, stop, writerVars>>

\* The snapshot is returned, and hammer() looks whether it is torn.
ReadReturns(r, t) ==
  /\ LoadSecond(r, t)
  /\ Accepted(s1[r], seqStores[t].val)
  /\ p' = [p EXCEPT ![r] = out[r]]
  /\ reads' = [reads EXCEPT ![r] = @ + 1]
  /\ torn' = IF Consistent(out[r]) THEN torn ELSE torn + 1

\* The data moved underneath: try again.
ReadRetries(r, t) ==
  /\ LoadSecond(r, t)
  /\ ~Accepted(s1[r], seqStores[t].val)
  /\ UNCHANGED <<p, reads, torn>>

ReadersDone == \A r \in Readers : rpc[r] = "first" /\ reads[r] = Reads

\* hammer() has its reads: stop.store(true).
Stop ==
  /\ ReadersDone
  /\ ~stop
  /\ stop' = TRUE
  /\ UNCHANGED <<rpc, s1, pos, out, view, loaded, p, reads, torn, writerVars>>

-----------------------------------------------------------------------------
\* The writer is joined and hammer() returns.
Joined == stop /\ wpc = "done" /\ UNCHANGED vars

Writer == StoreOdd \/ StoreWord \/ StoreEven \/ WriterDone

Reader(r) ==
  \/ \E t \in 1..Len(seqStores) :
       FirstBusy(r, t) \/ FirstEven(r, t) \/ ReadReturns(r, t) \/ ReadRetries(r, t)
  \/ \E i \in Words : \E t \in 1..Len(wordStores[i]) : pos[r] = i /\ LoadWord(r, t)

Next == Writer \/ Stop \/ (\E r \in Readers : Reader(r)) \/ Joined

Spec == Init /\ [][Next]_vars

(***************************************************************************)
(* FAIRNESS.  The writer is scheduled, whatever the readers do: write()    *)
(* has neither a loop nor a lock in which it could wait for them.          *)
(* What a reader gets out of its loop rests on more: that the readers and  *)
(* the caller of hammer() are scheduled as well, and that a reader that    *)
(* loads seq_ over and over does not get an old value for ever.            *)
(***************************************************************************)
WriterSpec == Spec /\ WF_vars(Writer)

LoadFresh(r) ==
  FirstBusy(r, Len(seqStores)) \/ FirstEven(r, Len(seqStores))

ReaderFairness ==
  /\ WF_vars(Stop)
  /\ \A r \in Readers : WF_vars(Reader(r)) /\ SF_vars(LoadFresh(r))

-----------------------------------------------------------------------------
(* Properties.                                                               *)

View == [seq : Nat \ {0}, words : [Words -> Nat \ {0}]]
Store == [val : Nat, view : View]

\* Every variable has its type, and every view is of stores that were made.
TypeOK ==
  /\ seqStores \in Seq(Store) /\ seqStores # << >>
  /\ wordStores \in [Words -> Seq(Store)] /\ \A i \in Words : wordStores[i] # << >>
  /\ stop \in BOOLEAN
  /\ torn \in Nat
  /\ wpc \in {"idle", "words", "done"}
  /\ word \in 1..(NumWords + 1)
  /\ v \in Nat \ {0}
  /\ fenced \in View
  /\ rpc \in [Readers -> {"first", "words"}]
  /\ s1 \in [Readers -> Nat]
  /\ pos \in [Readers -> 1..(NumWords + 1)]
  /\ out \in [Readers -> [Words -> Nat]]
  /\ view \in [Readers -> View]
  /\ loaded \in [Readers -> View]
  /\ p \in [Readers -> [Words -> Nat]]
  /\ reads \in [Readers -> Nat]

\* "The protocol must show zero": no reader returns a mixture of two updates,
\* however its loads and the writer's stores are reordered.
NoTornRead == torn = 0

\* The seqlock is a register: whatever the reordering, each read returns one
\* whole update, one that is finished, and never goes back to an older one.
Register == INSTANCE SnapshotRegister WITH value <- v - 1, snapshot <- p
RegisterSpec == Register!Spec

\* Once the writer pauses, every reader gets its snapshots.
ReadsReturn == ReaderFairness => <>[](stop /\ ReadersDone /\ wpc = "done")

(* The inductive invariant.                                                  *)

\* How many updates were begun, and how many were finished.
begun == IF wpc = "words" THEN v ELSE v - 1
finished == v - 1

\* seq_ counts the begun and the finished updates.  Each store that makes it
\* even carries all words of the updates before it, ...
SeqInv ==
  /\ Len(seqStores) = begun + finished + 1
  /\ \A t \in 1..Len(seqStores) :
       /\ seqStores[t].val = t - 1
       /\ seqStores[t].view.seq <= t
       /\ \A i \in Words : 2 * seqStores[t].view.words[i] >= t

\* ... each store of a word by update k carries that seq_ was odd for k, ...
WordsInv ==
  \A i \in Words :
    /\ Len(wordStores[i]) = IF wpc = "words" /\ i < word THEN v + 1 ELSE v
    /\ \A t \in 1..Len(wordStores[i]) :
         /\ wordStores[i][t].val = t - 1
         /\ wordStores[i][t].view.seq <= Len(seqStores)
         /\ t > 1 => wordStores[i][t].view.seq >= 2 * t - 2

\* ... and so will the stores the writer makes next.
FenceInv ==
  /\ fenced.seq <= Len(seqStores)
  /\ wpc = "words" => fenced.seq = Len(seqStores)
  /\ \A i \in Words : fenced.words[i] = v

\* A reader's views are of stores that were made, and newer than its last
\* snapshot.
ViewsOf(r) ==
  /\ view[r].seq <= loaded[r].seq
  /\ loaded[r].seq <= Len(seqStores)
  /\ \A i \in Words : p[r][i] = p[r][1] /\ view[r].seq > 2 * p[r][i]

\* In the course of a read of update s1 / 2, words are that update's or later,
\* and a later one tells the reader that seq_ has moved.
ReadOf(r) ==
  /\ ~Odd(s1[r])
  /\ view[r].seq = s1[r] + 1
  /\ \A i \in Words : 2 * view[r].words[i] >= s1[r] + 2
  /\ \A i \in Words : i < pos[r] =>
       2 * out[r][i] >= s1[r] /\ (2 * out[r][i] > s1[r] => loaded[r].seq >= 2 * out[r][i])

ReaderInv == \A r \in Readers : ViewsOf(r) /\ (rpc[r] = "words" => ReadOf(r))

IInv == TypeOK /\ SeqInv /\ WordsInv /\ FenceInv /\ ReaderInv /\ NoTornRead

=============================================================================
