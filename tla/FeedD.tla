------------------------------- MODULE FeedD -------------------------------
(***************************************************************************)
(* Design D of F1_feed_handling.cpp: class FeedD, as the last part of      *)
(* main() drives it.  The main thread owns the book and applies packets; a *)
(* reader thread takes snapshots with read_snapshot() until it is stopped. *)
(*                                                                         *)
(* MEMORY MODEL.  seq_ is an atomic, the book is plain memory, and main    *)
(* writes the one and the other with release stores but no fence between.  *)
(* With InOrder, every load returns the newest store: what a build that    *)
(* reorders nothing does on x86, where a thread's stores become visible in *)
(* order and its loads are made in order.  Without it, only what C++ says  *)
(* of release and acquire holds: a load of seq_ or of part of the book may *)
(* return any store no older than one the reader has loaded from the same  *)
(* place or learnt of from an acquire load of seq_.  Copying the book      *)
(* while it is written is a data race; of all it may do, the model only    *)
(* lets each part be old or new on its own.                                *)
(*                                                                         *)
(* ABSTRACTION.  A part of the book (a level, or Book::seq) holds the      *)
(* number of the packet that wrote it last, 0 at first.  Vectors do not    *)
(* change size: resize() is called before the reader starts.  The run has  *)
(* no subscribers.                                                         *)
(***************************************************************************)
EXTENDS Integers, Sequences, FiniteSetsExt

CONSTANTS
  Depth,          \* levels of the book
  Packets,        \* packets main applies
  Attempts,       \* read_snapshot() tries so often (16)
  InOrder         \* loads return the newest store

ASSUME ConstantsAssumption ==
  /\ Depth \in Nat \ {0}
  /\ Packets \in Nat
  /\ Attempts \in Nat \ {0}
  /\ InOrder \in BOOLEAN

Levels == 0..(Depth - 1)
BookSeq == Depth                  \* where Book::seq is among the parts
Parts == 0..Depth

VARIABLES
  seqStores,      \* every store to seq_: value, and the view it carries
  bookStores,     \* bookStores[i]: every packet number written to part i
  stop,           \* stop
  \* the main thread
  wpc,            \* where it is in on_packet()
  packet,         \* the packet it is at: i + 1
  \* the reader thread
  rpc,            \* where it is in read_snapshot()
  attempt,        \* attempt
  s1,             \* s1
  copied,         \* how many parts of `out = book_' are copied
  snap,           \* out, the caller's snap
  view            \* the oldest store it may load, of seq_ and of each part

writerVars == <<seqStores, bookStores, stop, wpc, packet>>
readerVars == <<rpc, attempt, s1, copied, snap, view>>
vars == <<writerVars, readerVars>>

FirstView == [seq |-> 1, book |-> [i \in Parts |-> 1]]

Init ==
  /\ seqStores = <<[val |-> 0, book |-> FirstView.book]>>
  /\ bookStores = [i \in Parts |-> <<0>>]
  /\ stop = FALSE
  /\ wpc = "begin"
  /\ packet = 1
  /\ rpc = "call"
  /\ attempt = 0
  /\ s1 = 0
  /\ copied = 0
  /\ snap = [i \in Parts |-> 0]
  /\ view = FirstView

-----------------------------------------------------------------------------
(* on_packet().                                                              *)

\* make_packet(): the level packet k is for.
LevelOf(k) == (k - 1) % Depth

\* A release store to seq_ carries all writes of the book before it.
SeqStore ==
  [val  |-> seqStores[Len(seqStores)].val + 1,
   book |-> [i \in Parts |-> Len(bookStores[i])]]

StoreOdd ==
  /\ wpc = "begin"
  /\ packet <= Packets
  /\ seqStores' = Append(seqStores, SeqStore)
  /\ wpc' = "level"
  /\ UNCHANGED <<bookStores, stop, packet, readerVars>>

\* book_.bids[p.level] = Level{p.px, p.qty}
WriteLevel ==
  /\ wpc = "level"
  /\ bookStores' = [bookStores EXCEPT ![LevelOf(packet)] = Append(@, packet)]
  /\ wpc' = "count"
  /\ UNCHANGED <<seqStores, stop, packet, readerVars>>

\* ++book_.seq
WriteSeq ==
  /\ wpc = "count"
  /\ bookStores' = [bookStores EXCEPT ![BookSeq] = Append(@, packet)]
  /\ wpc' = "end"
  /\ UNCHANGED <<seqStores, stop, packet, readerVars>>

StoreEven ==
  /\ wpc = "end"
  /\ seqStores' = Append(seqStores, SeqStore)
  /\ packet' = packet + 1
  /\ wpc' = "begin"
  /\ UNCHANGED <<bookStores, stop, readerVars>>

\* No more packets: stop.store(true).
Stop ==
  /\ wpc = "begin"
  /\ packet > Packets
  /\ ~stop
  /\ stop' = TRUE
  /\ UNCHANGED <<seqStores, bookStores, wpc, packet, readerVars>>

-----------------------------------------------------------------------------
(* read_snapshot() and the reader's loop.                                    *)

\* The stores a load may return, of n, when the oldest it may is `oldest'.
Loadable(oldest, n) == IF InOrder THEN {n} ELSE oldest..n

Later(a, b) == [i \in Parts |-> IF a[i] > b[i] THEN a[i] ELSE b[i]]

\* An acquire load of seq_ that returns the store in position t.
AcquireSeq(t) ==
  /\ t \in Loadable(view.seq, Len(seqStores))
  /\ view' = [seq |-> t, book |-> Later(view.book, seqStores[t].book)]

\* The loop of read_snapshot() goes on, or has made its last attempt.
Trying == rpc = "call" /\ attempt < Attempts
GaveUp == rpc = "call" /\ attempt = Attempts

\* `++attempt' after a try that failed.
AttemptKept == attempt                            \* mutated: wait until it is free
AttemptSpent == attempt + 1

\* The loop of the reader thread ends.  It may also go on, by an old value of
\* stop, and call read_snapshot() again.
ReaderEnds ==
  /\ rpc = "call" /\ attempt = 0
  /\ stop
  /\ rpc' = "done"
  /\ UNCHANGED <<attempt, s1, copied, snap, view, writerVars>>

\* Writer in progress: the attempt is spent.
FirstBusy(t) ==
  /\ Trying
  /\ AcquireSeq(t)
  /\ seqStores[t].val % 2 = 1
  /\ s1' = seqStores[t].val
  /\ attempt' = AttemptSpent
  /\ UNCHANGED <<rpc, copied, snap, writerVars>>

FirstEven(t) ==
  /\ Trying
  /\ AcquireSeq(t)
  /\ seqStores[t].val % 2 = 0
  /\ s1' = seqStores[t].val
  /\ copied' = 0
  /\ rpc' = "copy"
  /\ UNCHANGED <<attempt, snap, writerVars>>

\* One part of out = book_.
CopyPart(t) ==
  /\ rpc = "copy"
  /\ copied <= Depth
  /\ t \in Loadable(view.book[copied], Len(bookStores[copied]))
  /\ snap' = [snap EXCEPT ![copied] = bookStores[copied][t]]
  /\ view' = [view EXCEPT !.book[copied] = t]
  /\ copied' = copied + 1
  /\ UNCHANGED <<rpc, attempt, s1, writerVars>>

AcceptsAlways(s2) == TRUE                         \* mutated: no second look
Accepts(s2) == s1 = s2

\* No update in between: return true.
SecondEqual(t) ==
  /\ rpc = "copy" /\ copied > Depth
  /\ AcquireSeq(t)
  /\ Accepts(seqStores[t].val)
  /\ rpc' = "taken"
  /\ UNCHANGED <<attempt, s1, copied, snap, writerVars>>

SecondDiffers(t) ==
  /\ rpc = "copy" /\ copied > Depth
  /\ AcquireSeq(t)
  /\ ~Accepts(seqStores[t].val)
  /\ attempt' = AttemptSpent
  /\ rpc' = "call"
  /\ UNCHANGED <<s1, copied, snap, writerVars>>

\* ++ok or ++retry, and the loop goes round.
Returned ==
  /\ rpc = "taken" \/ GaveUp
  /\ rpc' = "call"
  /\ attempt' = 0
  /\ UNCHANGED <<s1, copied, snap, view, writerVars>>

-----------------------------------------------------------------------------
Joined == stop /\ rpc = "done" /\ UNCHANGED vars

Writer == StoreOdd \/ WriteLevel \/ WriteSeq \/ StoreEven \/ Stop

Reader ==
  \/ ReaderEnds
  \/ Returned
  \/ \E t \in 1..Len(seqStores) :
       FirstBusy(t) \/ FirstEven(t) \/ SecondEqual(t) \/ SecondDiffers(t)
  \/ copied \in Parts /\ \E t \in 1..Len(bookStores[copied]) : CopyPart(t)

Next == Writer \/ Reader \/ Joined

Spec == Init /\ [][Next]_vars

(***************************************************************************)
(* FAIRNESS.  The reader thread is scheduled.  Nothing is assumed of main. *)
(***************************************************************************)
ReaderSpec == Spec /\ WF_vars(Reader)

-----------------------------------------------------------------------------
(* Properties.                                                               *)

\* The book when n packets were applied.
BookAfter(n) ==
  [i \in Parts |->
     IF i = BookSeq THEN n ELSE Max({0} \union {k \in 1..n : LevelOf(k) = i})]

\* "A seqlock lets outside readers take a consistent snapshot": what
\* read_snapshot() returns with true is the book as it was between two packets.
SnapshotConsistent == rpc = "taken" => \E n \in 0..Packets : snap = BookAfter(n)

\* ... and not just any such book: the one that the first load of seq_ announced,
\* which no packet has left half done.
SnapshotAnnounced == rpc = "taken" => s1 % 2 = 0 /\ snap = BookAfter(s1 \div 2)

\* A call of read_snapshot() ends even if main stops in the middle of a packet.
CallsReturn == (rpc \in {"call", "copy"} /\ ~GaveUp) ~> (rpc \in {"taken", "done"} \/ GaveUp)

-----------------------------------------------------------------------------
(* Why the announced book is the one copied, when nothing is reordered.      *)

BookView == [Parts -> Nat]
SeqRecord == [val : Nat, book : BookView]
View == [seq : Nat, book : BookView]

TypeOK ==
  /\ seqStores \in Seq(SeqRecord) /\ Len(seqStores) > 0
  /\ bookStores \in [Parts -> Seq(Nat)] /\ \A p \in Parts : Len(bookStores[p]) > 0
  /\ stop \in BOOLEAN
  /\ wpc \in {"begin", "level", "count", "end"}
  /\ packet \in 1..(Packets + 1)
  /\ rpc \in {"call", "copy", "taken", "done"}
  /\ attempt \in 0..Attempts /\ (rpc = "copy" => attempt < Attempts)
  /\ s1 \in Nat
  /\ copied \in 0..(Depth + 1)
  /\ snap \in [Parts -> Nat]
  /\ view \in View

SeqNow == seqStores[Len(seqStores)].val
BookNow(p) == bookStores[p][Len(bookStores[p])]

\* The packet on its way has been written to part p.
Written(p) == wpc = "end" \/ (wpc = "count" /\ p # BookSeq)

\* seq_ counts the packets twice, and is odd while one is on its way; the book
\* holds all packets before that one.
WriterInv ==
  /\ SeqNow = 2 * (packet - 1) + (IF wpc = "begin" THEN 0 ELSE 1)
  /\ wpc # "begin" => packet <= Packets
  /\ \A p \in Parts : BookNow(p) = BookAfter(IF Written(p) THEN packet ELSE packet - 1)[p]

\* As long as seq_ is what the first load returned, the book is what it announced.
ReaderInv ==
  rpc \in {"copy", "taken"} =>
    /\ s1 <= SeqNow /\ s1 % 2 = 0
    /\ SeqNow = s1 => \A p \in Parts : p < copied => snap[p] = BookAfter(s1 \div 2)[p]
    /\ rpc = "taken" => s1 \div 2 \in 0..Packets /\ snap = BookAfter(s1 \div 2)

IInv == TypeOK /\ WriterInv /\ (InOrder => ReaderInv)

=============================================================================
