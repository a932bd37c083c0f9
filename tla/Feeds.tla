------------------------------- MODULE Feeds -------------------------------
(***************************************************************************)
(* Designs A, B and C of F1_feed_handling.cpp: classes FeedA, FeedB and    *)
(* FeedC, each with a mutex m_, a book and a list of subscribers, used by  *)
(* several threads that apply packets and subscribe.                       *)
(*                                                                         *)
(*   A  calls the subscribers with the lock held, with the book itself;    *)
(*   B  copies book and list under the lock and calls without it;          *)
(*   C  keeps immutable books and lists, and loads the list without the    *)
(*      lock when it has the new book.                                     *)
(*                                                                         *)
(* CALLBACKS are the three kinds that the program subscribes:              *)
(*   "cheap"        cheap_subscriber: looks at the book                    *)
(*   "quoting"      calls best_bid(), which locks m_ (only A has it)       *)
(*   "subscribing"  subscribes a cheap one the first time it is called     *)
(* m_ is not recursive: a thread that locks it twice waits for itself.     *)
(*                                                                         *)
(* MEMORY MODEL.  All but the list of C is touched under m_ only.  That    *)
(* list is an atomic pointer, stored under m_: the load of on_packet() may *)
(* return any list no older than the one its thread knew when it had m_.   *)
(*                                                                         *)
(* ABSTRACTION.  A level holds the number of the packet that wrote it      *)
(* last, 0 at first.  Allocation, timing and the benchmark's sums are left *)
(* out.  resize() is called before there are threads.                      *)
(***************************************************************************)
EXTENDS Integers, Sequences

CONSTANTS
  Threads,        \* threads that use the feed
  NoThread,       \* the owner of a free mutex
  Depth,          \* levels of the book
  Packets,        \* bound: calls of on_packet() by all threads
  Others,         \* bound: other calls by all threads, outside callbacks
  First,          \* how many subscribers there are at first
  Setups          \* Setups[d]: the lists of them that design d may begin with

Designs == {"A", "B", "C"}
Kinds == {"cheap", "quoting", "subscribing"}

ASSUME ConstantsAssumption ==
  /\ NoThread \notin Threads
  /\ Depth \in Nat \ {0}
  /\ Packets \in Nat
  /\ Others \in Nat
  /\ First \in Nat
  /\ Setups \in [Designs -> SUBSET [1..First -> Kinds]]
  /\ \A d \in {"B", "C"} : \A list \in Setups[d] : \A i \in 1..First : list[i] # "quoting"

VARIABLES
  design,         \* "A", "B" or "C": which of the classes this is
  mutex,          \* who has m_
  book,           \* book_
  lists,          \* every value callbacks_ has had, the newest last
  added,          \* `added' of the subscribing callback
  issued,         \* packets given to on_packet() so far
  others,         \* calls of subscribe() and best_bid() so far
  \* each thread
  pc,             \* where it is
  packet,         \* p of its on_packet() call, 0 outside one
  snapshot,       \* snapshot of B, published of C
  known,          \* the oldest value of callbacks_ its load may return
  subs,           \* the list it goes through
  at,             \* the one it is at
  copied,         \* next of C's subscribe()
  \* histories
  applied,        \* the packets applied, and how many subscribers there were
  heard           \* heard[s]: the books subscriber s was called with

sharedVars == <<design, mutex, book, lists, added>>
clientVars == <<issued, others>>
threadVars == <<pc, packet, snapshot, known, subs, at, copied>>
vars == <<sharedVars, clientVars, threadVars, applied, heard>>

Levels == 0..(Depth - 1)
EmptyBook == [seq |-> 0, bids |-> [l \in Levels |-> 0]]

callbacks == lists[Len(lists)]    \* callbacks_ as its last writer left it

Init ==
  /\ design \in Designs
  /\ mutex = NoThread
  /\ book = EmptyBook
  /\ \E list \in Setups[design] : lists = <<list>>
  /\ added = FALSE
  /\ issued = 0
  /\ others = 0
  /\ pc = [t \in Threads |-> "idle"]
  /\ packet = [t \in Threads |-> 0]
  /\ snapshot = [t \in Threads |-> EmptyBook]
  /\ known = [t \in Threads |-> 1]
  /\ subs = [t \in Threads |-> << >>]
  /\ at = [t \in Threads |-> 1]
  /\ copied = [t \in Threads |-> << >>]
  /\ applied = << >>
  /\ heard = [s \in 1..First |-> << >>]

Goto(t, label) == pc' = [pc EXCEPT ![t] = label]

-----------------------------------------------------------------------------
(* The mutex.                                                                *)

FreeRecursive(t) == mutex \in {NoThread, t}       \* mutated: std::recursive_mutex
Free(t) == mutex = NoThread

Lock(t) == Free(t) /\ mutex' = t
Unlock(t) == mutex' = NoThread

-----------------------------------------------------------------------------
(* The threads' calls.                                                       *)

MorePackets == issued < Packets

CallPacket(t) ==
  /\ pc[t] = "idle" /\ MorePackets
  /\ issued' = issued + 1
  /\ packet' = [packet EXCEPT ![t] = issued + 1]
  /\ Goto(t, "lock")
  /\ UNCHANGED <<sharedVars, others, snapshot, known, subs, at, copied, applied, heard>>

CallOther(t) ==
  /\ pc[t] = "idle" /\ others < Others
  /\ others' = others + 1
  /\ \/ Goto(t, "subscribe")
     \/ design = "A" /\ Goto(t, "quote")
  /\ UNCHANGED <<sharedVars, issued, packet, snapshot, known, subs, at, copied, applied,
                 heard>>

\* Where a thread goes on when a subscribe() or a callback is over.
AfterCallback(t) ==
  IF packet[t] = 0
    THEN /\ Goto(t, "idle")
         /\ UNCHANGED at
    ELSE /\ Goto(t, "notify")
         /\ at' = [at EXCEPT ![t] = @ + 1]

-----------------------------------------------------------------------------
(* on_packet().                                                              *)

LockForPacket(t) ==
  /\ pc[t] = "lock"
  /\ Lock(t)
  /\ Goto(t, "apply")
  /\ UNCHANGED <<design, book, lists, added, clientVars, packet, snapshot, known, subs, at,
                 copied, applied, heard>>

\* make_packet(): the level packet p is for.
LevelOf(p) == (p - 1) % Depth

\* A and B change the book, C puts a changed copy in its place.
Apply(t) ==
  /\ pc[t] = "apply"
  /\ book' = [book EXCEPT !.bids[LevelOf(packet[t])] = packet[t], !.seq = @ + 1]
  /\ applied' = Append(applied, [packet |-> packet[t], audience |-> Len(callbacks)])
  /\ Goto(t, "applied")
  /\ UNCHANGED <<design, mutex, lists, added, clientVars, packet, snapshot, known, subs,
                 at, copied, heard>>

\* Does the lock_guard outlive the callbacks?
NeverHolds == FALSE                               \* mutated: unlock, then notify
AlwaysHolds == TRUE                               \* mutated: notify, then unlock
HoldsWhileNotifying == design = "A"

\* The end of the guarded block.  A keeps the lock and goes through callbacks_
\* itself; B has copied book and list; C has its new book, and no list yet.
LeaveBlock(t) ==
  /\ pc[t] = "applied"
  /\ IF HoldsWhileNotifying THEN UNCHANGED mutex ELSE Unlock(t)
  /\ snapshot' = IF design = "A" THEN snapshot ELSE [snapshot EXCEPT ![t] = book]
  /\ known' = [known EXCEPT ![t] = Len(lists)]
  /\ subs' = [subs EXCEPT ![t] = IF design = "C" THEN << >> ELSE callbacks]
  /\ at' = [at EXCEPT ![t] = 1]
  /\ Goto(t, IF design = "C" THEN "load" ELSE "notify")
  /\ UNCHANGED <<design, book, lists, added, clientVars, packet, copied, applied, heard>>

LoadableEver(t) == 1..Len(lists)                  \* mutated: loaded before the lock
Loadable(t) == known[t]..Len(lists)

\* C: callbacks_.load(std::memory_order_acquire)
LoadList(t, k) ==
  /\ pc[t] = "load"
  /\ k \in Loadable(t)
  /\ subs' = [subs EXCEPT ![t] = lists[k]]
  /\ Goto(t, "notify")
  /\ UNCHANGED <<sharedVars, clientVars, packet, snapshot, known, at, copied, applied, heard>>

\* The book a callback is given: A's own, or the copy.
GivenLive(t) == book                              \* mutated: no copy
Given(t) == IF design = "A" THEN book ELSE snapshot[t]

Calling(t, kind) ==
  /\ pc[t] = "notify" /\ at[t] <= Len(subs[t])
  /\ subs[t][at[t]] = kind
  /\ heard' = [heard EXCEPT ![at[t]] = Append(@, Given(t))]
  /\ UNCHANGED <<design, mutex, book, lists, clientVars, packet, snapshot, known, subs,
                 copied, applied>>

\* A callback that returns at once.
CallBack(t) ==
  /\ \/ Calling(t, "cheap")
     \/ Calling(t, "subscribing") /\ added
  /\ AfterCallback(t)
  /\ UNCHANGED added

CallBackQuoting(t) ==
  /\ Calling(t, "quoting")
  /\ Goto(t, "quote")
  /\ UNCHANGED <<added, at>>

CallBackSubscribing(t) ==
  /\ Calling(t, "subscribing")
  /\ ~added
  /\ added' = TRUE
  /\ Goto(t, "subscribe")
  /\ UNCHANGED at

\* best_bid(), which takes m_ for as long as it looks.
BestBid(t) ==
  /\ pc[t] = "quote"
  /\ Free(t)
  /\ AfterCallback(t)
  /\ UNCHANGED <<sharedVars, clientVars, packet, snapshot, known, subs, copied, applied,
                 heard>>

KeptLocked(t) == UNCHANGED mutex                  \* mutated: returns without unlocking
LetGo(t) == IF HoldsWhileNotifying THEN Unlock(t) ELSE UNCHANGED mutex

\* The loop over the subscribers is over.
PacketReturns(t) ==
  /\ pc[t] = "notify" /\ at[t] > Len(subs[t])
  /\ LetGo(t)
  /\ packet' = [packet EXCEPT ![t] = 0]
  /\ Goto(t, "idle")
  /\ UNCHANGED <<design, book, lists, added, clientVars, snapshot, known, subs, at, copied,
                 applied, heard>>

-----------------------------------------------------------------------------
(* subscribe().                                                              *)

LockForSubscribe(t) ==
  /\ pc[t] = "subscribe"
  /\ Lock(t)
  /\ Goto(t, "list")
  /\ UNCHANGED <<design, book, lists, added, clientVars, packet, snapshot, known, subs, at,
                 copied, applied, heard>>

\* The new subscriber, always a cheap one, is there from now on.
Enter(list) ==
  /\ lists' = Append(lists, Append(list, "cheap"))
  /\ heard' = [s \in 1..(Len(list) + 1) |-> IF s \in DOMAIN heard THEN heard[s] ELSE << >>]

\* A and B: push_back, and the lock_guard ends.
PushBack(t) ==
  /\ pc[t] = "list" /\ design # "C"
  /\ Enter(callbacks)
  /\ Unlock(t)
  /\ AfterCallback(t)
  /\ UNCHANGED <<design, book, added, clientVars, packet, snapshot, known, subs, copied,
                 applied>>

\* C: the current list is loaded and copied ...
CopyList(t) ==
  /\ pc[t] = "list" /\ design = "C"
  /\ copied' = [copied EXCEPT ![t] = callbacks]
  /\ Goto(t, "store")
  /\ UNCHANGED <<sharedVars, clientVars, packet, snapshot, known, subs, at, applied, heard>>

\* ... and the longer copy takes its place.
StoreList(t) ==
  /\ pc[t] = "store"
  /\ Enter(copied[t])
  /\ Unlock(t)
  /\ AfterCallback(t)
  /\ UNCHANGED <<design, book, added, clientVars, packet, snapshot, known, subs, copied,
                 applied>>

-----------------------------------------------------------------------------
AllReturned ==
  /\ \A t \in Threads : pc[t] = "idle"
  /\ issued = Packets /\ others = Others

Thread(t) ==
  \/ LockForPacket(t) \/ Apply(t) \/ LeaveBlock(t)
  \/ \E k \in 1..Len(lists) : LoadList(t, k)
  \/ CallBack(t) \/ CallBackQuoting(t) \/ CallBackSubscribing(t) \/ BestBid(t)
  \/ PacketReturns(t)
  \/ LockForSubscribe(t) \/ PushBack(t) \/ CopyList(t) \/ StoreList(t)

Next ==
  \/ \E t \in Threads : CallPacket(t) \/ CallOther(t) \/ Thread(t)
  \/ AllReturned /\ UNCHANGED vars

Spec == Init /\ [][Next]_vars

(***************************************************************************)
(* FAIRNESS.  Every thread inside a call is scheduled.  Nothing makes a    *)
(* thread call.  A mutex need not be fair: calls are few.                  *)
(***************************************************************************)
FairSpec == Spec /\ \A t \in Threads : WF_vars(Thread(t))

-----------------------------------------------------------------------------
(* Properties.                                                               *)

\* Under A's lock, every subscriber hears of the packets in the order in which
\* they were applied, whichever thread brings them.  B and C do not promise it
\* while calls overlap; when they do not, FeedSpec keeps them apart.
HeardInOrder ==
  design = "A" =>
    \A s \in DOMAIN heard : \A i, j \in DOMAIN heard[s] :
      i < j => heard[s][i].seq < heard[s][j].seq

\* Every design is a packet feed: whole books, nobody called twice for a packet,
\* nobody missed, though lists are copied, replaced and loaded late.
Feed == INSTANCE PacketFeed WITH
  subscribers <- Len(callbacks),
  finished <- {n \in DOMAIN applied : \A t \in Threads : packet[t] # applied[n].packet}
FeedSpec == Feed!Spec

\* A with a callback that calls back in.
Hostile == design = "A" /\ \E i \in 1..First : lists[1][i] # "cheap"

\* B and C are "safe against any callback", and A against those that keep out:
\* every call returns.
CallsReturn == \A t \in Threads : (pc[t] # "idle" /\ ~Hostile) ~> (pc[t] = "idle")

\* A callback that calls back into the feed: best_bid() or subscribe().
Reentered(t) == design = "A" /\ packet[t] # 0 /\ pc[t] \in {"quote", "subscribe"}

\* "A survives a callback that calls back in : NO (deadlock)": the call never
\* returns, and sooner or later every other thread is stuck as well or idle.
ReentryHangsAll ==
  \A t \in Threads : Reentered(t) ~>
    [](Reentered(t) /\ \A u \in Threads \ {t} : pc[u] \in {"idle", "lock", "subscribe", "quote"})

-----------------------------------------------------------------------------
(* Why every design is a packet feed, and A an orderly one.                  *)

Labels == {"idle", "lock", "apply", "applied", "load", "notify", "quote",
           "subscribe", "list", "store"}
Books == [seq : Nat, bids : [Levels -> Nat]]
Entries == [packet : Nat, audience : Nat]

TypeOK ==
  /\ design \in Designs
  /\ mutex \in Threads \union {NoThread}
  /\ book \in Books
  /\ lists \in Seq(Seq(Kinds)) /\ Len(lists) > 0
  /\ added \in BOOLEAN
  /\ issued \in 0..Packets
  /\ others \in 0..Others
  /\ pc \in [Threads -> Labels]
  /\ packet \in [Threads -> Nat]
  /\ snapshot \in [Threads -> Books]
  /\ known \in [Threads -> Nat \ {0}]
  /\ subs \in [Threads -> Seq(Kinds)]
  /\ at \in [Threads -> Nat \ {0}]
  /\ copied \in [Threads -> Seq(Kinds)]
  /\ applied \in Seq(Entries)
  /\ heard \in [1..Len(callbacks) -> Seq(Books)]

\* m_ is with the thread inside a guarded block, which in A lasts until on_packet()
\* returns; and so it never gets into the block of a subscribe() from a callback.
Inside(t) ==
  \/ pc[t] \in {"apply", "applied", "list", "store"}
  \/ design = "A" /\ packet[t] # 0 /\ pc[t] # "lock"
MutexInv ==
  \A t \in Threads :
    /\ Inside(t) => mutex = t
    /\ design = "A" /\ packet[t] # 0 => pc[t] \notin {"list", "store"}

\* Every list has one subscriber more than the one before it, and C's copy is of
\* the newest.
ListInv ==
  /\ \A k \in 1..Len(lists) : Len(lists[k]) = First + k - 1
  /\ \A t \in Threads : pc[t] = "store" => copied[t] = callbacks

\* No packet is in two calls, or applied twice; a call's packet is applied once
\* its turn has come.
PacketInv ==
  /\ \A t \in Threads : pc[t] = "idle" => packet[t] = 0
  /\ \A t \in Threads :
       pc[t] \in {"lock", "apply", "applied", "load", "notify"} => packet[t] # 0
  /\ \A t \in Threads : packet[t] <= issued
  /\ \A t, u \in Threads : packet[t] # 0 /\ packet[t] = packet[u] => t = u
  /\ \A n \in 1..Len(applied) : applied[n].packet \in 1..issued
  /\ \A m, n \in 1..Len(applied) : applied[m].packet = applied[n].packet => m = n
  /\ \A t \in Threads :
       packet[t] # 0 =>
         (pc[t] \notin {"lock", "apply"} <=>
           \E n \in 1..Len(applied) : applied[n].packet = packet[t])

\* The book is the one that the packets applied so far make.
BookInv == book = Feed!BookAfter(Len(applied))

\* Who has heard of the n-th packet, and how far the call that brought it has come.
Heard(s, n) == \E k \in 1..Len(heard[s]) : heard[s][k].seq = n
DoneWith(t) ==
  IF pc[t] \in {"applied", "load"} THEN 0
  ELSE IF pc[t] = "notify" THEN at[t] - 1
  ELSE at[t]

\* A call whose packet was the n-th has that book to show, and has shown it to the
\* subscribers up to where it is, who are on its list with everyone it owes it to.
Showing(t, n) ==
  /\ pc[t] = "applied" \/ design = "A" => n = Len(applied)
  /\ pc[t] # "applied" /\ design # "A" => snapshot[t] = Feed!BookAfter(n)
  /\ \A s \in 1..Len(callbacks) : Heard(s, n) <=> s <= DoneWith(t)
Owing(t, n) ==
  /\ pc[t] = "applied" => applied[n].audience <= Len(callbacks)
  /\ pc[t] = "load" =>
       at[t] = 1 /\ known[t] <= Len(lists) /\ applied[n].audience <= Len(lists[known[t]])
  /\ pc[t] \notin {"applied", "load"} =>
       /\ applied[n].audience <= Len(subs[t]) /\ Len(subs[t]) <= Len(callbacks)
       /\ DoneWith(t) <= Len(subs[t])
CallInv ==
  \A t \in Threads : \A n \in 1..Len(applied) :
    applied[n].packet = packet[t] => Showing(t, n) /\ Owing(t, n)

\* Nobody has heard of a packet before it was applied.
HeardInv ==
  \A s \in 1..Len(callbacks) : \A k \in 1..Len(heard[s]) :
    heard[s][k].seq \in 1..Len(applied)

IInv ==
  TypeOK /\ MutexInv /\ ListInv /\ PacketInv /\ BookInv /\ CallInv /\ HeardInv /\ HeardInOrder

=============================================================================
