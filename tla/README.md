# A TLA+ model of cpp-interview-workbook

The repository is a workbook of about thirty-five small C++20/23 programs, each
about one idea. The ones with algorithms are modelled one by one: a Disruptor ring, a
lock-free SPSC queue, a seqlock, four designs of a market data feed, two object pools,
the store buffering litmus test. They are written against the C++ memory model, and so
are the models: stale loads and reordering are part of them. Two more models gather
what is smaller: the programs that measure memory, and the sequential worksheets.

Paths are relative to the repository, whose sources are in `src/` (`J4:72` is
`src/J4_disruptor.cpp` line 72, and so on). `PROJECT.json` maps every
definition of these modules to the lines it stands for.

- [The system](#the-system)
- [The modules](#the-modules)
- [What the runs check](#what-the-runs-check)
- [What is proved](#what-is-proved)
- [What was found](#what-was-found)
- [What is not modelled](#what-is-not-modelled)
- [Plan](#plan)

## The system

The programs do not call each other. Inside a program the components interact
through shared memory (atomics, plain memory behind them, mutexes) and through
callbacks that run on the caller's thread.

| Component | State | Operations | What is hard | What makes it correct |
|---|---|---|---|---|
| **J4 Disruptor** (`J4_disruptor.cpp`) | `slots_`, `cursor_`, one gate per consumer, the producer's `cached_gate_` | `claim`, `slowest_consumer`, `operator[]`, `publish`, `wait_for`, `run_consumer`; fan-out or a chain | every index is loaded by other threads and may be stale; batches; wrap-around; back-pressure | no race on a slot, every consumer sees every event once, in order, intact; the slowest consumer is never lapped; in a chain nobody overtakes; everybody finishes |
| **J2 SPSC queue** (`J2_spsc_queue.cpp`) | `buffer_`, the two indices modulo N, a private copy of the other side's index | `push`, `pop`, acquire/release or seq_cst, cached or not; `run()` twice on one `static` queue | stale private index modulo N; full against empty; what the first run leaves for the second | FIFO of N-1 items, no race, no overrun, no underrun, both threads return |
| **J3 seqlock** (`J3_seqlock.cpp`) | `seq_`, `data_[8]`, all atomics, two fences | `write`, `try_read`, `read`, driven by `hammer` | relaxed accesses reorder around the two fences; readers starve while a writer is busy | no torn snapshot, no reader goes back in time, readers return once the writer pauses |
| **F1 FeedA, B, C** (`F1_feed_handling.cpp`) | `book_`, subscribers, a mutex; C an `atomic<shared_ptr>` to the list | `on_packet`, `subscribe`; A calls back under the lock, B on a copy, C on a shared immutable list | a callback that re-enters or subscribes; notifications out of order once the lock is dropped; a list that is stale when used | no deadlock, each callback gets the book as it was after some packet, a subscriber hears of every packet after it subscribed |
| **F1 FeedD** | `book_`, `seq_` | `on_packet` (owner thread), `read_snapshot` with 16 attempts | the book is plain memory, `seq_` is marked without fences | a snapshot that is accepted is consistent; a reader is never stuck |
| **G1, G2 object pools** | a free list in union slots and an occupancy bitset; `optional` slots and a stack of free indices | `allocate`, `deallocate`, owning handles | a constructor that throws; constructors and destructors that use the pool | no slot given out twice, none lost, every object destroyed once |
| **H1 raw storage** | raw bytes, a count of live objects | `RawStorage`, `RawBlock`, `construct_all`, destruction | the k-th constructor throws | exactly the constructed prefix is destroyed, the block can be used again |
| **H2 tagged union** | `Value`, and a tag over non-trivial members | `set`, `clear`, destruction | a text that cannot be made after the old member is gone | the tag names the live member |
| **J1 store buffering** | two atomics, two registers, three semaphores | `litmus_side`, `run_litmus` under each memory order | which outcomes an order forbids; rounds that could mix | both read 0 never under seq_cst, each round by itself |
| **I1 counters** | one static buffer, two arrays of atomics | `measure`, `measure_readonly`, `measure_atomic`, again and again on the same memory | increments that are not atomic; two strides over one buffer | no two threads on one counter, no increment lost |
| **I2 to I5 walks** | a mapped region with a chain of links, a hardware counter | link, patch, warm, walk with the counter on | nothing checks that the chain is one ring, or that a time or a miss is put down to the right load | one ring through every cell, columns and misses of timed loads only |
| **I2 shootdowns** | go, stop, workers' pages and the disruptor's | `run_workers` | starts and ends of threads | all workers in full, the disruptor stops |
| **K3, K4, J1 to J3, I2, I5: programs that are run and files that are read** | temporary files, child processes, pipes | `text_bytes`, `compile_seconds`, `compile_snippet`, `symbol_count`, `show`, `symbols_matching`, `tlb_shootdowns`, `read_meminfo_kb` | each step may fail; readers that stop early | no file, process or stream is left, what is reported is what was printed |
| **A3, A4, F2 shared ownership** | control blocks | `make_shared`, links, end of a scope | cycles; arguments in any order, one of which throws | a leak if and only if there is a cycle |
| **Worksheet algorithms** (A1, B1, C1, C2, C4, F2, I1 to I5, K1 to K4) | none | powers, CRC table, folds, comparisons, growth, erasing, a text buffer, percentiles | boundaries | equal to their definitions |

`PROJECT.json` lists under `hazards` the lines where these go wrong and the
property that would tell.

## The modules

| Module | Models | Size of the state |
|---|---|---|
| `Disruptor` | J4: the ring, its producer and consumers | cursor, gates, slots, each thread's position and knowledge |
| `BroadcastLog` | what J4 promises: a bounded log every consumer follows | three counters |
| `Spsc` (`MCSpsc` gives `Items` its value) | J2: the queue, both threads, successive calls of `run()` | both index histories, slots, positions |
| `BoundedFifo` | what J2 promises: a bounded FIFO, round after round | a sequence and two counters |
| `SeqLock` | J3: writer and readers over relaxed atomics and fences | store histories with views, positions |
| `SnapshotRegister` | what J3 promises: a register of whole updates, monotone for each reader | a counter and one snapshot each |
| `Feeds` (`MCFeeds` gives the subscribers of its run) | F1 designs A, B, C: several threads that apply packets and subscribe, callbacks that call back in | mutex, book, list of subscribers, each thread's call |
| `PacketFeed` | what A, B and C promise: every subscriber is called with the book of every packet it is owed | the packets applied, the books heard |
| `FeedD` | F1 design D: owner thread and one snapshot reader | store histories, positions |
| `PoolCalls` | what G1 and G2 have in common: slots, lives of objects, the stack of calls in progress | three variables, no actions |
| `PoolUnion` | G1: free list in the slots, occupancy bitset | links, head, bitset |
| `PoolOptional` | G2: `optional` slots, stack of free indices, handles | slots, stack, handles |
| `ObjectPool` | what both promise | lives and calls only |
| `Pools` | G1 and G2 given the same calls | both, in lockstep |
| `Litmus` | J1: `run_litmus()` and its two sides, three memory orders | store histories with views, semaphores |
| `PointerChase` | I2 to I5: the six walks | the region's words, position, columns, the hardware counter |
| `FalseSharing` | I1: three kinds of call and their threads | the counters, each thread's loop |
| `Shootdowns` | I2: workers and disruptor | pages, flags, each thread's loop |
| `MutexProtected` | J3: the mutex next to the seqlock | words, mutex, positions |
| `Measurements` | the four above, one picked at the start | |
| `ManualLifetime` | H1, H2: five uses of raw storage and unions | cells, tag, counts |
| `Ownership` | A3, A4, F2: shared and weak pointers | states and counts of two nodes |
| `Snippets` | K3, K4, J1 to J3, I2, I5: programs that are run, files that are read | files, child, pipe |
| `Computations` | the worksheet algorithms | input and result |
| `Exercises` | the four above, one picked at the start | |
| `DisruptorProofs`, `SpscProofs`, `SeqLockProofs`, `FeedsProofs`, `FeedDProofs`, `PoolProofs` (both pools), `LitmusProofs`, `ProgramsProofs` (`PointerChase`, `FalseSharing`, `Shootdowns`, `MutexProtected`, `ManualLifetime`, `Ownership`, `Snippets`) | the theorems | |

**Memory model.** An atomic is the history of the stores made to it. A load may return any
store that is not older than one the loading thread has already seen or learnt of. A release
store (or a relaxed store after a release fence) carries what its thread knew; an acquire
load (or an acquire fence after a relaxed load) learns it. How much a store has to carry
differs: in J4 and J2 only which slot accesses are over (`writesKnown`, `readsKnown`); in J3
and FeedD a full view, the oldest store of every location that may still be returned. In J1
what matters is that a load may be older than the thread's own store, so a seq_cst load is
one that returns no store older than the last seq_cst store before it. In the others no
thread waits for its own stores to be seen and then decides differently: load buffering and
store buffering give nothing more. Plain memory is covered by race freedom: the accesses to
J4's and J2's slots are properties (`NoDataRace`), not assumptions. A read of J2's buffer
that did race would be allowed to return `Torn`.

**Disruptor.** `claim()` with `slowest_consumer()` is `ClaimCached` (no load needed)
or `ClaimScan`, one `LoadGate` for each consumer, and `ScanPass` or `ScanStall`.
`WriteSlot` is the write through `operator[]`, `Publish` the release store of the
cursor. `WaitFor(c, m)` is `wait_for()` by the store `m` its load returns (it
spins by not being enabled for one that is too old), `Process` is one
iteration of the batch loop of `run_consumer()`, `ReleaseGate` the store to its
gate. The early return of `wait_for()` on `stop` is left out because `stop` is
stored after the joins.

**Spsc.** `push()` is `PushFast` (the private copy shows room) or
`PushAllowed(k)` / `PushRefused(k)`, where store `k` of the read index is loaded,
then `PushWrite` and `PushStore`; `pop()` alike. `NextRun` is `main()` calling
`run()` again for the same queue type: the queue is `static` in `run()` (J2:151), so
its indices start wherever the last run left them. That the first loads of a new
run may be no older than the last of the one before follows from the joins.

**SeqLock.** `StoreOdd` (with the release fence), `StoreWord` and `StoreEven` are
`write()`. `FirstBusy`, `FirstEven`, `LoadWord`, `ReadReturns` and `ReadRetries` are
`try_read()` inside the loop of `read()`, the acquire fence being part of the
last two. `p` records what each `read()` returned and `torn` is `hammer()`'s count.

**FeedD.** `StoreOdd`, `WriteLevel`, `WriteSeq` and `StoreEven` are `on_packet()`.
`FirstBusy`, `FirstEven`, `CopyPart`, `SecondEqual`, `SecondDiffers` are
`read_snapshot()`, `Returned` and `ReaderEnds` the reader's loop in `main()`. The
constant `InOrder` chooses between what C++ guarantees and a build that reorders
nothing.

**Feeds.** `design` is chosen in the initial state and never changes, so that one run
compares the three. `LockForPacket`, `Apply`, `LeaveBlock` and, for C, `LoadList` are
`on_packet()` up to its loop; `CallBack`, `CallBackQuoting` and `CallBackSubscribing`
are one turn of that loop by what the callback does, `PacketReturns` its end.
`LockForSubscribe` with `PushBack` (A, B) or `CopyList` and `StoreList` (C) is
`subscribe()`, whether a thread or a callback calls it; `BestBid` is `best_bid()`. What
m_ protects is plain state; only C's list pointer is loaded without it, and has a
history.

**Pools.** One thread, but T's constructor and destructor run inside the pool's calls
and may call the pool again. So each call is two actions: `Allocate` pushes a
frame and stops where the constructor starts, `Constructed` or `ConstructorThrows`
goes on from there; `Deallocate` (`Recycle` in G2) stops where the destructor
starts and `Destroyed` goes on. `calls` is the C++ call stack. `End` is the pool's own
destructor, by the bitset in G1 and by `~optional` in G2. It is one step: the destructors that
run in it are assumed not to use the pool, whose bits G1 is reading slot by slot (G1:66-71). `chain` in `PoolUnion` is a
history variable: the free slots in the order of the list. `handles` counts handles
because with G2 there may, wrongly, be two for one slot.

**Litmus.** `Reset` (of x and of y), `Begin` (the two posts), `WaitDone`, `LoadR1` and
`LoadR2` are `run_litmus()`; a side waits, stores 1, loads the other's atomic, stores its
register and posts (`WaitBegin` to `PostDone`). A semaphore hands the views of its posts on.
`order` is chosen at the start.

**PointerChase.** `walk` says which program it is. `LinkLine`, `LinkPage`, `LinkComb`, `LinkRing`
are the bodies of the linking loops and `Patch` the second pass of I4. `Warm` is the
untimed walk, `Open`, `Start` and `Stop` the hardware counter, `Timed` and `Split` one timed load
each, `Unmap` the end. Every load counts as a miss, so that what is counted says which
loads it was. Addresses count units of four bytes: the offset 4092 of I2 is a unit.

**FalseSharing, Shootdowns, MutexProtected.** An action is one load or store of a counter,
one touch of a page, one word copied, or a start or join of a thread. `FalseSharing` calls
one function after the other on the static buffers, as `main()` does; `due` is what the
counters should be.

**ManualLifetime.** A cell that is built over, destroyed twice or read while another
member is active becomes "lost". `construct_all()` is `CallConstructAll`, `BuildOne` or
`ConstructorThrows`, `Unwind`, `Rethrow`; Tagged's `set()` is `Set`, `Clear`, `Write`, `Tag`.

**Ownership.** `main()` of A4 makes each node point at the other; here the links may be made in
any way before the scope ends. `todo` holds the destructors that are still to run, the
innermost first.

**Snippets.** The caller, and the program it has started as a process of its own:
`ChildStarts`, `ChildWrites`, `ChildPrints`, `ChildEnds`, `BrokenPipe`. `System` and `Wait` are
`system()`; `Popen`, `Fgets`, `EndOfFile`, `Close` and `Pclose` are what every reading loop is made
of, `Counted` and `Breaks` what each does with a line. A file of /proc is a stream without
a child.

**Measurements, Exercises.** The programs share nothing, so one is picked in the initial state
and the variables of the others stay as they are. The two name their definitions apart, so that
`ProgramsProofs` can extend both.

In the concurrent modules an action is one access to memory that another thread uses. What a
thread does to its own variables is merged with the access before or after it.

## What the runs check

| Run | Question | Instance | Answer |
|---|---|---|---|
| `disruptor_fan_out` | Can the ring lose, tear, repeat or overwrite an event, or get stuck, with consumers side by side? | ring of 2, 2 consumers, 5 events | no: it never laps, a stale gate never promises too much, everybody ends |
| `disruptor_chain` | The same, with consumer 1 gated on consumer 0. | the same | no: implements `BroadcastLog`, consumer 1 never touches what 0 has not released, and some thread can always go on |
| `spsc` | Do the private copies of the indices ever let a push overwrite or a pop run ahead, also in a second `run()`? | N = 4, runs of 11 and 6 items | no: race-free, implements `BoundedFifo`, both runs return |
| `seqlock` | Can a reader accept a mixture of two updates, an unfinished one, or an older one than before? Does a read return? | 2 words, 3 updates, 1 reader with 2 reads | no: implements `SnapshotRegister`; yes, once the writer pauses |
| `feeds` | Is a subscriber ever missed, told twice or shown a book that never was? Who gets stuck when a callback calls back in? | 2 threads, 3 packets, 1 other call, 2 subscribers of each kind the design allows | all three implement `PacketFeed`; in A everybody hears in order; every call returns, except that A with a callback that calls in hangs, and with it the whole feed |
| `feedd_in_order` | Is FeedD's snapshot consistent if nothing is reordered, and is a reader ever stuck? | 2 levels, 4 packets, 3 attempts, fairness for the reader only | consistent, and it is the book the first load announced; never stuck, even if the writer stops inside a packet |
| `feedd_reordered` | Is it consistent under what C++ guarantees? | the same | no: see below |
| `pools` | Is a slot ever given out twice, lost, or left unlinked when calls nest and constructors throw? Do the two pools do the same? | 3 slots, 3 nested calls | no; both implement `ObjectPool`, and give out the same slots as long as no constructor calls the pool; G2's stack holds each free index once (part of `SameSlots`) |
| `litmus` | Do J1's rounds mix, and under which orders do both sides read 0? | 3 rounds, each of three orders | they do not; under seq_cst never, under the two others it happens (the mutant of `SeqCstExact` is such an order) |
| `measurements` | Do the walks go where they should and the columns and counters show what they should? Can I1 lose an increment, a worker of I2 be cut short, the disruptor run on, J3's mutex let a torn payload out? | 3 pages of 3 lines, every shuffle; 3 threads, 4 iterations, 2 calls; 3 workers of 2 batches of 3 touches; 2 words, 3 reads | they do; no, no, no, no |
| `exercises` | Does every object die once, what leaks, what is left behind when something fails, can a function and the program it has started wait for each other, are the algorithms right? | blocks of 3; 3 links; 2 calls, 3 lines, a pipe of 1; 8-bit words, 4 elements | yes; cycles only; nothing; no; yes |
| `pool_reentrant` | Does G2 bear a constructor that allocates from the same pool? | the same | no: see below |

The run is for the variant of J2 with private copies and acquire/release, where every
load may be stale; the theorems below hold for all of its variants. "Genuinely full"
and "genuinely empty" (J2:89, J2:109) are not properties: under acquire and release a load
of the other side's index may be stale, so a refusal may be about a moment that is
past. Nothing depends on more: the caller tries again.

That no slot of the ring is raced for, that it implements `BroadcastLog` and that its threads never
all wait for one another (`NoStandstill`) is checked by `disruptor_chain`; for the fan-out it is part
of what the theorems below say for every instance.

`HeardInOrder` is about A only. B and C release the lock before the calls, so with two threads in
`on_packet()` a subscriber may hear of the later packet first; F1 has one thread that applies
packets and claims no more. What `FeedSpec` does say of their order is that nobody is called
for a packet once its `on_packet()` has returned, so packets are out of order only while their
calls overlap, and those of one thread never are. Who subscribes after a packet was applied may hear of it or not (C
loads the list late); who was subscribed before must.

**Bounds.** Every bound is a CONSTANT: how many events, items, updates, packets and reads
there are (the programs' own loops are bounded too), and how deep calls nest.
- The ring has two entries and takes five events, so it is refilled two and a half
  times: the producer meets a full ring, a stale gate and a stale `cached_gate_`, and
  every slot is reused. Two consumers suffice for a slowest and a faster one, and for
  a chain.
- The queue has four slots (three items). The first run of eleven items leaves both
  indices at 3, so that the second starts off zero and wraps again. Each wraps at
  least twice, which is where an index modulo N could be mistaken for its
  predecessor.
- Two words and three updates are the least that tear in every way: a mixture of
  adjacent updates, of updates two apart, of a begun and a finished one. Two reads
  let the second be compared with the first.
- Two threads, three packets and one further `subscribe()` or `best_bid()`: two
  packets overlap, a third follows, and a subscription comes in at any point of either.
- Three slots and three nested calls: a call within a call within a call, with each slot
  at the front, in the middle and at the end of the list.
- Two levels and four packets of FeedD: each level is written twice. Three attempts stand for
  sixteen; that one is spent is what matters.
- Three rounds of the litmus test: two that could mix, and one after an even number.
- Three pages of three lines have every kind of neighbour, a middle, and orders that
  are not rotations; two passes, so that the second meets what the first has left. A line is four units:
  a link and a hint. All shuffles are tried, where the programs use one seed.
- Three threads of four increments: the fewest for `measure_atomic()`'s quarter; two calls
  with both strides. Three workers, so that one may end while another begins.
- Three cells: an exception at the first, in the middle, at the last. Three settings of a `Tagged`
  and three links make every order of kinds and every shape of two nodes.
- Two calls of the functions that run programs: the second starts where the first
  has failed. Three lines and a pipe of one: `show()` needs a head, an instruction and an end,
  and a writer that waits. Eight bits for `std::uint64_t`: every word is tried.

The theorems below remove these bounds from the safety properties.

**Fairness.** Threads are scheduled: weak fairness of each thread's next step,
as the programs rely on for their joins. A load that is repeated does not return
an old value for ever ([intro.progress]: stores become visible in finite time):
strong fairness of the load that returns the newest store (`LoadFreshGate`,
`LoadFresh`, the SF conjuncts of `Spsc`). It is weak nowhere it would have to be
strong: the producer's scan of J4 passes every gate in turn, so the load of one gate is
not continuously enabled. The mutex of F1 is only weakly fair, which suffices because
calls are few. `measurements` assumes that `main()`, each worker and the disruptor are
scheduled. J1, J3's mutex and the sequential programs need no fairness: where they could
stop there would be a deadlock, which TLC looks for (of the pipes, `NeverBothWait` says it). `seqlock` and `feedd_in_order`
assume less, on purpose: the specification of `seqlock` has fairness for the writer
alone, whose `write()` has no loop and no lock to wait in, and `ReadsReturn` takes the fairness of the readers as its
hypothesis; `feedd_in_order` has fairness for the reader alone, so that a dead writer stops
no reader. In `seqlock`, readers return because the writer's loop ends, which the bound on
updates stands for: while it goes on without a pause a reader may retry for ever, as J3's
own table of retries shows.

**Deadlock** is checked wherever the program may not stop. It is off in `feeds`, because A
really deadlocks there and `ReentryHangsAll` says when and how, and in `pool_reentrant`, which
looks for one state.

**Mutants.** Each property is paired, in `PROJECT.json`, with a small plausible bug
(a relaxed store, a missing fence, an off-by-one in the wrap test, a re-check
dropped) that makes exactly that run fail. The mutated operators stand next to
the right ones, marked `mutated`.

## What is proved

TLAPS checks these for every value of the constants that the modules' assumptions
allow: any ring size, any number of consumers, readers, words, items, runs, threads,
packets, subscribers, slots, nested calls, rounds, workers, pages, lines in a page, passes,
cells, assignments, calls, lines, bits of a word and arguments in a pack.

| Theorem | States |
|---|---|
| `DisruptorProofs!Invariant` | `Spec => []IInv` |
| `RaceFree`, `Intact`, `Gating`, `CachedGateSafe`, `BatchBound`, `Chain` | the properties of the runs, from `IInv` |
| `Standstill` | `Spec => []NoStandstill`: some thread is held up by no other |
| `FreshGates` | the newest store of the gate that the scan is at can always be loaded |
| `ImplementsLog` | `Spec => LogSpec` |
| `SpscProofs!Invariant` | `Spec => []IInv` |
| `RaceFree`, `Validity`, `BoundedQueue`, `NoUnderrun` | the properties of the runs |
| `FullOrEmpty` | the two tests mean what they should when the indices are the newest |
| `SpscProofs!Standstill`, `OneSlotHoldsNothing` | push and pop never hold each other up if N is at least 2; if it is 1 nothing is ever pushed |
| `ImplementsFifo` | `Spec => FifoSpec` |
| `SeqLockProofs!Invariant`, `NeverTorn`, `ImplementsRegister` | `Spec => []IInv`, no torn read, `Spec => RegisterSpec` |
| `FeedsProofs!Invariant` | `Spec => []IInv`, whichever of A, B and C it is |
| `OrderedUnderTheLock` | in A everybody hears in order (`HeardInOrder`) |
| `FeedIsPacketFeed` | `Spec => FeedSpec`, for each of the three |
| `ReentryIsForEver` | `Spec => ReentryHangsAll`: in A a callback that calls in hangs the feed for good |
| `NobodyHeldUpForEver` | otherwise who waits, waits for one that is at work |
| `FeedDProofs!TypeCorrect` | `Spec => []TypeOK`, whatever is reordered |
| `AnnouncedInOrder`, `ConsistentInOrder` | `InOrder => (Spec => []SnapshotAnnounced)`, and `SnapshotConsistent` |
| `PoolProofs!UnionPoolIsSound` | `Spec => []IInv` of `PoolUnion` |
| `ExhaustedExactlyWhenFull` | `allocate()` gives up exactly when no slot is empty |
| `UnionPoolIsObjectPool` | `Spec => PoolSpec` |
| `OptionalPoolIsSound`, `HandlesFindObjects`, `OptionalPoolIsObjectPool` | the same of `PoolOptional` as `Pools` uses it: no constructor calls it |
| `OptionalBesideUnion`, `BothGiveOutTheSame` | `BothSpec => OptionalIsPool`, `BothSpec => []SameSlots` |
| `LitmusProofs!RoundsNeverMix` | `Spec => []RoundsApart`, under each of the three orders |
| `SeqCstForbidsBothZero` | `Spec => []SeqCstExact` |
| `NoDeadlock`, `NoPostLeft` | one of the three threads goes on until main has joined, and then no semaphore has a post left |
| `ProgramsProofs!Inductive` | `Spec => []IInv` of walks, counters, workers and mutex |
| `EveryWalkIsTrue` | `Spec => []WalksTrue`: the chains are rings, times and hints are in step, misses are of timed passes |
| `NoIncrementLostNoReadTorn` | `Spec => []NothingLostOrTorn` |
| `EveryWorkerRunsInFull` | `Spec => []WorkersRunInFull` |
| `ProgramsProofs!NoStandstill` | whoever is joined or has the mutex can go on |
| `ProgramsInductive` | `ExercisesSpec => []ProgramsIInv`: lifetimes, owners and programs that are run |
| `NoObjectForgotten`, `NothingLeaksButCycles`, `CallsCleanUp` | `ExercisesSpec => []LivesOnce`, `[]LeakIffCycle`, `[]NothingLeftBehind` |
| `PipesNeverBlock` | `ExercisesSpec => []NeverBothWait`: no function and its program wait for each other |
| `LoopsMatch` | `ExercisesSpec => [](input.of \in ProvedKinds => MatchesDefinition)`: nine of the fifteen algorithms |

Each invariant theorem is the usual induction: `IInv` holds initially and every action
preserves it, one lemma for each action. The properties alone are not inductive,
because they speak of what is and the steps act on what a thread believes.

- **Disruptor.** `NeverLapped` needs that the producer's cached gate is no more than
  what it knows to have been read, which is no more than what the consumer has
  released, and that every store, however old, carries what its value says
  (`StoresInv`). `ProducerInv` and `ConsumerInv` are these chains of inequalities;
  `SlotsInv` says the last N events are in the ring, so what a consumer may touch is
  there. That a slot is named by `s % N` comes in through `ModWindow`: two
  numbers less than N apart have different remainders. `NewestInv` says that the newest store of
  each atomic is there to be loaded. Then for `NoStandstill`
  the first consumer along the chain that is behind the cursor is not waiting
  (`FirstBehindGoesOn`), and if none is behind it, the producer has room.
- **SPSC.** The indices only say how many pushes and pops there were modulo N.
  `ProducerInv` keeps a witness: the private copy is the remainder of some count
  k that the producer knows of, and from k there is still room. So a full test on
  remainders is one on counts, since the counts differ by less than N (`FullOrEmpty`), and both
  sides could be held up at once only if a queue were full and empty: that is N = 1, which
  the `static_assert` lets pass, a power of two (`OneSlotHoldsNothing`).
- **Seqlock.** `SeqInv` and `WordsInv` say what the stores carry: an even value
  of `seq_` carries all words of the update, and a word of update k carries that `seq_`
  was odd for k. `ReaderInv` turns this into: each word copied is of update s1/2 or
  later, and one that is later has told the reader that `seq_` has moved. With the
  acquire fence, the second load then cannot return s1.
- **Feeds.** Three designs in one induction. `MutexInv` says who is inside: one
  thread, and in A also during its callbacks. `BookInv` says that the book is
  `BookAfter(Len(applied))`, and `PacketInv` that a call's packet was applied once, at one
  place n of that order. `CallInv` is the heart: the call with the n-th packet has the
  book after n to show, has shown it to exactly the subscribers on its list up to
  where it is, and whoever it owes the packet to is on that list. B copies the list with
  the book, C loads it later, so that `ListInv` (lists only grow) is what makes
  C's late list long enough. `HeardInOrder` follows from the mutex, and for the
  refinement a return from `on_packet()` is a call that is done with its list.
  `ReentryHangsAll` is a temporal formula but needs no fairness: a thread that waits for
  a mutex it has itself stays there, whatever else happens. For the others `HeldInv` says
  that the mutex is held only by a call that is under way, and `GentleInv` that in A,
  without such callbacks, no list has one and nobody has called back in.
- **FeedD.** Without reordering, only. `WriterInv` ties `seq_` to the packet on its way and to
  the parts that it has written; `ReaderInv` says that as long as `seq_` is what the first
  load returned, each part copied is of the book it announced. The hypothesis
  `InOrder` is what the other run shows cannot be dropped.
- **Litmus.** `PhaseInv` counts the posts: main and the sides go through a
  round in step, and nobody begins a round before the other side has posted in
  the last. `StoresInv` then knows the place of each store of this round in its history, and
  `KnowledgeInv` that the posts and waits have passed on as much of it as the next reader
  needs, so that no load, however relaxed, is of an earlier round. `SeqCstInv` adds what a seq_cst
  load may not miss; the side that loads second then finds the other's 1. `NoDeadlock` reads
  the same counts the other way: for each wait that is to come there is a post or a side that
  has still to post.
- **Measurements.** Four kinds of program that share nothing: one steps, the others' invariants
  stay. For the walks, `OnChainInv` says that the first so many pages or lines are linked as
  they should be, the rest yet to come (`LinkedUpTo`), and that the walk is at a place k of the
  chain. `Chain` gives that place as a function of k, by `div` and `%` where there are lines in
  pages (`GridRing`), so that a chain through any permutation is a ring because one link leads
  from place k to the next (`IsRing`), and the orbit from anywhere takes every place by an
  induction along it (`RingWalked`). That `Patch` finds the last line of its page, the one which
  points at itself, is `SelfLinkIs`: every other line of that page already leads on. `StrideInv`
  says that ring and comb are at place `step`, their columns so far
  filled up to there (`BucketsGrow`), and the hint one page on. `CounterInv` says that the
  counter has the loads of this pass and `misses_total` those of some of the passes before.
  For I1 a counter lacks exactly what its thread still has to add (`CountersInv`), which needs
  that index times stride names a different word for each thread (`Layout`). For I2 the touches
  found in a worker's pages are those of its batches (`TouchesInv`): a sum over the
  region's cells, given by a witness function, that one touch raises by one (`SumGrows`); what
  `run_workers()` has done tells what is mapped and who can run (`OrderInv`). For J3's mutex
  the words before the writer's place are of this update, the others of the last. `NoStandstill`
  adds who can go on: a worker that is joined has been let go, the disruptor has been told to
  stop, the mutex is held between two words only.
- **Exercises.** `LifetimeInv` says that the cells with an object are a prefix, and how long
  it is where the program stands: every construction and every destruction is at its end
  (`PrefixGrows`, `PrefixShrinks`), so that `construct_all()` takes down what it built and no
  more. `CountedInv` says of the two nodes that a count is what is there to be counted: what is
  held, the pointers of live nodes and those being destroyed; and `StateInv` that the count
  says whether a node is alive, and that of two waiting pointers the second is one to a
  destroyed node. When all is let go, a live node is held by a live node, and of two nodes that
  is a circle (`OnlyCyclesLeak`). For the programs that are run, `ChildInv` and `FilesInv` say
  what there is of files, process and stream at each place of a call, and `LinesInv` that the
  lines in the pipe are the last that were printed; so `count` can be said to be of the lines
  taken (`TallyInv`, `ShowInv`), and a line that is printed after the reader broke off is
  one that does not count (`OverIsOver`). A pipe is open just while it is read, so a program
  that has no room in it is one whose lines can be read (`NeverBothWait`).
- **The algorithms.** A loop is a recursive function of the rounds, which TLA+ defines by CHOOSE: that
  it computes its closed form needs that there is such a function and that two of them agree,
  an induction over rounds (`RoundByRound`, `SameRounds`; stated of a set of numbers, since the
  library's induction takes a predicate). The folds of the community modules are one such
  function over subsets: `SameFolds` and `FoldExists` say the same of those, `LeftFoldIs` and
  `RightFoldIs` of folds along a sequence, and `AnyOrder` of those whose order makes no difference,
  such as `SumFunction()` in the definitions. For the CRC, shifting a round's result up again
  adds the generator or nothing (`RoundReduces`), so after eight the word and the result
  differ by a multiple.
- **Pool.** The list in the slots is hard to speak of by itself: that it has no cycle and
  misses no slot is about all links at once. `ListInv` says that the links agree with
  `chain`, and the rest is about a stack: `Allocate` takes its last element
  (`PopSeq`), the throwing constructor and `deallocate()` append one (`PushSeq`,
  `PushKeepsList`). `CallsInv` says that each call in progress has its own slot, so what
  nested calls do in between leaves it alone. In G2 the stack is an array with a count:
  that it never overflows follows from its entries being distinct empty slots
  (`RoomForOne`, a pigeonhole argument), and since it pops late, the slot of the one constructor
  that runs is still on top (`ConstructorInv`). That holds for as long as no constructor
  calls the pool, as `pool_reentrant` shows; so `Pools` takes G2 with `CtorUsesPool = FALSE`.
  For `SameSlots`, both pools start from the same order of the free slots and keep it.

Assumptions: those named `ConstantsAssumption`, `RoundsAssumption`, `ExercisesAssumption` and
`MeasurementsAssumption` (types of the constants; a cache line holds whole words, and
iterations divide by the four of `measure_atomic()`) and, in `Disruptor` and `Spsc`,
`PowerOfTwo`, the `static_assert` by which a mask is a remainder; no proof uses it. The
model has `% N` where the code has `& (N - 1)`. `FeedD`'s theorems on snapshots have the hypothesis
`InOrder`, which is a choice of the build; the runs take it either way.

Only model-checked:
- the liveness properties `AllConsumed`, `AllDelivered`, `ReadsReturn`,
  `CallsReturn` and `DisruptorStops`, since TLAPS does not handle fairness. Their safety halves are
  proved for the ring, the queue, the feeds and the measurements: where one thread waits,
  another can go on;
- six of the fifteen kinds of `MatchesDefinition`: powers and numbers of ones, because the provers
  know nothing of `b ^ e` for a variable; the two ways to erase, percentiles and medians,
  because `SelectSeq` and `SortSeq` have no definition for them. The nine others are proved, the growth
  of a vector for up to the 17 elements that the run has too (`CapacityFor` knows the powers to 32);
- FeedD under what C++ guarantees, where the
  property fails.

## What was found

`feedd_reordered`: F1:185 says that a seqlock "lets outside readers take a
consistent snapshot", and FeedD's does not in the C++ memory model. It marks an
update with release stores of `seq_` (F1:192, 195) and looks again with an acquire
load (F1:206), with no fence between them and the plain accesses to the book. A release
store does not keep the write that follows it from being seen first, nor does
an acquire load keep the copy that precedes it from being made later. TLC needs one packet:
the reader copies a level the packet has written, and the old `Book::seq`, and sees
0 both times. J3 puts fences in both places, and says so of F1 (J3:310-319). On
x86, compiled in order, it does not happen (`feedd_in_order`).

`pool_reentrant`: G2's `allocate()` constructs first and commits after (G2:89-95). A
constructor that allocates from the pool it is being built in finds its own slot
still on top of the free stack: two handles for one slot, a free slot lost, and when the
second handle dies the assertion "double free, or never allocated" (G2:117) fails
although no handle was used twice. G1 unlinks first, and the run `pools` shows it sound in
that case. The workbook's own element types do not call the pool, and nothing in G2
says that they must not.

`feeds` confirms what F1 says of itself (F1:252-264): A does not survive a callback that
calls in, B and C do.

## What is not modelled

- Timing, pinning, cache and TLB effects, what `objdump`, `nm`, `g++` and `clang` print, tables and
  plots: output, not behaviour.
- What the compiler deduces or folds: most of K1 and K2, the layout sections of H2, K3's
  instantiations, K4's `consteval` and `constinit`.
- A2, B2 to B4, C3, D1 to D3, E1, E2 and F2's test2 and test3: straight lines that show one rule
  of the language or the library. No step depends on state that an earlier one left.
- J4's `stalls_`, `batches` and `max_batch`, J3's retry count: printed only.
- Overflow of J3's and J4's 64-bit counters: centuries away.
- FeedD's `subscribe()` and callbacks: the part of `main()` that races a reader has
  none, and they run on the owner thread alone.
- The control reader of J3's `main()` that ignores the check: it is there to be torn.
- The rounding of floating point in percentiles (I2:270): the index is taken exactly.

Things met on the way that no property is about: `run_workers()` does not test what
`map_region()` returns (I2:279, 283), as the other callers do; `compile_snippet()` says ok
if the compiler cannot be started or fails without a line that says "error:" (K4:58); the
warm-up that is to "prove the chain is a cycle" (I2:174) drops its result; that no `Widget`
is made when `mayThrow()` throws (F2:159) is so for one of the two orders of evaluation.

## Plan

Done: every component with behaviour of its own, as the tables above say; the proofs of every
invariant and every refinement that the runs check, of `MatchesDefinition` for nine algorithms; and
that no thread waits for one that waits. To come:

1. The six algorithms that are left, should the provers learn of powers and of `SelectSeq`.
2. J4 with its `stop` flag stored before the joins, as a program that ends early would do; the early
   return of `wait_for()` would then be part of the model.
