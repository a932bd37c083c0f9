---------------------------- MODULE FalseSharing ----------------------------
(***************************************************************************)
(* The counters of I1: measure(), measure_readonly() and measure_atomic()  *)
(* and the threads they start, one call after the other as main() makes    *)
(* them.  g_buffer and the two stores of measure_atomic() are static: each *)
(* call goes on from what the calls before it have left there.             *)
(*                                                                         *)
(* A plain increment is a load and a store with nothing to keep another    *)
(* thread from between.  That is sound only while no two threads have the  *)
(* same counter, whatever the stride (I1:66).  A unit of address is one    *)
(* 64-bit word.  Pinning and times are left out.                           *)
(***************************************************************************)
EXTENDS Integers

CONSTANTS
  kMaxThreads,
  kLine,          \* words in a cache line
  kIters,         \* a multiple of four: measure_atomic() makes a quarter
  kReps,
  MaxCalls        \* calls that main() makes, of those it could

Threads == 0..(kMaxThreads - 1)
Strides == {1, kLine}           \* sizeof(std::uint64_t) and kLine
Words == 0..(kMaxThreads * kLine - 1)
Stores == {"g_buffer", "padded_store", "packed_store"}

VARIABLES
  fpc,            \* where the calling function is
  what,           \* the function called: measure, readonly, atomic
  threads,        \* its arguments
  stride,
  pool,           \* threads started
  joined,         \* and joined
  run,            \* rep
  calls,          \* calls made so far
  store,          \* the counters: store -> word -> value
  tpc,            \* thread -> where it is
  i,              \* thread -> its loop variable
  loaded,         \* thread -> what it holds between load and store
  sink,           \* thread -> acc of reader()
  due             \* word of a store -> what the calls made so far add to it

sharingVars == <<fpc, what, threads, stride, pool, joined, run, calls, store,
                 tpc, i, loaded, sink, due>>

Init ==
  /\ fpc = "main" /\ what = "measure"
  /\ threads = 0 /\ stride = 1 /\ pool = 0 /\ joined = 0 /\ run = 0 /\ calls = 0
  /\ store = [s \in Stores |-> [w \in Words |-> 0]]
  /\ due = store
  /\ tpc = [t \in Threads |-> "none"]
  /\ i = [t \in Threads |-> 0] /\ loaded = i /\ sink = i

\* mutated: every thread is given the counter that the readers share
CounterAtFirst(index, width) == 0 * width
counter_at(index, width) == index * width

\* The object that the t-th thread of the call works on.
Target ==
  CASE what = "atomic" -> IF stride = kLine THEN "padded_store" ELSE "packed_store"
    [] OTHER -> "g_buffer"
Counter(t) == IF what = "readonly" THEN 0 ELSE counter_at(t, stride)
Iterations == IF what = "atomic" THEN kIters \div 4 ELSE kIters
Runs == IF what = "measure" THEN kReps ELSE 1

\* main() calls one of the three.  measure_atomic() lays its counters out by
\* alignas, which comes to the same addresses; measure_readonly() has one.
Call(f, n, width) ==
  /\ fpc = "main" /\ calls < MaxCalls
  /\ f = "readonly" => width = 1
  /\ what' = f /\ threads' = n /\ stride' = width
  /\ pool' = 0 /\ joined' = 0 /\ run' = 0
  /\ calls' = calls + 1
  /\ fpc' = "spawn"
  /\ UNCHANGED <<store, tpc, i, loaded, sink, due>>

\* pool.emplace_back(): the thread may run at once, before the next is started.
Spawn ==
  /\ fpc = "spawn" /\ pool < threads
  /\ pool' = pool + 1
  /\ tpc' = [tpc EXCEPT ![pool] = "loop"]
  /\ i' = [i EXCEPT ![pool] = 0]
  /\ sink' = [sink EXCEPT ![pool] = 0]
  /\ due' = IF what = "readonly" THEN due
            ELSE [due EXCEPT ![Target][pool * stride] = @ + Iterations]
  /\ fpc' = IF pool' = threads THEN "join" ELSE fpc
  /\ UNCHANGED <<what, threads, stride, joined, run, calls, store, loaded>>

Joinable == tpc[joined] = "returned"

Join ==
  /\ fpc = "join" /\ joined < threads
  /\ Joinable
  /\ joined' = joined + 1
  /\ tpc' = [tpc EXCEPT ![joined] = "none"]
  /\ UNCHANGED <<fpc, what, threads, stride, pool, run, calls, store, i, loaded, sink, due>>

\* The threads of a repetition are joined before those of the next start.
RunEnds ==
  /\ fpc = "join" /\ joined = threads
  /\ run' = run + 1
  /\ pool' = 0 /\ joined' = 0
  /\ fpc' = IF run' < Runs THEN "spawn" ELSE "main"
  /\ UNCHANGED <<what, threads, stride, calls, store, tpc, i, loaded, sink, due>>

---------------------------------------------------------------------------
(* writer(), reader() and atomic_writer() of one thread.                   *)

Load(t) ==
  /\ tpc[t] = "loop" /\ i[t] < Iterations /\ what # "atomic"
  /\ IF what = "readonly"
     THEN /\ sink' = [sink EXCEPT ![t] = @ + store[Target][Counter(t)]]
          /\ i' = [i EXCEPT ![t] = @ + 1]
          /\ UNCHANGED <<tpc, loaded>>
     ELSE /\ loaded' = [loaded EXCEPT ![t] = store[Target][Counter(t)]]
          /\ tpc' = [tpc EXCEPT ![t] = "store"]
          /\ UNCHANGED <<sink, i>>
  /\ UNCHANGED <<fpc, what, threads, stride, pool, joined, run, calls, store, due>>

StoreSum(t) ==
  /\ tpc[t] = "store"
  /\ store' = [store EXCEPT ![Target][Counter(t)] = loaded[t] + 1]
  /\ i' = [i EXCEPT ![t] = @ + 1]
  /\ tpc' = [tpc EXCEPT ![t] = "loop"]
  /\ UNCHANGED <<fpc, what, threads, stride, pool, joined, run, calls, loaded, sink, due>>

FetchAdd(t) ==
  /\ tpc[t] = "loop" /\ i[t] < Iterations /\ what = "atomic"
  /\ store' = [store EXCEPT ![Target][Counter(t)] = @ + 1]
  /\ i' = [i EXCEPT ![t] = @ + 1]
  /\ UNCHANGED <<fpc, what, threads, stride, pool, joined, run, calls, tpc, loaded, sink, due>>

Return(t) ==
  /\ tpc[t] = "loop" /\ i[t] = Iterations
  /\ tpc' = [tpc EXCEPT ![t] = "returned"]
  /\ UNCHANGED <<fpc, what, threads, stride, pool, joined, run, calls, store, i, loaded, sink, due>>

Thread(t) == Load(t) \/ StoreSum(t) \/ FetchAdd(t) \/ Return(t)

Main ==
  \/ \E f \in {"measure", "readonly", "atomic"}, n \in 1..kMaxThreads, width \in Strides :
       Call(f, n, width)
  \/ Spawn \/ Join \/ RunEnds

Done == fpc = "main" /\ calls = MaxCalls /\ UNCHANGED sharingVars

Next == Main \/ (\E t \in Threads : Thread(t)) \/ Done

---------------------------------------------------------------------------
(* Properties.                                                             *)

\* "No two threads touch the same variable, so there is no race" (I1:66): no
\* increment is lost, though a plain one is not atomic and threads, repetitions
\* and calls with other strides share one buffer.  Readers see a counter that
\* nobody moves.
NothingLost ==
  /\ fpc = "main" => store = due
  /\ what = "readonly" => \A t \in Threads : t < pool => sink[t] = i[t] * store["g_buffer"][0]
=============================================================================
