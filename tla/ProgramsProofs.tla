--------------------------- MODULE ProgramsProofs ---------------------------
(***************************************************************************)
(* Proofs about Measurements, for any geometry of lines and pages and any  *)
(* number of threads, iterations, passes, words and calls: the mutex of    *)
(* J3, the counters of I1, the workers of I2 and the walks of I2 to I5.    *)
(* Then about Exercises: the lifetimes of H1 and H2, the shared ownership  *)
(* of A3, A4 and F2, and the programs that the workbook runs and reads,    *)
(* for any block, number of assignments, calls and lines.                  *)
(***************************************************************************)
EXTENDS Measurements, Exercises, FiniteSetTheorems, SequenceTheorems, WellFoundedInduction, TLAPS

-----------------------------------------------------------------------------
(* J3's mutex.  Whoever has it finds, or leaves, whole updates.              *)

MutexTypeOK ==
  /\ m_ \in {"none", "writer", "reader"}
  /\ v \in Nat \ {0}
  /\ wi \in 0..kWords
  /\ ri \in 0..kWords
  /\ data_ \in [1..kWords -> Nat]
  /\ p \in [1..kWords -> Nat]
  /\ since \in Nat

\* The words that the update in progress has written are of that update, the
\* others of the one before; what has been copied is all of the last.
MutexInv ==
  /\ wi # 0 <=> m_ = "writer"
  /\ ri # 0 <=> m_ = "reader"
  /\ \A k \in 1..kWords : data_[k] = IF k <= wi THEN v ELSE v - 1
  /\ ri # 0 => since = v - 1
  /\ \A k \in 1..kWords : (ri = 0 \/ k <= ri) => p[k] = since

MutexIInv == MutexTypeOK /\ MutexInv

LEMMA WordsAreThere == kWords \in Nat \ {0}
  BY MeasurementsAssumption

LEMMA MutexInit ==
  ASSUME Mutexed!Init
  PROVE  MutexIInv
BY WordsAreThere DEF Mutexed!Init, Mutexed!W, MutexIInv, MutexTypeOK, MutexInv

LEMMA MutexStep ==
  ASSUME MutexIInv, Mutexed!Next
  PROVE  MutexIInv'
<1>0. MutexTypeOK /\ MutexInv /\ kWords \in Nat \ {0}
  BY WordsAreThere DEF MutexIInv
<1>1. CASE Mutexed!BeginWrite
  BY <1>0, <1>1 DEF Mutexed!BeginWrite, Mutexed!Lock, MutexIInv, MutexTypeOK, MutexInv
<1>2. CASE Mutexed!WriteWord
  BY <1>0, <1>2 DEF Mutexed!WriteWord, MutexIInv, MutexTypeOK, MutexInv
<1>3. CASE Mutexed!EndWrite
  BY <1>0, <1>3 DEF Mutexed!EndWrite, Mutexed!Unlock, MutexIInv, MutexTypeOK, MutexInv
<1>4. CASE Mutexed!WriterStops
  BY <1>0, <1>4 DEF Mutexed!WriterStops, MutexIInv, MutexTypeOK, MutexInv
<1>5. CASE Mutexed!BeginRead
  BY <1>0, <1>5 DEF Mutexed!BeginRead, Mutexed!Lock, MutexIInv, MutexTypeOK, MutexInv
<1>6. CASE Mutexed!ReadWord
  BY <1>0, <1>6 DEF Mutexed!ReadWord, MutexIInv, MutexTypeOK, MutexInv
<1>7. CASE Mutexed!EndRead
  BY <1>0, <1>7 DEF Mutexed!EndRead, Mutexed!Unlock, MutexIInv, MutexTypeOK, MutexInv
<1>8. CASE Mutexed!TellStop \/ Mutexed!Joined
  BY <1>0, <1>8 DEF Mutexed!TellStop, Mutexed!Joined, Mutexed!mutexVars, MutexIInv,
     MutexTypeOK, MutexInv
<1>9. QED
  BY <1>1, <1>2, <1>3, <1>4, <1>5, <1>6, <1>7, <1>8 DEF Mutexed!Next

LEMMA MutexWhole ==
  ASSUME MutexIInv
  PROVE  Mutexed!WholeUpdates
BY DEF MutexIInv, MutexTypeOK, MutexInv, Mutexed!WholeUpdates, Mutexed!W

-----------------------------------------------------------------------------
(* I1's counters.  A counter is what has been stored and what is still due.  *)

LineWords == kLine \div 2       \* words in a cache line

\* Index and stride name one word, inside the buffer.
LEMMA Layout ==
  /\ LineWords \in Nat \ {0} /\ kMaxThreads \in Nat \ {0}
  /\ \A n \in Counters!Strides : n \in Nat \ {0} /\ n <= LineWords
  /\ \A t \in Counters!Threads, n \in Counters!Strides : t * n \in Counters!Words
  /\ \A t, u \in Counters!Threads, n \in Counters!Strides : t * n = u * n => t = u
<1>1. LineWords \in Nat \ {0} /\ kMaxThreads \in Nat \ {0}
  <2>1. kLine \in Nat /\ kLine >= 4 /\ kMaxThreads \in Nat \ {0}
    BY MeasurementsAssumption
  <2>2. kLine \div 2 \in Nat \ {0}
    BY <2>1
  <2>3. QED
    BY <2>1, <2>2 DEF LineWords
<1>2. Counters!Strides = {1, LineWords} /\ Counters!Words = 0..(kMaxThreads * LineWords - 1)
  BY DEF LineWords, Counters!Strides, Counters!Words
<1>3. Counters!Threads = 0..(kMaxThreads - 1)
  BY DEF Counters!Threads
<1>4. \A n \in Counters!Strides : n \in Nat \ {0} /\ n <= LineWords
  BY <1>1, <1>2
<1> HIDE DEF LineWords
<1>5. ASSUME NEW t \in Counters!Threads, NEW n \in Counters!Strides
      PROVE  t * n \in Counters!Words
  <2>1. t \in Nat /\ t <= kMaxThreads - 1 /\ n \in Nat \ {0} /\ n <= LineWords
    BY <1>1, <1>3, <1>4
  <2>2. t * n \in Nat /\ t * n <= t * LineWords
    BY <1>1, <2>1
  <2>3. t * LineWords <= (kMaxThreads - 1) * LineWords
    BY <1>1, <2>1
  <2>4. (kMaxThreads - 1) * LineWords <= kMaxThreads * LineWords - 1
    BY <1>1
  <2>5. t * n <= kMaxThreads * LineWords - 1
    <3>1. t * LineWords \in Int /\ (kMaxThreads - 1) * LineWords \in Int /\ kMaxThreads * LineWords - 1 \in Int
      BY <1>1, <2>1
    <3>2. QED
      BY <2>2, <2>3, <2>4, <3>1
  <2>6. QED
    BY <1>1, <1>2, <2>2, <2>5
<1>6. ASSUME NEW t \in Counters!Threads, NEW u \in Counters!Threads,
             NEW n \in Counters!Strides, t * n = u * n
      PROVE  t = u
  <2>1. t \in Nat /\ u \in Nat /\ n \in Nat \ {0}
    BY <1>3, <1>4
  <2>2. (t - u) * n = 0
    BY <1>6, <2>1
  <2>3. t - u >= 1 => (t - u) * n >= n
    BY <2>1
  <2>4. t - u <= -1 => (t - u) * n <= -n
    BY <2>1
  <2>5. QED
    BY <2>1, <2>2, <2>3, <2>4
<1>7. QED
  BY <1>1, <1>4, <1>5, <1>6

CountersTypeOK ==
  /\ fpc \in {"main", "spawn", "join"}
  /\ what \in {"measure", "readonly", "atomic"}
  /\ threads \in 0..kMaxThreads
  /\ stride \in Counters!Strides
  /\ pool \in 0..threads
  /\ joined \in 0..threads
  /\ store \in [Counters!Stores -> [Counters!Words -> Nat]]
  /\ due \in [Counters!Stores -> [Counters!Words -> Nat]]
  /\ tpc \in [Counters!Threads -> {"none", "loop", "store", "returned"}]
  /\ i \in [Counters!Threads -> Nat]
  /\ loaded \in [Counters!Threads -> Nat]
  /\ sink \in [Counters!Threads -> Nat]

\* The threads between joined and pool run, those before have run in full.
ThreadsInv ==
  /\ fpc = "main" => pool = 0
  /\ fpc = "spawn" => pool < threads /\ joined = 0
  /\ fpc = "join" => pool = threads /\ pool > 0
  /\ joined <= pool
  /\ \A t \in Counters!Threads : tpc[t] # "none" <=> joined <= t /\ t < pool
  /\ \A t \in Counters!Threads : t < pool =>
       /\ i[t] <= Counters!Iterations
       /\ tpc[t] \in {"none", "returned"} => i[t] = Counters!Iterations
       /\ tpc[t] = "store" => what = "measure" /\ i[t] < Counters!Iterations

\* The threads of a call that counts, and the counters they count with.
Counting(t) == t < pool /\ what # "readonly"
Place(t) == t * stride
CountersInv ==
  /\ \A t \in Counters!Threads : Counting(t) =>
       due[Counters!Target][Place(t)] =
         store[Counters!Target][Place(t)] + (Counters!Iterations - i[t])
  /\ \A s \in Counters!Stores, n \in Counters!Words :
       (\A t \in Counters!Threads : ~(Counting(t) /\ s = Counters!Target /\ n = Place(t))) =>
         store[s][n] = due[s][n]
  /\ \A t \in Counters!Threads :
       tpc[t] = "store" => loaded[t] = store[Counters!Target][Place(t)]
  /\ what = "readonly" =>
       \A t \in Counters!Threads : t < pool => sink[t] = i[t] * store["g_buffer"][0]

CountersIInv == CountersTypeOK /\ ThreadsInv /\ CountersInv

LEMMA CountersInit ==
  ASSUME Counters!Init
  PROVE  CountersIInv
<1>1. 1 \in Counters!Strides /\ 0 \in 0..kMaxThreads /\ 0 \in 0..0
  BY Layout DEF Counters!Strides
<1>2. /\ CountersTypeOK
  BY <1>1 DEF Counters!Init, CountersTypeOK
<1>3. QED
  BY <1>2 DEF Counters!Init, CountersIInv, CountersTypeOK, ThreadsInv, CountersInv, Counting,
     Counters!Threads

\* What is used of the layout.
LEMMA Places ==
  ASSUME CountersTypeOK
  PROVE  /\ \A t \in Counters!Threads : t \in Nat /\ t < kMaxThreads /\ Place(t) \in Counters!Words
         /\ \A t, u \in Counters!Threads : Place(t) = Place(u) => t = u
         /\ \A t : t \in Nat /\ t < threads => t \in Counters!Threads
         /\ Counters!Target \in Counters!Stores
         /\ Counters!Iterations \in Nat
         /\ 0 \in Counters!Words
<1>1. stride \in Counters!Strides /\ threads \in Nat /\ threads <= kMaxThreads
  BY DEF CountersTypeOK
<1>2. kMaxThreads \in Nat \ {0} /\ Counters!Threads = 0..(kMaxThreads - 1)
  BY Layout DEF Counters!Threads
<1>3. \A t \in Counters!Threads : Place(t) \in Counters!Words
  BY <1>1, Layout DEF Place
<1>4. \A t, u \in Counters!Threads : Place(t) = Place(u) => t = u
  BY <1>1, Layout DEF Place
<1>5. \A t : t \in Nat /\ t < threads => t \in Counters!Threads
  BY <1>1, <1>2
<1>6. Counters!Target \in Counters!Stores
  BY DEF Counters!Target, Counters!Stores
<1>7. Counters!Iterations \in Nat
  <2>1. kIters \in Nat
    BY MeasurementsAssumption
  <2>2. kIters \div 4 \in Nat
    BY <2>1
  <2>3. QED
    BY <2>1, <2>2 DEF Counters!Iterations
<1>8. 0 \in Counters!Words
  <2>1. 0 \in Counters!Threads /\ 0 * 1 = 0 /\ 1 \in Counters!Strides
    BY <1>2 DEF Counters!Strides
  <2>2. QED
    BY <2>1, Layout
<1>9. QED
  BY <1>2, <1>3, <1>4, <1>5, <1>6, <1>7, <1>8

\* What does not depend on the counters.
Shared == <<what, threads, stride, Counters!Target, Counters!Iterations>>

LEMMA SameCall ==
  ASSUME UNCHANGED <<what, threads, stride>>
  PROVE  UNCHANGED Shared /\ \A t : Place(t)' = Place(t)
BY DEF Shared, Counters!Target, Counters!Iterations, Place

LEMMA CallKeeps ==
  ASSUME CountersIInv, NEW f \in {"measure", "readonly", "atomic"},
         NEW n \in 1..kMaxThreads, NEW width \in Counters!Strides,
         Counters!Call(f, n, width)
  PROVE  CountersIInv'
<1>0. CountersTypeOK /\ ThreadsInv /\ CountersInv
  BY DEF CountersIInv
<1>1. /\ fpc = "main" /\ fpc' = "spawn"
      /\ what' = f /\ threads' = n /\ stride' = width
      /\ pool' = 0 /\ joined' = 0
      /\ UNCHANGED <<store, tpc, i, loaded, sink, due>>
  BY DEF Counters!Call
<1>2. pool = 0 /\ kMaxThreads \in Nat
  BY <1>0, <1>1, Layout DEF ThreadsInv
<1>3. \A t \in Counters!Threads : t \in Nat /\ ~(t < 0)
  BY <1>0, Places
<1>4. CountersTypeOK'
  BY <1>0, <1>1, <1>2 DEF CountersTypeOK
<1>5. \A t \in Counters!Threads : tpc[t] = "none"
  BY <1>0, <1>2, <1>3 DEF ThreadsInv
<1>6. ThreadsInv'
  BY <1>1, <1>2, <1>3, <1>5 DEF ThreadsInv
<1>7. \A s \in Counters!Stores, m \in Counters!Words : store[s][m] = due[s][m]
  BY <1>0, <1>2, <1>3 DEF CountersInv, Counting
<1>8. CountersInv'
  BY <1>1, <1>3, <1>5, <1>7 DEF CountersInv, Counting
<1>9. QED
  BY <1>4, <1>6, <1>8 DEF CountersIInv

LEMMA SpawnKeeps ==
  ASSUME CountersIInv, Counters!Spawn
  PROVE  CountersIInv'
<1>0. CountersTypeOK /\ ThreadsInv /\ CountersInv
  BY DEF CountersIInv
<1> DEFINE target == Counters!Target
           loops == Counters!Iterations
           place == Place(pool)
<1>1. /\ fpc = "spawn" /\ pool < threads
      /\ pool' = pool + 1
      /\ tpc' = [tpc EXCEPT ![pool] = "loop"]
      /\ i' = [i EXCEPT ![pool] = 0]
      /\ sink' = [sink EXCEPT ![pool] = 0]
      /\ due' = IF what = "readonly" THEN due
                ELSE [due EXCEPT ![target][place] = due[target][place] + loops]
      /\ fpc' = IF pool' = threads THEN "join" ELSE fpc
      /\ UNCHANGED <<what, threads, stride, joined, store, loaded>>
  BY DEF Counters!Spawn, Place
<1>2. /\ \A t \in Counters!Threads : t \in Nat /\ t < kMaxThreads /\ Place(t) \in Counters!Words
      /\ \A t, u \in Counters!Threads : Place(t) = Place(u) => t = u
      /\ target \in Counters!Stores
      /\ loops \in Nat
  BY <1>0, Places
<1>3. pool \in Nat /\ threads \in Nat /\ pool \in Counters!Threads
  <2>1. pool \in Nat /\ threads \in Nat
    BY <1>0, Layout DEF CountersTypeOK
  <2>2. QED
    BY <2>1, <1>0, <1>1, Places
<1>4. target' = target /\ loops' = loops /\ \A t : Place(t)' = Place(t)
  BY <1>1, SameCall DEF Shared
<1> HIDE DEF target, loops, place
<1>5. /\ place \in Counters!Words
      /\ \A t \in Counters!Threads : t < pool => Place(t) # place
      /\ due \in [Counters!Stores -> [Counters!Words -> Nat]]
  BY <1>0, <1>2, <1>3 DEF CountersTypeOK, place
<1>6. /\ what # "readonly" => due'[target][place] = due[target][place] + loops
      /\ \A s \in Counters!Stores, m \in Counters!Words :
           ~(what # "readonly" /\ s = target /\ m = place) => due'[s][m] = due[s][m]
      /\ due' \in [Counters!Stores -> [Counters!Words -> Nat]]
  BY <1>1, <1>2, <1>5
<1>7. CountersTypeOK'
  BY <1>0, <1>1, <1>3, <1>6 DEF CountersTypeOK
<1>8. \A t \in Counters!Threads : t < pool' <=> t < pool \/ t = pool
  BY <1>1, <1>2, <1>3
<1>9. /\ tpc'[pool] = "loop" /\ i'[pool] = 0 /\ sink'[pool] = 0
      /\ \A t \in Counters!Threads : t # pool =>
           tpc'[t] = tpc[t] /\ i'[t] = i[t] /\ sink'[t] = sink[t]
  BY <1>0, <1>1, <1>3 DEF CountersTypeOK
<1>10. ThreadsInv'
  <2>1. /\ fpc' = "main" => pool' = 0
        /\ fpc' = "spawn" => pool' < threads' /\ joined' = 0
        /\ fpc' = "join" => pool' = threads' /\ pool' > 0
        /\ joined' = 0
    BY <1>0, <1>1, <1>3 DEF ThreadsInv
  <2>2. \A t \in Counters!Threads : tpc'[t] # "none" <=> joined' <= t /\ t < pool'
    BY <2>1, <1>0, <1>1, <1>2, <1>3, <1>8, <1>9 DEF ThreadsInv
  <2>3. \A t \in Counters!Threads : t < pool' =>
          /\ i'[t] <= loops
          /\ tpc'[t] \in {"none", "returned"} => i'[t] = loops
          /\ tpc'[t] = "store" => what' = "measure" /\ i'[t] < loops
    BY <1>0, <1>1, <1>2, <1>8, <1>9 DEF ThreadsInv, loops
  <2>4. QED
    BY <2>1, <2>2, <2>3, <1>1, <1>3, <1>4 DEF ThreadsInv, loops
<1>11. CountersInv'
  <2>1. \A t \in Counters!Threads : Counting(t)' <=> Counting(t) \/ (t = pool /\ what # "readonly")
    BY <1>1, <1>3, <1>8 DEF Counting
  <2>2. ASSUME NEW t \in Counters!Threads, Counting(t)'
        PROVE  due'[target][Place(t)] = store'[target][Place(t)] + (loops - i'[t])
    <3>1. CASE t = pool
      <4>1. what # "readonly"
        BY <2>1, <2>2, <3>1 DEF Counting
      <4>2. store[target][place] = due[target][place]
        BY <1>0, <1>2, <1>5 DEF CountersInv, Counting, target
      <4>3. due[target][place] \in Nat
        BY <1>2, <1>5
      <4>4. QED
        BY <3>1, <4>1, <4>2, <4>3, <1>1, <1>2, <1>6, <1>9 DEF place
    <3>2. CASE t # pool
      <4>1. Counting(t) /\ t < pool
        BY <2>1, <2>2, <3>2 DEF Counting
      <4>2. due'[target][Place(t)] = due[target][Place(t)]
        BY <4>1, <1>2, <1>5, <1>6
      <4>3. QED
        BY <3>2, <4>1, <4>2, <1>0, <1>1, <1>9 DEF CountersInv, target, loops
    <3>3. QED
      BY <3>1, <3>2
  <2>3. ASSUME NEW s \in Counters!Stores, NEW m \in Counters!Words,
               \A t \in Counters!Threads : ~(Counting(t)' /\ s = target /\ m = Place(t))
        PROVE  store'[s][m] = due'[s][m]
    <3>1. \A t \in Counters!Threads : ~(Counting(t) /\ s = target /\ m = Place(t))
      BY <2>1, <2>3
    <3>2. store[s][m] = due[s][m]
      BY <3>1, <1>0 DEF CountersInv, target
    <3>3. ~(what # "readonly" /\ s = target /\ m = place)
      BY <2>1, <2>3, <1>3 DEF place
    <3>4. QED
      BY <3>2, <3>3, <1>1, <1>6
  <2>4. \A t \in Counters!Threads :
          tpc'[t] = "store" => loaded'[t] = store'[target][Place(t)]
    BY <1>0, <1>1, <1>9 DEF CountersInv, target
  <2>5. what' = "readonly" =>
          \A t \in Counters!Threads : t < pool' => sink'[t] = i'[t] * store'["g_buffer"][0]
    <3>1. store["g_buffer"][0] \in Nat
      BY <1>0, Places DEF CountersTypeOK, Counters!Stores
    <3>2. \A x \in Nat : 0 * x = 0
      OBVIOUS
    <3>3. QED
      BY <3>1, <3>2, <1>0, <1>1, <1>8, <1>9 DEF CountersInv
  <2>6. QED
    BY <2>2, <2>3, <2>4, <2>5, <1>4 DEF CountersInv, target, loops
<1>12. QED
  BY <1>7, <1>10, <1>11 DEF CountersIInv

\* What the conjuncts say of a single thread.
LEMMA OfCounterThread ==
  ASSUME CountersTypeOK, ThreadsInv, NEW t \in Counters!Threads
  PROVE  /\ t \in Nat /\ pool \in Nat /\ joined \in Nat /\ threads \in Nat
         /\ i[t] \in Nat /\ sink[t] \in Nat
         /\ tpc[t] # "none" => t < pool /\ joined <= t
         /\ tpc[t] = "store" => what = "measure" /\ i[t] < Counters!Iterations
<1>1. t \in Nat /\ threads \in Nat
  BY Places, Layout DEF CountersTypeOK
<1>2. pool \in Nat /\ joined \in Nat
  BY <1>1 DEF CountersTypeOK
<1>3. i[t] \in Nat /\ sink[t] \in Nat
  BY DEF CountersTypeOK
<1>4. QED
  BY <1>1, <1>2, <1>3 DEF ThreadsInv

LEMMA JoinKeeps ==
  ASSUME CountersIInv, Counters!Join
  PROVE  CountersIInv'
<1>0. CountersTypeOK /\ ThreadsInv /\ CountersInv
  BY DEF CountersIInv
<1>1. /\ fpc = "join" /\ joined < threads /\ tpc[joined] = "returned"
      /\ joined' = joined + 1
      /\ tpc' = [tpc EXCEPT ![joined] = "none"]
      /\ UNCHANGED <<fpc, what, threads, stride, pool, store, i, loaded, sink, due>>
  BY DEF Counters!Join, Counters!Joinable
<1>2. joined \in Nat /\ threads \in Nat /\ pool = threads /\ joined \in Counters!Threads
  <2>1. joined \in Nat /\ threads \in Nat
    BY <1>0, Layout DEF CountersTypeOK
  <2>2. QED
    BY <2>1, <1>0, <1>1, Places DEF ThreadsInv
<1>3. /\ UNCHANGED <<Counters!Target, Counters!Iterations>>
      /\ \A t : Place(t)' = Place(t) /\ (Counting(t)' <=> Counting(t))
  BY <1>1, SameCall DEF Shared, Counting
<1>4. /\ tpc' \in [Counters!Threads -> {"none", "loop", "store", "returned"}]
      /\ tpc'[joined] = "none"
      /\ \A t \in Counters!Threads : t # joined => tpc'[t] = tpc[t]
  BY <1>0, <1>1, <1>2 DEF CountersTypeOK
<1>5. CountersTypeOK'
  <2>1. joined' \in 0..threads'
    BY <1>1, <1>2
  <2>2. QED
    BY <2>1, <1>0, <1>1, <1>4 DEF CountersTypeOK
<1>6. ThreadsInv'
  <2>1. ASSUME NEW t \in Counters!Threads
        PROVE  /\ tpc'[t] # "none" <=> joined' <= t /\ t < pool'
               /\ t < pool' =>
                    /\ i'[t] <= Counters!Iterations
                    /\ tpc'[t] \in {"none", "returned"} => i'[t] = Counters!Iterations
                    /\ tpc'[t] = "store" => what' = "measure" /\ i'[t] < Counters!Iterations
    <3>1. t \in Nat /\ pool \in Nat
      BY <1>0, OfCounterThread
    <3>2. /\ tpc[t] # "none" <=> joined <= t /\ t < pool
          /\ t < pool =>
               /\ i[t] <= Counters!Iterations
               /\ tpc[t] \in {"none", "returned"} => i[t] = Counters!Iterations
               /\ tpc[t] = "store" => what = "measure" /\ i[t] < Counters!Iterations
      BY <1>0 DEF ThreadsInv
    <3>3. CASE t = joined
      BY <3>1, <3>2, <3>3, <1>1, <1>2, <1>4
    <3>4. CASE t # joined
      BY <3>1, <3>2, <3>4, <1>1, <1>2, <1>4
    <3>5. QED
      BY <3>3, <3>4
  <2>2. pool' > 0 /\ joined' <= pool' /\ fpc' = "join" /\ pool' = threads'
    BY <1>0, <1>1, <1>2 DEF ThreadsInv
  <2>3. QED
    BY <2>1, <2>2, <1>3 DEF ThreadsInv
<1>7. CountersInv'
  <2>1. \A t \in Counters!Threads : tpc'[t] = "store" => tpc[t] = "store"
    BY <1>2, <1>4
  <2>2. QED
    BY <2>1, <1>0, <1>1, <1>3 DEF CountersInv
<1>8. QED
  BY <1>5, <1>6, <1>7 DEF CountersIInv

\* Once all threads of a call have run in full, all is as it should be.
LEMMA AllDue ==
  ASSUME CountersIInv, \A t \in Counters!Threads : t < pool => tpc[t] = "none",
         NEW s \in Counters!Stores, NEW n \in Counters!Words
  PROVE  store[s][n] = due[s][n]
<1>0. CountersTypeOK /\ ThreadsInv /\ CountersInv
  BY DEF CountersIInv
<1>1. CASE \E t \in Counters!Threads : Counting(t) /\ s = Counters!Target /\ n = Place(t)
  <2>1. PICK t \in Counters!Threads : Counting(t) /\ s = Counters!Target /\ n = Place(t)
    BY <1>1
  <2>2. i[t] = Counters!Iterations /\ Counters!Iterations \in Nat
    BY <2>1, <1>0, Places DEF ThreadsInv, Counting
  <2>3. due[s][n] = store[s][n] + (Counters!Iterations - i[t])
    BY <2>1, <1>0 DEF CountersInv
  <2>4. store[s][n] \in Nat
    BY <1>0 DEF CountersTypeOK
  <2>5. QED
    BY <2>2, <2>3, <2>4
<1>2. CASE ~ \E t \in Counters!Threads : Counting(t) /\ s = Counters!Target /\ n = Place(t)
  BY <1>2, <1>0 DEF CountersInv
<1>3. QED
  BY <1>1, <1>2

LEMMA RunEndsKeeps ==
  ASSUME CountersIInv, Counters!RunEnds
  PROVE  CountersIInv'
<1>0. CountersTypeOK /\ ThreadsInv /\ CountersInv
  BY DEF CountersIInv
<1>1. /\ fpc = "join" /\ joined = threads
      /\ pool' = 0 /\ joined' = 0 /\ fpc' \in {"spawn", "main"}
      /\ UNCHANGED <<what, threads, stride, store, tpc, i, loaded, sink, due>>
  BY DEF Counters!RunEnds
<1>2. threads \in Nat /\ pool = threads /\ pool > 0
  BY <1>0, <1>1, Layout DEF ThreadsInv, CountersTypeOK
<1>3. \A t \in Counters!Threads : tpc[t] = "none" /\ t \in Nat
  <2>1. \A t \in Counters!Threads : t \in Nat
    BY <1>0, Places
  <2>2. QED
    BY <2>1, <1>0, <1>1, <1>2 DEF ThreadsInv
<1>4. \A t \in Counters!Threads : ~(t < pool')
  BY <1>1, <1>3
<1>5. CountersTypeOK'
  <2>1. pool' \in 0..threads' /\ joined' \in 0..threads'
    BY <1>1, <1>2
  <2>2. QED
    BY <2>1, <1>0, <1>1 DEF CountersTypeOK
<1>6. ThreadsInv'
  BY <1>1, <1>2, <1>3, <1>4 DEF ThreadsInv
<1>7. CountersInv'
  <2>1. \A t \in Counters!Threads : ~Counting(t)'
    BY <1>4 DEF Counting
  <2>2. \A s \in Counters!Stores, n \in Counters!Words : store'[s][n] = due'[s][n]
    BY <1>1, <1>3, AllDue
  <2>3. \A t \in Counters!Threads : tpc'[t] # "store"
    BY <1>1, <1>3
  <2>4. QED
    BY <2>1, <2>2, <2>3, <1>4 DEF CountersInv
<1>8. QED
  BY <1>5, <1>6, <1>7 DEF CountersIInv

\* Thread t counts: its counter and its loop variable grow together.
Bumps(t) ==
  /\ store' = [store EXCEPT ![Counters!Target][Place(t)] =
                 store[Counters!Target][Place(t)] + 1]
  /\ i' = [i EXCEPT ![t] = i[t] + 1]
  /\ tpc' = [tpc EXCEPT ![t] = "loop"]
  /\ UNCHANGED <<fpc, what, threads, stride, pool, joined, loaded, sink, due>>

LEMMA BumpKeeps ==
  ASSUME CountersIInv, NEW t \in Counters!Threads, Bumps(t),
         tpc[t] \in {"loop", "store"}, what # "readonly", i[t] < Counters!Iterations
  PROVE  CountersIInv'
<1>0. CountersTypeOK /\ ThreadsInv /\ CountersInv
  BY DEF CountersIInv
<1> DEFINE target == Counters!Target
           loops == Counters!Iterations
           place == Place(t)
<1>1. /\ store' = [store EXCEPT ![target][place] = store[target][place] + 1]
      /\ i' = [i EXCEPT ![t] = i[t] + 1]
      /\ tpc' = [tpc EXCEPT ![t] = "loop"]
      /\ UNCHANGED <<fpc, what, threads, stride, pool, joined, loaded, sink, due>>
  BY DEF Bumps
<1>2. /\ target \in Counters!Stores /\ place \in Counters!Words /\ loops \in Nat
      /\ \A u \in Counters!Threads : Place(u) \in Counters!Words /\ (Place(u) = place => u = t)
  BY <1>0, Places
<1>3. /\ t \in Nat /\ pool \in Nat /\ joined \in Nat /\ i[t] \in Nat
      /\ t < pool /\ joined <= t /\ i[t] < loops
  BY <1>0, OfCounterThread
<1>4. /\ target' = target /\ loops' = loops
      /\ \A u : Place(u)' = Place(u) /\ (Counting(u)' <=> Counting(u))
  BY <1>1, SameCall DEF Shared, Counting
<1>5. Counting(t)
  BY <1>3 DEF Counting
<1> HIDE DEF target, loops, place
<1>6. /\ store \in [Counters!Stores -> [Counters!Words -> Nat]]
      /\ store[target][place] \in Nat /\ due[target][place] \in Nat
  BY <1>0, <1>2 DEF CountersTypeOK
<1>7. /\ store'[target][place] = store[target][place] + 1
      /\ \A s \in Counters!Stores, n \in Counters!Words :
           ~(s = target /\ n = place) => store'[s][n] = store[s][n]
      /\ store' \in [Counters!Stores -> [Counters!Words -> Nat]]
  BY <1>1, <1>2, <1>6
<1>8. /\ i'[t] = i[t] + 1 /\ tpc'[t] = "loop"
      /\ \A u \in Counters!Threads : u # t => i'[u] = i[u] /\ tpc'[u] = tpc[u]
      /\ i' \in [Counters!Threads -> Nat]
      /\ tpc' \in [Counters!Threads -> {"none", "loop", "store", "returned"}]
  BY <1>0, <1>1, <1>3 DEF CountersTypeOK
<1>9. CountersTypeOK'
  BY <1>0, <1>1, <1>7, <1>8 DEF CountersTypeOK
<1>10. ThreadsInv'
  <2>1. ASSUME NEW u \in Counters!Threads
        PROVE  /\ tpc'[u] # "none" <=> joined' <= u /\ u < pool'
               /\ u < pool' =>
                    /\ i'[u] <= loops
                    /\ tpc'[u] \in {"none", "returned"} => i'[u] = loops
                    /\ tpc'[u] = "store" => what' = "measure" /\ i'[u] < loops
    <3>1. CASE u = t
      BY <3>1, <1>1, <1>2, <1>3, <1>8
    <3>2. CASE u # t
      BY <3>2, <1>0, <1>1, <1>8 DEF ThreadsInv, loops
    <3>3. QED
      BY <3>1, <3>2
  <2>2. QED
    BY <2>1, <1>0, <1>1, <1>4 DEF ThreadsInv, loops
<1>11. CountersInv'
  <2>1. ASSUME NEW u \in Counters!Threads, Counting(u)
        PROVE  due'[target][Place(u)] = store'[target][Place(u)] + (loops - i'[u])
    <3>1. due[target][Place(u)] = store[target][Place(u)] + (loops - i[u])
      BY <2>1, <1>0 DEF CountersInv, target, loops
    <3>2. CASE u = t
      BY <3>1, <3>2, <1>1, <1>2, <1>3, <1>6, <1>7, <1>8 DEF place
    <3>3. CASE u # t
      BY <3>1, <3>3, <1>1, <1>2, <1>7, <1>8
    <3>4. QED
      BY <3>2, <3>3
  <2>2. ASSUME NEW s \in Counters!Stores, NEW n \in Counters!Words,
               \A u \in Counters!Threads : ~(Counting(u) /\ s = target /\ n = Place(u))
        PROVE  store'[s][n] = due'[s][n]
    <3>1. store[s][n] = due[s][n]
      BY <2>2, <1>0 DEF CountersInv, target
    <3>2. ~(s = target /\ n = place)
      BY <2>2, <1>5 DEF place
    <3>3. QED
      BY <3>1, <3>2, <1>1, <1>7
  <2>3. ASSUME NEW u \in Counters!Threads, tpc'[u] = "store"
        PROVE  loaded'[u] = store'[target][Place(u)]
    <3>1. u # t /\ tpc[u] = "store"
      BY <2>3, <1>8
    <3>2. loaded[u] = store[target][Place(u)]
      BY <3>1, <1>0 DEF CountersInv, target
    <3>3. QED
      BY <3>1, <3>2, <1>1, <1>2, <1>7
  <2>4. QED
    BY <2>1, <2>2, <2>3, <1>1, <1>4 DEF CountersInv, target, loops
<1>12. QED
  BY <1>9, <1>10, <1>11 DEF CountersIInv

LEMMA StoreSumKeeps ==
  ASSUME CountersIInv, NEW t \in Counters!Threads, Counters!StoreSum(t)
  PROVE  CountersIInv'
<1>0. CountersTypeOK /\ ThreadsInv /\ CountersInv
  BY DEF CountersIInv
<1>1. what = "measure" /\ i[t] < Counters!Iterations /\ tpc[t] = "store"
  BY <1>0, OfCounterThread DEF Counters!StoreSum
<1>2. Counters!Counter(t) = Place(t)
  BY <1>1 DEF Counters!Counter, Counters!counter_at, Place
<1>3. loaded[t] = store[Counters!Target][Place(t)]
  BY <1>0, <1>1 DEF CountersInv
<1>4. Bumps(t)
  BY <1>2, <1>3 DEF Counters!StoreSum, Bumps
<1>5. QED
  BY <1>1, <1>4, BumpKeeps

LEMMA FetchAddKeeps ==
  ASSUME CountersIInv, NEW t \in Counters!Threads, Counters!FetchAdd(t)
  PROVE  CountersIInv'
<1>0. CountersTypeOK /\ ThreadsInv /\ CountersInv
  BY DEF CountersIInv
<1>1. what = "atomic" /\ i[t] < Counters!Iterations /\ tpc[t] = "loop"
  BY DEF Counters!FetchAdd
<1>2. Counters!Counter(t) = Place(t)
  BY <1>1 DEF Counters!Counter, Counters!counter_at, Place
<1>3. tpc' = [tpc EXCEPT ![t] = "loop"]
  <2>1. tpc' = tpc /\ tpc \in [Counters!Threads -> {"none", "loop", "store", "returned"}]
    BY <1>0 DEF Counters!FetchAdd, CountersTypeOK
  <2>2. QED
    BY <2>1, <1>1
<1>4. Bumps(t)
  BY <1>2, <1>3 DEF Counters!FetchAdd, Bumps
<1>5. QED
  BY <1>1, <1>4, BumpKeeps

LEMMA LoadKeeps ==
  ASSUME CountersIInv, NEW t \in Counters!Threads, Counters!Load(t)
  PROVE  CountersIInv'
<1>0. CountersTypeOK /\ ThreadsInv /\ CountersInv
  BY DEF CountersIInv
<1>1. /\ tpc[t] = "loop" /\ i[t] < Counters!Iterations /\ what # "atomic"
      /\ UNCHANGED <<fpc, what, threads, stride, pool, joined, store, due>>
  BY DEF Counters!Load
<1>2. /\ UNCHANGED <<Counters!Target, Counters!Iterations>>
      /\ \A u : Place(u)' = Place(u) /\ (Counting(u)' <=> Counting(u))
  BY <1>1, SameCall DEF Shared, Counting
<1>3. /\ t \in Nat /\ i[t] \in Nat /\ sink[t] \in Nat /\ Counters!Iterations \in Nat
      /\ Counters!Target \in Counters!Stores
      /\ Place(t) \in Counters!Words /\ 0 \in Counters!Words /\ t < pool
  BY <1>0, <1>1, OfCounterThread, Places
<1>4. CASE what = "readonly"
  <2> DEFINE x == store["g_buffer"][0]
  <2>1. Counters!Target = "g_buffer" /\ Counters!Counter(t) = 0
    BY <1>4 DEF Counters!Target, Counters!Counter
  <2>2. /\ sink' = [sink EXCEPT ![t] = sink[t] + x]
        /\ i' = [i EXCEPT ![t] = i[t] + 1]
        /\ UNCHANGED <<tpc, loaded>>
    BY <2>1, <1>4 DEF Counters!Load
  <2>3. x \in Nat
    BY <2>1, <1>0, <1>3 DEF CountersTypeOK
  <2>4. x' = x
    BY <1>1
  <2> HIDE DEF x
  <2>5. /\ sink'[t] = sink[t] + x /\ i'[t] = i[t] + 1
        /\ \A u \in Counters!Threads : u # t => sink'[u] = sink[u] /\ i'[u] = i[u]
        /\ sink' \in [Counters!Threads -> Nat] /\ i' \in [Counters!Threads -> Nat]
    BY <1>0, <1>3, <2>2, <2>3 DEF CountersTypeOK
  <2>6. CountersTypeOK'
    BY <1>0, <1>1, <2>2, <2>5 DEF CountersTypeOK
  <2>7. ThreadsInv'
    <3>1. ASSUME NEW u \in Counters!Threads, u < pool
          PROVE  /\ i'[u] <= Counters!Iterations
                 /\ tpc[u] \in {"none", "returned"} => i'[u] = Counters!Iterations
                 /\ tpc[u] = "store" => what = "measure" /\ i'[u] < Counters!Iterations
      <4>1. CASE u = t
        BY <4>1, <1>1, <1>3, <2>5
      <4>2. CASE u # t
        BY <3>1, <4>2, <1>0, <2>5 DEF ThreadsInv
      <4>3. QED
        BY <4>1, <4>2
    <3>2. QED
      BY <3>1, <1>0, <1>1, <1>2, <2>2 DEF ThreadsInv
  <2>8. CountersInv'
    <3>1. \A u \in Counters!Threads : ~Counting(u)
      BY <1>4 DEF Counting
    <3>2. ASSUME NEW u \in Counters!Threads, u < pool
          PROVE  sink'[u] = i'[u] * x
      <4>1. sink[u] = i[u] * x
        BY <3>2, <1>0, <1>4 DEF CountersInv, x
      <4>2. \A a, d \in Nat : (a + 1) * d = a * d + d
        OBVIOUS
      <4>3. CASE u = t
        BY <4>1, <4>2, <4>3, <1>3, <2>3, <2>5
      <4>4. CASE u # t
        BY <4>1, <4>4, <2>5
      <4>5. QED
        BY <4>3, <4>4
    <3>3. QED
      BY <3>1, <3>2, <1>0, <1>1, <1>2, <2>2 DEF CountersInv, x
  <2>9. QED
    BY <2>6, <2>7, <2>8 DEF CountersIInv
<1>5. CASE what # "readonly"
  <2>1. what = "measure" /\ Counters!Counter(t) = Place(t)
    BY <1>0, <1>1, <1>5 DEF Counters!Counter, Counters!counter_at, Place, CountersTypeOK
  <2>2. /\ loaded' = [loaded EXCEPT ![t] = store[Counters!Target][Place(t)]]
        /\ tpc' = [tpc EXCEPT ![t] = "store"]
        /\ UNCHANGED <<sink, i>>
    BY <2>1, <1>5 DEF Counters!Load
  <2>3. store[Counters!Target][Place(t)] \in Nat
    BY <1>0, <1>3 DEF CountersTypeOK
  <2>4. /\ loaded'[t] = store[Counters!Target][Place(t)] /\ tpc'[t] = "store"
        /\ \A u \in Counters!Threads : u # t => loaded'[u] = loaded[u] /\ tpc'[u] = tpc[u]
        /\ loaded' \in [Counters!Threads -> Nat]
        /\ tpc' \in [Counters!Threads -> {"none", "loop", "store", "returned"}]
    BY <1>0, <2>2, <2>3 DEF CountersTypeOK
  <2>5. CountersTypeOK'
    BY <1>0, <1>1, <2>2, <2>4 DEF CountersTypeOK
  <2>6. ThreadsInv'
    <3>1. ASSUME NEW u \in Counters!Threads
          PROVE  /\ tpc'[u] # "none" <=> joined <= u /\ u < pool
                 /\ u < pool =>
                      /\ tpc'[u] \in {"none", "returned"} => i[u] = Counters!Iterations
                      /\ tpc'[u] = "store" => what = "measure" /\ i[u] < Counters!Iterations
      <4>1. CASE u = t
        BY <4>1, <1>0, <1>1, <2>1, <2>4 DEF ThreadsInv
      <4>2. CASE u # t
        BY <4>2, <1>0, <2>4 DEF ThreadsInv
      <4>3. QED
        BY <4>1, <4>2
    <3>2. QED
      BY <3>1, <1>0, <1>1, <1>2, <2>2 DEF ThreadsInv
  <2>7. CountersInv'
    <3>1. ASSUME NEW u \in Counters!Threads, tpc'[u] = "store"
          PROVE  loaded'[u] = store[Counters!Target][Place(u)]
      BY <3>1, <1>0, <2>4 DEF CountersInv
    <3>2. QED
      BY <3>1, <1>0, <1>1, <1>2, <1>5, <2>2 DEF CountersInv
  <2>8. QED
    BY <2>5, <2>6, <2>7 DEF CountersIInv
<1>6. QED
  BY <1>4, <1>5

LEMMA ReturnKeeps ==
  ASSUME CountersIInv, NEW t \in Counters!Threads, Counters!Return(t)
  PROVE  CountersIInv'
<1>0. CountersTypeOK /\ ThreadsInv /\ CountersInv
  BY DEF CountersIInv
<1>1. /\ tpc[t] = "loop" /\ i[t] = Counters!Iterations
      /\ tpc' = [tpc EXCEPT ![t] = "returned"]
      /\ UNCHANGED <<fpc, what, threads, stride, pool, joined, store, i, loaded, sink, due>>
  BY DEF Counters!Return
<1>2. /\ UNCHANGED <<Counters!Target, Counters!Iterations>>
      /\ \A u : Place(u)' = Place(u) /\ (Counting(u)' <=> Counting(u))
  BY <1>1, SameCall DEF Shared, Counting
<1>3. /\ tpc'[t] = "returned" /\ \A u \in Counters!Threads : u # t => tpc'[u] = tpc[u]
      /\ tpc' \in [Counters!Threads -> {"none", "loop", "store", "returned"}]
  BY <1>0, <1>1 DEF CountersTypeOK
<1>4. CountersTypeOK'
  BY <1>0, <1>1, <1>3 DEF CountersTypeOK
<1>5. ThreadsInv'
  <2>1. ASSUME NEW u \in Counters!Threads
        PROVE  /\ tpc'[u] # "none" <=> joined <= u /\ u < pool
               /\ u < pool =>
                    /\ tpc'[u] \in {"none", "returned"} => i[u] = Counters!Iterations
                    /\ tpc'[u] = "store" => what = "measure" /\ i[u] < Counters!Iterations
    <3>1. CASE u = t
      BY <3>1, <1>0, <1>1, <1>3 DEF ThreadsInv
    <3>2. CASE u # t
      BY <3>2, <1>0, <1>3 DEF ThreadsInv
    <3>3. QED
      BY <3>1, <3>2
  <2>2. QED
    BY <2>1, <1>0, <1>1, <1>2 DEF ThreadsInv
<1>6. CountersInv'
  <2>1. \A u \in Counters!Threads : tpc'[u] = "store" => tpc[u] = "store"
    BY <1>3
  <2>2. QED
    BY <2>1, <1>0, <1>1, <1>2 DEF CountersInv
<1>7. QED
  BY <1>4, <1>5, <1>6 DEF CountersIInv

LEMMA CountersStep ==
  ASSUME CountersIInv, Counters!Next
  PROVE  CountersIInv'
<1>1. ASSUME NEW t \in Counters!Threads, Counters!Thread(t)
      PROVE  CountersIInv'
  BY <1>1, LoadKeeps, StoreSumKeeps, FetchAddKeeps, ReturnKeeps DEF Counters!Thread
<1>2. CASE Counters!Main
  BY <1>2, CallKeeps, SpawnKeeps, JoinKeeps, RunEndsKeeps DEF Counters!Main
<1>3. CASE Counters!Done
  BY <1>3 DEF Counters!Done, Counters!sharingVars, CountersIInv, CountersTypeOK, ThreadsInv,
     CountersInv, Counting, Place, Counters!Target, Counters!Iterations
<1>4. QED
  BY <1>1, <1>2, <1>3 DEF Counters!Next

LEMMA NothingIsLost ==
  ASSUME CountersIInv
  PROVE  Counters!NothingLost
<1>0. CountersTypeOK /\ ThreadsInv /\ CountersInv
  BY DEF CountersIInv
<1>1. ASSUME fpc = "main"
      PROVE  store = due
  <2>1. pool = 0
    BY <1>0, <1>1 DEF ThreadsInv
  <2>2. \A t \in Counters!Threads : t \in Nat /\ ~(t < pool)
    BY <2>1, <1>0, Places
  <2>3. \A s \in Counters!Stores, n \in Counters!Words : store[s][n] = due[s][n]
    BY <2>2, AllDue
  <2>4. /\ store \in [Counters!Stores -> [Counters!Words -> Nat]]
        /\ due \in [Counters!Stores -> [Counters!Words -> Nat]]
    BY <1>0 DEF CountersTypeOK
  <2>5. \A s \in Counters!Stores : store[s] = due[s]
    BY <2>3, <2>4
  <2>6. QED
    BY <2>4, <2>5
<1>2. QED
  BY <1>0, <1>1 DEF CountersInv, Counters!NothingLost

\* f holds the partial sums of the first n values of d.
Adds(f, d, n) == f = [k \in 0..n |-> IF k = 0 THEN 0 ELSE f[k - 1] + d[k - 1]]

LEMMA SumsAgree ==
  ASSUME NEW n \in Nat, NEW d, NEW f, NEW g, Adds(f, d, n), Adds(g, d, n)
  PROVE  f = g
<1> DEFINE T == {k \in 0..n : f[k] # g[k]}
           R == OpToRel(<, Nat)
<1>1. /\ f = [k \in 0..n |-> IF k = 0 THEN 0 ELSE f[k - 1] + d[k - 1]]
      /\ g = [k \in 0..n |-> IF k = 0 THEN 0 ELSE g[k - 1] + d[k - 1]]
  BY DEF Adds
<1>2. /\ DOMAIN f = 0..n /\ DOMAIN g = 0..n
      /\ f[0] = g[0]
      /\ \A k \in 1..n : f[k] = f[k - 1] + d[k - 1] /\ g[k] = g[k - 1] + d[k - 1]
  <2>1. DOMAIN f = 0..n /\ DOMAIN g = 0..n
    BY <1>1
  <2>2. \A k \in 0..n : f[k] = IF k = 0 THEN 0 ELSE f[k - 1] + d[k - 1]
    BY <1>1
  <2>3. \A k \in 0..n : g[k] = IF k = 0 THEN 0 ELSE g[k - 1] + d[k - 1]
    BY <1>1
  <2>4. QED
    BY <2>1, <2>2, <2>3
<1>3. T = {}
  <2> SUFFICES ASSUME T # {} PROVE FALSE
    OBVIOUS
  <2>0. T \subseteq Nat
    OBVIOUS
  <2>1. IsWellFoundedOn(R, Nat)
    BY NatLessThanWellFounded
  <2>2. \A x, y \in Nat : <<x, y>> \in R <=> x < y
    BY DEF OpToRel
  <2> HIDE DEF R
  <2>3. PICK k \in T : \A y \in T : ~ (<<y, k>> \in R)
    <3> HIDE DEF T
    <3>1. QED
      BY <2>0, <2>1, WFMin
  <2>4. k \in 0..n /\ f[k] # g[k]
    OBVIOUS
  <2>5. k - 1 \in 0..n /\ f[k - 1] # g[k - 1]
    BY <1>2, <2>4
  <2>6. k - 1 \in T /\ k \in Nat /\ k - 1 \in Nat /\ k - 1 < k
    BY <2>4, <2>5
  <2> HIDE DEF T
  <2>7. QED
    BY <2>2, <2>3, <2>6
<1>4. \A k \in 0..n : f[k] = g[k]
  BY <1>3
<1>5. f = [k \in 0..n |-> f[k]] /\ g = [k \in 0..n |-> g[k]]
  BY <1>1, <1>2
<1>6. QED
  BY <1>4, <1>5

\* One value more by one makes the sum one more.
LEMMA SumGrows ==
  ASSUME NEW n \in Nat, NEW d \in [0..(n - 1) -> Nat], NEW e \in [0..(n - 1) -> Nat],
         NEW q \in 0..(n - 1),
         \A k \in 0..(n - 1) : e[k] = IF k = q THEN d[k] + 1 ELSE d[k],
         NEW f \in [0..n -> Nat], Adds(f, d, n)
  PROVE  \E g \in [0..n -> Nat] : Adds(g, e, n) /\ g[n] = f[n] + 1
<1> DEFINE g == [k \in 0..n |-> IF k > q THEN f[k] + 1 ELSE f[k]]
<1>1. \A k \in 0..n : f[k] \in Nat /\ f[k] = IF k = 0 THEN 0 ELSE f[k - 1] + d[k - 1]
  <2>1. f = [k \in 0..n |-> IF k = 0 THEN 0 ELSE f[k - 1] + d[k - 1]]
    BY DEF Adds
  <2>2. \A k \in 0..n : f[k] = IF k = 0 THEN 0 ELSE f[k - 1] + d[k - 1]
    BY <2>1
  <2>3. QED
    BY <2>2
<1>2. g \in [0..n -> Nat]
  BY <1>1
<1>3. g[n] = f[n] + 1
  OBVIOUS
<1>4. ASSUME NEW k \in 0..n
      PROVE  g[k] = IF k = 0 THEN 0 ELSE g[k - 1] + e[k - 1]
  <2>1. g[k] = IF k > q THEN f[k] + 1 ELSE f[k]
    OBVIOUS
  <2>2. CASE k = 0
    BY <1>1, <2>1, <2>2
  <2>3. CASE k # 0
    <3>1. k - 1 \in 0..(n - 1) /\ k - 1 \in 0..n
      BY <2>3
    <3>2. g[k - 1] = IF k - 1 > q THEN f[k - 1] + 1 ELSE f[k - 1]
      BY <3>1
    <3>3. /\ f[k] = f[k - 1] + d[k - 1] /\ f[k - 1] \in Nat /\ d[k - 1] \in Nat
          /\ e[k - 1] = IF k - 1 = q THEN d[k - 1] + 1 ELSE d[k - 1]
      BY <1>1, <2>3, <3>1
    <3> HIDE DEF g
    <3>4. QED
      BY <2>1, <2>3, <3>2, <3>3
  <2>4. QED
    BY <2>2, <2>3
<1>5. Adds(g, e, n)
  <2>1. g = [k \in 0..n |-> g[k]]
    OBVIOUS
  <2> HIDE DEF g
  <2>2. QED
    BY <1>4, <2>1 DEF Adds
<1> HIDE DEF g
<1>6. QED
  BY <1>2, <1>3, <1>5

\* What adds up as much every time.
LEMMA SumOfEqual ==
  ASSUME NEW n \in Nat, NEW c \in Nat, NEW d, \A k \in 0..(n - 1) : d[k] = c
  PROVE  \E f \in [0..n -> Nat] : Adds(f, d, n) /\ f[n] = n * c
<1> DEFINE g == [k \in 0..n |-> k * c]
<1>1. ASSUME NEW k \in 0..n
      PROVE  g[k] = IF k = 0 THEN 0 ELSE g[k - 1] + d[k - 1]
  <2>1. CASE k = 0
    <3>1. 0 * c = 0
      OBVIOUS
    <3>2. QED
      BY <2>1, <3>1
  <2>2. CASE k # 0
    <3>1. k - 1 \in 0..(n - 1) /\ k - 1 \in 0..n
      BY <2>2
    <3>2. g[k] = k * c /\ g[k - 1] = (k - 1) * c /\ d[k - 1] = c
      BY <3>1
    <3>3. k * c = (k - 1) * c + c
      OBVIOUS
    <3>4. QED
      BY <2>2, <3>2, <3>3
  <2>3. QED
    BY <2>1, <2>2
<1>2. g = [k \in 0..n |-> g[k]]
  OBVIOUS
<1>3. Adds(g, d, n)
  <2> HIDE DEF g
  <2>1. QED
    BY <1>1, <1>2 DEF Adds
<1>4. g \in [0..n -> Nat] /\ g[n] = n * c
  OBVIOUS
<1> HIDE DEF g
<1>5. QED
  BY <1>3, <1>4

-----------------------------------------------------------------------------
(* I2's workers.                                                             *)

Cells == 0..(kWorkers * worker_pages - 1)

WorkersTypeOK ==
  /\ mpc \in {"map", "spawn", "disrupt", "go", "join", "stop", "join_disruptor", "returned"}
  /\ with_disruptor \in BOOLEAN
  /\ worker_pages \in Nat \ {0}
  /\ started \in 0..kWorkers
  /\ go \in BOOLEAN /\ stop \in BOOLEAN
  /\ wpc \in [Workers!Workers -> {"none", "wait", "batch", "returned"}]
  /\ b \in [Workers!Workers -> Nat]
  /\ touched \in [Workers!Workers -> Nat]
  /\ samples \in [Workers!Workers -> Nat]
  /\ dpc \in {"none", "wait", "check", "drop", "touch", "returned"}
  /\ off \in Workers!Churned

Mapped == mpc \notin {"map", "returned"}
Joined(w) == mpc \in {"stop", "join_disruptor", "returned"} \/ (mpc = "join" /\ w < started)
Begun(w) == mpc # "map" /\ (mpc = "spawn" => w < started)

\* What run_workers() has done tells what the threads can have done.
OrderInv ==
  /\ mpc \in {"spawn", "join"} => started < kWorkers
  /\ mpc \in {"map", "disrupt", "go"} => started = 0
  /\ go <=> mpc \in {"join", "stop", "join_disruptor", "returned"}
  /\ stop <=> mpc \in {"join_disruptor", "returned"}
  /\ \A w \in Workers!Workers :
       /\ wpc[w] # "none" <=> Begun(w)
       /\ wpc[w] \in {"batch", "returned"} => go
       /\ Joined(w) => wpc[w] = "returned"
  /\ dpc # "none" <=> with_disruptor /\ mpc \notin {"map", "spawn", "disrupt"}
  /\ dpc \in {"check", "drop", "touch", "returned"} => go
  /\ mpc = "returned" => dpc \in {"none", "returned"}

\* The regions are mapped while they are used.
MemoryInv ==
  /\ IF Mapped THEN worker_mem \in [Cells -> Nat] ELSE worker_mem = << >>
  /\ Mapped /\ with_disruptor => churn \in [Workers!Churned -> Nat]

\* A worker has touched its pages as often as it has counted.
CountInv ==
  /\ \A w \in Workers!Workers :
       /\ b[w] <= kBatches /\ samples[w] = b[w]
       /\ wpc[w] \in {"none", "wait"} => b[w] = 0 /\ touched[w] = 0
       /\ wpc[w] = "returned" => b[w] = kBatches
       /\ b[w] = kBatches => touched[w] = 0
  /\ IF mpc = "returned" THEN total = kWorkers * kBatches ELSE total = -1

\* The pages of a worker, and the touches of them.
Own(w) == {q \in Cells : q \div worker_pages = w}
Touches(w) == [q \in Cells |-> IF q \in Own(w) THEN worker_mem[q] ELSE 0]
TouchesInv ==
  Mapped => \A w \in Workers!Workers :
    \E f \in [0..(kWorkers * worker_pages) -> Nat] :
      /\ Adds(f, Touches(w), kWorkers * worker_pages)
      /\ f[kWorkers * worker_pages] = b[w] * kTouchesPerBatch + touched[w]

WorkersIInv == WorkersTypeOK /\ OrderInv /\ MemoryInv /\ CountInv /\ TouchesInv

LEMMA WorkersConstants ==
  /\ kWorkers \in Nat \ {0} /\ kBatches \in Nat \ {0} /\ kTouchesPerBatch \in Nat \ {0}
  /\ MaxPages \in Nat \ {0} /\ ChurnPages \in Nat \ {0}
BY MeasurementsAssumption

\* What the conjuncts say of the cells and of a single worker.
LEMMA OfWorker ==
  ASSUME WorkersTypeOK
  PROVE  /\ kWorkers * worker_pages \in Nat \ {0}
         /\ started \in Nat /\ started <= kWorkers
         /\ \A w \in Workers!Workers :
              w \in Nat /\ w < kWorkers /\ b[w] \in Nat /\ touched[w] \in Nat /\ samples[w] \in Nat
         /\ \A w : w \in Nat /\ w < kWorkers => w \in Workers!Workers
<1>1. worker_pages \in Nat \ {0} /\ started \in 0..kWorkers
  BY DEF WorkersTypeOK
<1>2. kWorkers * worker_pages \in Nat \ {0}
  BY <1>1, WorkersConstants
<1>3. \A w : w \in Workers!Workers <=> w \in Nat /\ w < kWorkers
  BY WorkersConstants DEF Workers!Workers
<1>4. \A w \in Workers!Workers : b[w] \in Nat /\ touched[w] \in Nat /\ samples[w] \in Nat
  BY DEF WorkersTypeOK
<1>5. QED
  BY <1>1, <1>2, <1>3, <1>4, WorkersConstants

\* The r-th page of the w-th worker is the w-th worker's.
LEMMA PageOf ==
  ASSUME NEW pages \in Nat \ {0}, NEW w \in Nat, NEW r \in 0..(pages - 1)
  PROVE  (w * pages + r) \div pages = w
<1> DEFINE a == w * pages + r
           d == (a \div pages) - w
<1>1. /\ a \in Nat /\ a \div pages \in Int /\ d \in Int
      /\ a = pages * (a \div pages) + (a % pages) /\ a % pages \in 0..(pages - 1)
  OBVIOUS
<1>2. pages * d = r - (a % pages)
  BY <1>1
<1>3. d >= 1 => pages * d >= pages
  BY <1>1
<1>4. d <= -1 => pages * d <= -pages
  BY <1>1
<1>5. d = 0
  <2>1. r - (a % pages) < pages /\ r - (a % pages) > -pages
    BY <1>1
  <2> HIDE DEF a, d
  <2>2. QED
    BY <1>1, <1>2, <1>3, <1>4, <2>1
<1>6. QED
  BY <1>1, <1>5

LEMMA CellIsOwn ==
  ASSUME WorkersTypeOK, NEW w \in Workers!Workers
  PROVE  Workers!Cell(w) \in Cells /\ Workers!Cell(w) \in Own(w)
<1>1. worker_pages \in Nat \ {0} /\ w \in Nat /\ w <= kWorkers - 1 /\ kWorkers \in Nat
  BY OfWorker, WorkersConstants DEF WorkersTypeOK
<1> DEFINE r == touched[w] % worker_pages
<1>2. r \in 0..(worker_pages - 1)
  BY <1>1, OfWorker
<1>3. Workers!Cell(w) = w * worker_pages + r
  BY DEF Workers!Cell
<1> HIDE DEF r
<1>4. (w * worker_pages + r) \div worker_pages = w
  BY <1>1, <1>2, PageOf
<1>5. w * worker_pages <= (kWorkers - 1) * worker_pages
  BY <1>1
<1>6. (kWorkers - 1) * worker_pages = kWorkers * worker_pages - worker_pages
  BY <1>1
<1>7. w * worker_pages \in Nat /\ kWorkers * worker_pages \in Nat
  BY <1>1
<1>8. w * worker_pages + r \in Cells
  BY <1>1, <1>2, <1>5, <1>6, <1>7 DEF Cells
<1>9. QED
  BY <1>3, <1>4, <1>8 DEF Own

\* PageTouches() is the sum of the touches.
LEMMA PageTouchesIs ==
  ASSUME WorkersTypeOK, MemoryInv, Mapped, NEW w \in Workers!Workers,
         NEW f, Adds(f, Touches(w), kWorkers * worker_pages)
  PROVE  Workers!PageTouches(w) = f[kWorkers * worker_pages]
<1> DEFINE K == kWorkers * worker_pages
<1>1. DOMAIN worker_mem = Cells /\ K \in Nat
  BY OfWorker DEF MemoryInv
<1>2. {q \in DOMAIN worker_mem : q \div worker_pages = w} = Own(w)
  BY <1>1 DEF Own
<1>3. ASSUME NEW g
      PROVE  Adds(g, Touches(w), K) <=>
               g = [n \in 0..K |->
                     IF n = 0 THEN 0
                     ELSE g[n - 1] + (IF n - 1 \in Own(w) THEN worker_mem[n - 1] ELSE 0)]
  <2>1. \A n \in 0..K : n # 0 => n - 1 \in Cells
    BY <1>1 DEF Cells
  <2>2. \A n \in 0..K : n # 0 =>
          Touches(w)[n - 1] = IF n - 1 \in Own(w) THEN worker_mem[n - 1] ELSE 0
    BY <2>1 DEF Touches
  <2>3. [n \in 0..K |-> IF n = 0 THEN 0 ELSE g[n - 1] + Touches(w)[n - 1]] =
        [n \in 0..K |->
          IF n = 0 THEN 0
          ELSE g[n - 1] + (IF n - 1 \in Own(w) THEN worker_mem[n - 1] ELSE 0)]
    BY <2>2
  <2>4. QED
    BY <2>3 DEF Adds
<1> DEFINE sum == CHOOSE g :
             g = [n \in 0..K |->
                   IF n = 0 THEN 0
                   ELSE g[n - 1] + (IF n - 1 \in Own(w) THEN worker_mem[n - 1] ELSE 0)]
<1>4. Workers!PageTouches(w) = sum[K]
  BY <1>2 DEF Workers!PageTouches
<1>5. Adds(sum, Touches(w), K)
  <2>1. \E g : g = [n \in 0..K |->
                    IF n = 0 THEN 0
                    ELSE g[n - 1] + (IF n - 1 \in Own(w) THEN worker_mem[n - 1] ELSE 0)]
    BY <1>3
  <2>2. sum = [n \in 0..K |->
                IF n = 0 THEN 0
                ELSE sum[n - 1] + (IF n - 1 \in Own(w) THEN worker_mem[n - 1] ELSE 0)]
    BY <2>1
  <2> HIDE DEF sum
  <2>3. QED
    BY <1>3, <2>2
<1>6. sum = f
  <2> HIDE DEF sum
  <2>1. QED
    BY <1>1, <1>5, SumsAgree
<1>7. QED
  BY <1>4, <1>6

\* run_workers() summarises what every worker has sampled.
LEMMA SumOverIs ==
  ASSUME WorkersTypeOK, \A w \in Workers!Workers : samples[w] = kBatches
  PROVE  Workers!SumOver[kWorkers] = kWorkers * kBatches
<1> DEFINE d == [w \in Workers!Workers |-> kBatches]
<1>1. kWorkers \in Nat /\ kBatches \in Nat /\ Workers!Workers = 0..(kWorkers - 1)
  BY WorkersConstants DEF Workers!Workers
<1>2. ASSUME NEW g
      PROVE  Adds(g, d, kWorkers) <=>
               g = [w \in 0..kWorkers |-> IF w = 0 THEN 0 ELSE g[w - 1] + samples[w - 1]]
  <2>1. \A w \in 0..kWorkers : w # 0 => w - 1 \in Workers!Workers
    BY <1>1
  <2>2. [w \in 0..kWorkers |-> IF w = 0 THEN 0 ELSE g[w - 1] + samples[w - 1]] =
        [w \in 0..kWorkers |-> IF w = 0 THEN 0 ELSE g[w - 1] + d[w - 1]]
    BY <2>1
  <2>3. QED
    BY <2>2 DEF Adds
<1>3. PICK f \in [0..kWorkers -> Nat] : Adds(f, d, kWorkers) /\ f[kWorkers] = kWorkers * kBatches
  <2>1. \A k \in 0..(kWorkers - 1) : d[k] = kBatches
    BY <1>1
  <2> HIDE DEF d
  <2>2. QED
    BY <1>1, <2>1, SumOfEqual
<1>4. Adds(Workers!SumOver, d, kWorkers)
  <2> HIDE DEF d
  <2>1. Workers!SumOver = CHOOSE g :
          g = [w \in 0..kWorkers |-> IF w = 0 THEN 0 ELSE g[w - 1] + samples[w - 1]]
    BY DEF Workers!SumOver
  <2>2. QED
    BY <1>2, <1>3, <2>1
<1> HIDE DEF d
<1>5. Workers!SumOver = f
  BY <1>1, <1>3, <1>4, SumsAgree
<1>6. QED
  BY <1>3, <1>5

LEMMA TouchesKept ==
  ASSUME TouchesInv, Mapped' => Mapped, UNCHANGED <<worker_pages, worker_mem, b, touched>>
  PROVE  TouchesInv'
<1>1. Cells' = Cells
  BY DEF Cells
<1>2. \A w : Own(w)' = Own(w)
  BY <1>1 DEF Own
<1>3. \A w : Touches(w)' = Touches(w)
  BY <1>1, <1>2 DEF Touches
<1>4. QED
  BY <1>3 DEF TouchesInv

LEMMA WorkersInit ==
  ASSUME Workers!Init
  PROVE  WorkersIInv
<1>1. WorkersTypeOK
  <2>1. 0 \in 0..kWorkers /\ 0 \in Workers!Churned /\ worker_pages \in Nat \ {0}
    BY WorkersConstants DEF Workers!Init, Workers!Churned
  <2>2. QED
    BY <2>1 DEF Workers!Init, WorkersTypeOK
<1>2. OrderInv
  BY WorkersConstants DEF Workers!Init, OrderInv, Begun, Joined
<1>3. MemoryInv /\ TouchesInv
  BY DEF Workers!Init, MemoryInv, TouchesInv, Mapped
<1>4. CountInv
  BY WorkersConstants DEF Workers!Init, CountInv
<1>5. QED
  BY <1>1, <1>2, <1>3, <1>4 DEF WorkersIInv

LEMMA MapKeeps ==
  ASSUME WorkersIInv, Workers!Map
  PROVE  WorkersIInv'
<1>0. WorkersTypeOK /\ OrderInv /\ MemoryInv /\ CountInv
  BY DEF WorkersIInv
<1>1. /\ mpc = "map" /\ mpc' = "spawn"
      /\ worker_mem' = [q \in Cells |-> 0]
      /\ churn' = IF with_disruptor THEN [q \in Workers!Churned |-> 0] ELSE << >>
      /\ UNCHANGED <<with_disruptor, worker_pages, go, stop, started, total, wpc, b, touched,
                     samples, dpc, off>>
  BY DEF Workers!Map, Workers!workerVars, Workers!disruptorVars, Cells
<1>2. started = 0 /\ \A w \in Workers!Workers : wpc[w] = "none" /\ w \in Nat
  BY <1>0, <1>1, OfWorker DEF OrderInv, Begun
<1>3. Cells' = Cells /\ (\A w : Own(w)' = Own(w))
  BY <1>1 DEF Cells, Own
<1>4. WorkersTypeOK'
  BY <1>0, <1>1 DEF WorkersTypeOK
<1>5. OrderInv'
  <2>1. started' < kWorkers
    BY <1>1, <1>2, WorkersConstants
  <2>2. \A w \in Workers!Workers : ~(w < started')
    BY <1>1, <1>2
  <2>3. QED
    BY <2>1, <2>2, <1>0, <1>1, <1>2 DEF OrderInv, Begun, Joined
<1>6. MemoryInv'
  BY <1>1, <1>3 DEF MemoryInv, Mapped
<1>7. CountInv'
  BY <1>0, <1>1 DEF CountInv
<1>8. TouchesInv'
  <2> SUFFICES ASSUME NEW w \in Workers!Workers
               PROVE  \E f \in [0..(kWorkers * worker_pages) -> Nat] :
                        /\ Adds(f, Touches(w)', kWorkers * worker_pages)
                        /\ f[kWorkers * worker_pages] = b[w] * kTouchesPerBatch + touched[w]
    BY <1>1 DEF TouchesInv
  <2>1. b[w] = 0 /\ touched[w] = 0
    BY <1>0, <1>2 DEF CountInv
  <2>2. \A k \in 0..(kWorkers * worker_pages - 1) : Touches(w)'[k] = 0
    BY <1>1, <1>3 DEF Touches, Cells
  <2>3. 0 * kTouchesPerBatch + 0 = 0 /\ kWorkers * worker_pages * 0 = 0
    BY <1>0, WorkersConstants, OfWorker
  <2>4. kWorkers * worker_pages \in Nat /\ 0 \in Nat
    BY <1>0, OfWorker
  <2> DEFINE d == Touches(w)'
             n == kWorkers * worker_pages
  <2> HIDE DEF d, n
  <2>5. \E f \in [0..n -> Nat] : Adds(f, d, n) /\ f[n] = n * 0
    BY <2>2, <2>4, SumOfEqual DEF d, n
  <2>6. QED
    BY <2>1, <2>3, <2>5 DEF d, n
<1>9. QED
  BY <1>4, <1>5, <1>6, <1>7, <1>8 DEF WorkersIInv

LEMMA SpawnWorkerKeeps ==
  ASSUME WorkersIInv, Workers!SpawnWorker
  PROVE  WorkersIInv'
<1>0. WorkersTypeOK /\ OrderInv /\ MemoryInv /\ CountInv /\ TouchesInv
  BY DEF WorkersIInv
<1>1. /\ mpc = "spawn"
      /\ wpc' = [wpc EXCEPT ![started] = "wait"]
      /\ \/ started + 1 < kWorkers /\ started' = started + 1 /\ mpc' = "spawn"
         \/ ~(started + 1 < kWorkers) /\ started' = 0 /\ mpc' = "disrupt"
      /\ UNCHANGED <<with_disruptor, worker_pages, go, stop, total, b, touched, samples, dpc,
                     off, worker_mem, churn>>
  BY DEF Workers!SpawnWorker, Workers!disruptorVars
<1>2. started \in Nat /\ started < kWorkers /\ started \in Workers!Workers /\ kWorkers \in Nat
  BY <1>0, <1>1, OfWorker, WorkersConstants DEF OrderInv
<1>3. /\ wpc'[started] = "wait"
      /\ \A w \in Workers!Workers : w # started => wpc'[w] = wpc[w]
      /\ wpc' \in [Workers!Workers -> {"none", "wait", "batch", "returned"}]
  BY <1>0, <1>1, <1>2 DEF WorkersTypeOK
<1>4. wpc[started] = "none"
  BY <1>0, <1>1, <1>2 DEF OrderInv, Begun
<1>5. WorkersTypeOK'
  <2>1. started' \in 0..kWorkers
    BY <1>1, <1>2
  <2>2. QED
    BY <2>1, <1>0, <1>1, <1>3 DEF WorkersTypeOK
<1>6. OrderInv'
  <2>1. ASSUME NEW w \in Workers!Workers
        PROVE  /\ wpc'[w] # "none" <=> Begun(w)'
               /\ wpc'[w] \in {"batch", "returned"} => go'
               /\ ~Joined(w)'
    <3>1. w \in Nat /\ w < kWorkers
      BY <1>0, OfWorker
    <3>2. Begun(w)' <=> w < started \/ w = started
      BY <1>1, <1>2, <3>1 DEF Begun
    <3>3. wpc[w] # "none" <=> w < started
      BY <1>0, <1>1 DEF OrderInv, Begun
    <3>4. ~Joined(w)'
      BY <1>1 DEF Joined
    <3>5. CASE w = started
      BY <3>2, <3>4, <3>5, <1>3
    <3>6. CASE w # started
      BY <3>2, <3>3, <3>4, <3>6, <1>0, <1>1, <1>3 DEF OrderInv
    <3>7. QED
      BY <3>5, <3>6
  <2>2. QED
    BY <2>1, <1>0, <1>1 DEF OrderInv
<1>7. MemoryInv'
  BY <1>0, <1>1 DEF MemoryInv, Mapped, Cells
<1>8. CountInv'
  BY <1>0, <1>1, <1>2, <1>3, <1>4 DEF CountInv
<1>9. TouchesInv'
  BY <1>0, <1>1, TouchesKept DEF Mapped
<1>10. QED
  BY <1>5, <1>6, <1>7, <1>8, <1>9 DEF WorkersIInv

LEMMA SpawnDisruptorKeeps ==
  ASSUME WorkersIInv, Workers!SpawnDisruptor
  PROVE  WorkersIInv'
<1>0. WorkersTypeOK /\ OrderInv /\ MemoryInv /\ CountInv /\ TouchesInv
  BY DEF WorkersIInv
<1>1. /\ mpc = "disrupt" /\ mpc' = "go"
      /\ dpc' = IF with_disruptor THEN "wait" ELSE dpc
      /\ UNCHANGED <<with_disruptor, worker_pages, go, stop, started, total, wpc, b, touched,
                     samples, off, worker_mem, churn>>
  BY DEF Workers!SpawnDisruptor, Workers!workerVars
<1>2. WorkersTypeOK'
  BY <1>0, <1>1 DEF WorkersTypeOK
<1>3. OrderInv'
  BY <1>0, <1>1 DEF OrderInv, Begun, Joined
<1>4. MemoryInv' /\ CountInv'
  BY <1>0, <1>1 DEF MemoryInv, CountInv, Mapped, Cells
<1>5. TouchesInv'
  BY <1>0, <1>1, TouchesKept DEF Mapped
<1>6. QED
  BY <1>2, <1>3, <1>4, <1>5 DEF WorkersIInv

LEMMA StoreGoKeeps ==
  ASSUME WorkersIInv, Workers!StoreGo
  PROVE  WorkersIInv'
<1>0. WorkersTypeOK /\ OrderInv /\ MemoryInv /\ CountInv /\ TouchesInv
  BY DEF WorkersIInv
<1>1. /\ mpc = "go" /\ mpc' = "join" /\ go' = TRUE
      /\ UNCHANGED <<with_disruptor, worker_pages, stop, started, total, wpc, b, touched,
                     samples, dpc, off, worker_mem, churn>>
  BY DEF Workers!StoreGo, Workers!workerVars, Workers!disruptorVars
<1>2. started = 0 /\ 0 < kWorkers /\ \A w \in Workers!Workers : ~(w < 0)
  BY <1>0, <1>1, OfWorker, WorkersConstants DEF OrderInv
<1>3. WorkersTypeOK'
  BY <1>0, <1>1 DEF WorkersTypeOK
<1>4. OrderInv'
  BY <1>0, <1>1, <1>2 DEF OrderInv, Begun, Joined
<1>5. MemoryInv' /\ CountInv'
  BY <1>0, <1>1 DEF MemoryInv, CountInv, Mapped, Cells
<1>6. TouchesInv'
  BY <1>0, <1>1, TouchesKept DEF Mapped
<1>7. QED
  BY <1>3, <1>4, <1>5, <1>6 DEF WorkersIInv

LEMMA JoinWorkerKeeps ==
  ASSUME WorkersIInv, Workers!JoinWorker
  PROVE  WorkersIInv'
<1>0. WorkersTypeOK /\ OrderInv /\ MemoryInv /\ CountInv /\ TouchesInv
  BY DEF WorkersIInv
<1>1. /\ mpc = "join" /\ wpc[started] = "returned" /\ started' = started + 1
      /\ mpc' = IF started' < kWorkers THEN "join" ELSE "stop"
      /\ UNCHANGED <<with_disruptor, worker_pages, go, stop, total, wpc, b, touched,
                     samples, dpc, off, worker_mem, churn>>
  BY DEF Workers!JoinWorker, Workers!Joinable, Workers!workerVars, Workers!disruptorVars
<1>2. started \in Nat /\ started < kWorkers /\ kWorkers \in Nat
  BY <1>0, <1>1, OfWorker, WorkersConstants DEF OrderInv
<1>3. WorkersTypeOK'
  <2>1. started' \in 0..kWorkers
    BY <1>1, <1>2
  <2>2. QED
    BY <2>1, <1>0, <1>1 DEF WorkersTypeOK
<1>4. OrderInv'
  <2>1. \A w \in Workers!Workers : Joined(w)' => wpc[w] = "returned"
    <3> SUFFICES ASSUME NEW w \in Workers!Workers, Joined(w)'
                 PROVE  wpc[w] = "returned"
      OBVIOUS
    <3>1. w \in Nat /\ w < kWorkers
      BY <1>0, OfWorker
    <3>2. w < started \/ w = started
      BY <3>1, <1>1, <1>2 DEF Joined
    <3>3. QED
      BY <3>2, <1>0, <1>1 DEF OrderInv, Joined
  <2>2. QED
    BY <2>1, <1>0, <1>1, <1>2 DEF OrderInv, Begun
<1>5. MemoryInv' /\ CountInv'
  BY <1>0, <1>1 DEF MemoryInv, CountInv, Mapped, Cells
<1>6. TouchesInv'
  BY <1>0, <1>1, TouchesKept DEF Mapped
<1>7. QED
  BY <1>3, <1>4, <1>5, <1>6 DEF WorkersIInv

LEMMA StoreStopKeeps ==
  ASSUME WorkersIInv, Workers!StoreStop
  PROVE  WorkersIInv'
<1>0. WorkersTypeOK /\ OrderInv /\ MemoryInv /\ CountInv /\ TouchesInv
  BY DEF WorkersIInv
<1>1. /\ mpc = "stop" /\ mpc' = "join_disruptor" /\ stop' = TRUE
      /\ UNCHANGED <<with_disruptor, worker_pages, go, started, total, wpc, b, touched,
                     samples, dpc, off, worker_mem, churn>>
  BY DEF Workers!StoreStop, Workers!StopSet, Workers!workerVars, Workers!disruptorVars
<1>2. WorkersTypeOK'
  BY <1>0, <1>1 DEF WorkersTypeOK
<1>3. OrderInv'
  BY <1>0, <1>1 DEF OrderInv, Begun, Joined
<1>4. MemoryInv' /\ CountInv'
  BY <1>0, <1>1 DEF MemoryInv, CountInv, Mapped, Cells
<1>5. TouchesInv'
  BY <1>0, <1>1, TouchesKept DEF Mapped
<1>6. QED
  BY <1>2, <1>3, <1>4, <1>5 DEF WorkersIInv

LEMMA FinishKeeps ==
  ASSUME WorkersIInv, Workers!Finish
  PROVE  WorkersIInv'
<1>0. WorkersTypeOK /\ OrderInv /\ MemoryInv /\ CountInv /\ TouchesInv
  BY DEF WorkersIInv
<1>1. /\ mpc = "join_disruptor" /\ mpc' = "returned"
      /\ with_disruptor => dpc = "returned"
      /\ worker_mem' = << >> /\ total' = Workers!SumOver[kWorkers]
      /\ UNCHANGED <<with_disruptor, worker_pages, go, stop, started, wpc, b, touched,
                     samples, dpc, off>>
  BY DEF Workers!Finish, Workers!workerVars, Workers!disruptorVars
<1>2. \A w \in Workers!Workers : samples[w] = kBatches
  <2>1. \A w \in Workers!Workers : wpc[w] = "returned"
    BY <1>0, <1>1 DEF OrderInv, Joined
  <2>2. QED
    BY <2>1, <1>0 DEF CountInv
<1>3. total' = kWorkers * kBatches
  BY <1>0, <1>1, <1>2, SumOverIs
<1>4. WorkersTypeOK'
  BY <1>0, <1>1 DEF WorkersTypeOK
<1>5. OrderInv'
  BY <1>0, <1>1 DEF OrderInv, Begun, Joined
<1>6. MemoryInv' /\ TouchesInv'
  BY <1>1 DEF MemoryInv, TouchesInv, Mapped
<1>7. CountInv'
  BY <1>0, <1>1, <1>3 DEF CountInv
<1>8. QED
  BY <1>4, <1>5, <1>6, <1>7 DEF WorkersIInv

\* A worker or the disruptor goes on: nobody else's place changes.
LEMMA WaitGoKeeps ==
  ASSUME WorkersIInv, NEW w \in Workers!Workers, Workers!WaitGo(w)
  PROVE  WorkersIInv'
<1>0. WorkersTypeOK /\ OrderInv /\ MemoryInv /\ CountInv /\ TouchesInv
  BY DEF WorkersIInv
<1>1. /\ wpc[w] = "wait" /\ go
      /\ wpc' = [wpc EXCEPT ![w] = "batch"]
      /\ UNCHANGED <<mpc, with_disruptor, worker_pages, go, stop, started, total, b, touched,
                     samples, dpc, off, worker_mem, churn>>
  BY DEF Workers!WaitGo, Workers!mainVars, Workers!disruptorVars
<1>2. /\ wpc'[w] = "batch" /\ \A u \in Workers!Workers : u # w => wpc'[u] = wpc[u]
      /\ wpc' \in [Workers!Workers -> {"none", "wait", "batch", "returned"}]
  BY <1>0, <1>1 DEF WorkersTypeOK
<1>3. WorkersTypeOK'
  BY <1>0, <1>1, <1>2 DEF WorkersTypeOK
<1>4. OrderInv'
  <2>1. ASSUME NEW u \in Workers!Workers
        PROVE  /\ wpc'[u] # "none" <=> Begun(u)
               /\ wpc'[u] \in {"batch", "returned"} => go
               /\ Joined(u) => wpc'[u] = "returned"
    BY <1>0, <1>1, <1>2 DEF OrderInv
  <2>2. QED
    BY <2>1, <1>0, <1>1 DEF OrderInv, Begun, Joined
<1>5. MemoryInv'
  BY <1>0, <1>1 DEF MemoryInv, Mapped, Cells
<1>6. CountInv'
  BY <1>0, <1>1, <1>2 DEF CountInv
<1>7. TouchesInv'
  BY <1>0, <1>1, TouchesKept DEF Mapped
<1>8. QED
  BY <1>3, <1>4, <1>5, <1>6, <1>7 DEF WorkersIInv

LEMMA TouchKeeps ==
  ASSUME WorkersIInv, NEW w \in Workers!Workers, Workers!Touch(w)
  PROVE  WorkersIInv'
<1>0. WorkersTypeOK /\ OrderInv /\ MemoryInv /\ CountInv /\ TouchesInv
  BY DEF WorkersIInv
<1> DEFINE place == Workers!Cell(w)
<1>1. /\ wpc[w] = "batch" /\ b[w] < kBatches
      /\ worker_mem' = [worker_mem EXCEPT ![place] = worker_mem[place] + 1]
      /\ touched' = [touched EXCEPT ![w] = touched[w] + 1]
      /\ UNCHANGED <<mpc, with_disruptor, worker_pages, go, stop, started, total, wpc, b,
                     samples, dpc, off, churn>>
  BY DEF Workers!Touch, Workers!mainVars, Workers!disruptorVars
<1>2. place \in Cells /\ place \in Own(w)
  BY <1>0, CellIsOwn
<1> HIDE DEF place
<1>3. Mapped
  <2>1. go /\ mpc # "returned"
    BY <1>0, <1>1 DEF OrderInv, Joined
  <2>2. QED
    BY <2>1, <1>0 DEF OrderInv, Mapped
<1>4. /\ worker_mem \in [Cells -> Nat] /\ worker_mem' \in [Cells -> Nat]
      /\ worker_mem'[place] = worker_mem[place] + 1
      /\ \A q \in Cells : q # place => worker_mem'[q] = worker_mem[q]
  <2>1. worker_mem \in [Cells -> Nat]
    BY <1>0, <1>3 DEF MemoryInv
  <2>2. QED
    BY <2>1, <1>1, <1>2
<1>5. /\ touched'[w] = touched[w] + 1 /\ touched[w] \in Nat
      /\ \A u \in Workers!Workers : u # w => touched'[u] = touched[u]
      /\ touched' \in [Workers!Workers -> Nat]
  BY <1>0, <1>1 DEF WorkersTypeOK
<1>6. WorkersTypeOK'
  BY <1>0, <1>1, <1>5 DEF WorkersTypeOK
<1>7. OrderInv'
  BY <1>0, <1>1 DEF OrderInv, Begun, Joined
<1>8. Cells' = Cells /\ (\A u : Own(u)' = Own(u)) /\ (Mapped' <=> Mapped)
  BY <1>1 DEF Cells, Own, Mapped
<1>9. MemoryInv'
  BY <1>0, <1>1, <1>3, <1>4, <1>8 DEF MemoryInv
<1>10. CountInv'
  BY <1>0, <1>1, <1>5, OfWorker, WorkersConstants DEF CountInv
<1>11. TouchesInv'
  <2> DEFINE n == kWorkers * worker_pages
  <2> SUFFICES ASSUME NEW u \in Workers!Workers
               PROVE  \E f \in [0..n -> Nat] :
                        Adds(f, Touches(u)', n) /\ f[n] = b[u] * kTouchesPerBatch + touched'[u]
    BY <1>1 DEF TouchesInv
  <2>1. n \in Nat /\ Cells = 0..(n - 1) /\ b[u] \in Nat /\ touched[u] \in Nat
    BY <1>0, OfWorker DEF Cells
  <2>2. PICK f \in [0..n -> Nat] :
               Adds(f, Touches(u), n) /\ f[n] = b[u] * kTouchesPerBatch + touched[u]
    BY <1>0, <1>3 DEF TouchesInv
  <2>3. CASE u # w
    <3>1. place \notin Own(u)
      BY <1>2, <2>3 DEF Own
    <3>2. Touches(u)' = Touches(u)
      BY <3>1, <1>4, <1>8 DEF Touches
    <3>3. QED
      BY <2>2, <2>3, <3>2, <1>5
  <2>4. CASE u = w
    <3> DEFINE d == Touches(w)
               e == Touches(w)'
    <3>1. d \in [Cells -> Nat] /\ e \in [Cells -> Nat]
      BY <1>4, <1>8 DEF Touches
    <3>2. \A k \in Cells : e[k] = IF k = place THEN d[k] + 1 ELSE d[k]
      BY <1>2, <1>4, <1>8 DEF Touches
    <3> HIDE DEF d, e, n
    <3>3. PICK g \in [0..n -> Nat] : Adds(g, e, n) /\ g[n] = f[n] + 1
      <4>1. Adds(f, d, n)
        BY <2>2, <2>4 DEF d
      <4>2. QED
        BY <3>1, <3>2, <4>1, <1>2, <2>1, SumGrows
    <3>4. g[n] = b[w] * kTouchesPerBatch + touched'[w]
      <4>1. b[w] * kTouchesPerBatch \in Nat
        BY <2>1, <2>4, WorkersConstants
      <4>2. QED
        BY <4>1, <2>2, <2>4, <3>3, <1>5
    <3>5. QED
      BY <2>4, <3>3, <3>4 DEF e
  <2>5. QED
    BY <2>3, <2>4
<1>12. QED
  BY <1>6, <1>7, <1>9, <1>10, <1>11 DEF WorkersIInv

LEMMA BatchEndsKeeps ==
  ASSUME WorkersIInv, NEW w \in Workers!Workers, Workers!BatchEnds(w)
  PROVE  WorkersIInv'
<1>0. WorkersTypeOK /\ OrderInv /\ MemoryInv /\ CountInv /\ TouchesInv
  BY DEF WorkersIInv
<1>1. /\ wpc[w] = "batch" /\ touched[w] = kTouchesPerBatch
      /\ samples' = [samples EXCEPT ![w] = samples[w] + 1]
      /\ b' = [b EXCEPT ![w] = b[w] + 1]
      /\ touched' = [touched EXCEPT ![w] = 0]
      /\ UNCHANGED <<mpc, with_disruptor, worker_pages, go, stop, started, total, wpc,
                     dpc, off, worker_mem, churn>>
  BY DEF Workers!BatchEnds, Workers!mainVars, Workers!disruptorVars
<1>2. /\ samples'[w] = samples[w] + 1 /\ b'[w] = b[w] + 1 /\ touched'[w] = 0
      /\ b[w] \in Nat
      /\ \A u \in Workers!Workers : u # w =>
           samples'[u] = samples[u] /\ b'[u] = b[u] /\ touched'[u] = touched[u]
      /\ samples' \in [Workers!Workers -> Nat] /\ b' \in [Workers!Workers -> Nat]
      /\ touched' \in [Workers!Workers -> Nat]
  BY <1>0, <1>1 DEF WorkersTypeOK
<1>3. WorkersTypeOK'
  BY <1>0, <1>1, <1>2 DEF WorkersTypeOK
<1>4. OrderInv'
  BY <1>0, <1>1 DEF OrderInv, Begun, Joined
<1>5. MemoryInv'
  BY <1>0, <1>1 DEF MemoryInv, Mapped, Cells
<1>6. b[w] < kBatches
  BY <1>0, <1>1, <1>2, WorkersConstants DEF CountInv
<1>7. CountInv'
  BY <1>0, <1>1, <1>2, <1>6, WorkersConstants DEF CountInv
<1>8. TouchesInv'
  <2> DEFINE n == kWorkers * worker_pages
  <2>1. Touches(w)' = Touches(w) /\ \A u : Touches(u)' = Touches(u)
    BY <1>1 DEF Touches, Own, Cells
  <2> SUFFICES ASSUME Mapped, NEW u \in Workers!Workers
               PROVE  \E f \in [0..n -> Nat] :
                        Adds(f, Touches(u), n) /\ f[n] = b'[u] * kTouchesPerBatch + touched'[u]
    BY <1>1, <2>1 DEF TouchesInv, Mapped
  <2>2. PICK f \in [0..n -> Nat] :
               Adds(f, Touches(u), n) /\ f[n] = b[u] * kTouchesPerBatch + touched[u]
    BY <1>0 DEF TouchesInv
  <2>3. b'[u] * kTouchesPerBatch + touched'[u] = b[u] * kTouchesPerBatch + touched[u]
    <3>1. CASE u = w
      <4>1. (b[w] + 1) * kTouchesPerBatch + 0 = b[w] * kTouchesPerBatch + kTouchesPerBatch
        BY <1>2, WorkersConstants
      <4>2. QED
        BY <3>1, <4>1, <1>1, <1>2
    <3>2. CASE u # w
      BY <3>2, <1>2
    <3>3. QED
      BY <3>1, <3>2
  <2>4. QED
    BY <2>2, <2>3
<1>9. QED
  BY <1>3, <1>4, <1>5, <1>7, <1>8 DEF WorkersIInv

LEMMA WorkerReturnsKeeps ==
  ASSUME WorkersIInv, NEW w \in Workers!Workers, Workers!WorkerReturns(w)
  PROVE  WorkersIInv'
<1>0. WorkersTypeOK /\ OrderInv /\ MemoryInv /\ CountInv /\ TouchesInv
  BY DEF WorkersIInv
<1>1. /\ wpc[w] = "batch" /\ b[w] = kBatches
      /\ wpc' = [wpc EXCEPT ![w] = "returned"]
      /\ UNCHANGED <<mpc, with_disruptor, worker_pages, go, stop, started, total, b, touched,
                     samples, dpc, off, worker_mem, churn>>
  BY DEF Workers!WorkerReturns, Workers!mainVars, Workers!disruptorVars
<1>2. /\ wpc'[w] = "returned" /\ \A u \in Workers!Workers : u # w => wpc'[u] = wpc[u]
      /\ wpc' \in [Workers!Workers -> {"none", "wait", "batch", "returned"}]
  BY <1>0, <1>1 DEF WorkersTypeOK
<1>3. WorkersTypeOK'
  BY <1>0, <1>1, <1>2 DEF WorkersTypeOK
<1>4. OrderInv'
  <2>1. ASSUME NEW u \in Workers!Workers
        PROVE  /\ wpc'[u] # "none" <=> Begun(u)
               /\ wpc'[u] \in {"batch", "returned"} => go
               /\ Joined(u) => wpc'[u] = "returned"
    BY <1>0, <1>1, <1>2 DEF OrderInv
  <2>2. QED
    BY <2>1, <1>0, <1>1 DEF OrderInv, Begun, Joined
<1>5. MemoryInv'
  BY <1>0, <1>1 DEF MemoryInv, Mapped, Cells
<1>6. CountInv'
  BY <1>0, <1>1, <1>2 DEF CountInv
<1>7. TouchesInv'
  BY <1>0, <1>1, TouchesKept DEF Mapped
<1>8. QED
  BY <1>3, <1>4, <1>5, <1>6, <1>7 DEF WorkersIInv

LEMMA DisruptKeeps ==
  ASSUME WorkersIInv, Workers!Disrupt
  PROVE  WorkersIInv'
<1>0. WorkersTypeOK /\ OrderInv /\ MemoryInv /\ CountInv /\ TouchesInv
  BY DEF WorkersIInv
<1>1. /\ dpc \notin {"none", "returned"}
      /\ dpc' \in {"check", "drop", "touch", "returned"} /\ go
      /\ UNCHANGED <<mpc, with_disruptor, worker_pages, go, stop, started, total, wpc, b,
                     touched, samples, worker_mem>>
  <2>1. dpc \notin {"none", "returned"}
    BY DEF Workers!Disrupt, Workers!DisruptorGoes, Workers!CheckStop, Workers!Drop,
       Workers!TouchPage
  <2>2. dpc' \in {"check", "drop", "touch", "returned"}
    BY DEF Workers!Disrupt, Workers!DisruptorGoes, Workers!CheckStop, Workers!Drop,
       Workers!TouchPage
  <2>3. go
    BY <1>0 DEF Workers!Disrupt, Workers!DisruptorGoes, Workers!CheckStop, Workers!Drop,
       Workers!TouchPage, OrderInv
  <2>4. UNCHANGED <<Workers!mainVars, Workers!workerVars, worker_mem>>
    BY DEF Workers!Disrupt, Workers!DisruptorGoes, Workers!CheckStop, Workers!Drop,
       Workers!TouchPage
  <2>5. QED
    BY <2>1, <2>2, <2>3, <2>4 DEF Workers!mainVars, Workers!workerVars
<1>2. off' \in Workers!Churned
  <2>1. 0 \in Workers!Churned
    BY WorkersConstants DEF Workers!Churned
  <2>2. off \in Workers!Churned /\ off + 1 < ChurnPages => off + 1 \in Workers!Churned
    BY WorkersConstants DEF Workers!Churned
  <2>3. off' = off \/ off' = 0 \/ (off + 1 < ChurnPages /\ off' = off + 1)
    BY DEF Workers!Disrupt, Workers!DisruptorGoes, Workers!CheckStop, Workers!Drop,
       Workers!TouchPage
  <2>4. QED
    BY <2>1, <2>2, <2>3, <1>0 DEF WorkersTypeOK
<1>3. WorkersTypeOK'
  BY <1>0, <1>1, <1>2 DEF WorkersTypeOK
<1>4. OrderInv'
  BY <1>0, <1>1 DEF OrderInv, Begun, Joined
<1>5. churn \in [Workers!Churned -> Nat] => churn' \in [Workers!Churned -> Nat]
  <2> SUFFICES ASSUME churn \in [Workers!Churned -> Nat]
               PROVE  churn' \in [Workers!Churned -> Nat]
    OBVIOUS
  <2>1. \/ churn' = churn
        \/ churn' = [q \in DOMAIN churn |-> 0]
        \/ churn' = [churn EXCEPT ![off] = 1]
    BY DEF Workers!Disrupt, Workers!DisruptorGoes, Workers!CheckStop, Workers!Drop,
       Workers!TouchPage
  <2>2. QED
    BY <2>1
<1>6. MemoryInv'
  BY <1>0, <1>1, <1>5 DEF MemoryInv, Mapped, Cells
<1>7. CountInv'
  BY <1>0, <1>1 DEF CountInv
<1>8. TouchesInv'
  BY <1>0, <1>1, TouchesKept DEF Mapped
<1>9. QED
  BY <1>3, <1>4, <1>6, <1>7, <1>8 DEF WorkersIInv

LEMMA WorkersStep ==
  ASSUME WorkersIInv, Workers!Next
  PROVE  WorkersIInv'
<1>1. CASE Workers!Main
  BY <1>1, MapKeeps, SpawnWorkerKeeps, SpawnDisruptorKeeps, StoreGoKeeps, JoinWorkerKeeps,
     StoreStopKeeps, FinishKeeps DEF Workers!Main
<1>2. ASSUME NEW w \in Workers!Workers, Workers!Worker(w)
      PROVE  WorkersIInv'
  BY <1>2, WaitGoKeeps, TouchKeeps, BatchEndsKeeps, WorkerReturnsKeeps DEF Workers!Worker
<1>3. CASE Workers!Disrupt
  BY <1>3, DisruptKeeps
<1>4. CASE Workers!Returned
  <2>1. UNCHANGED <<mpc, with_disruptor, worker_pages, go, stop, started, total, wpc, b,
                    touched, samples, dpc, off, worker_mem, churn>>
    BY <1>4 DEF Workers!Returned, Workers!shootdownVars, Workers!mainVars, Workers!workerVars,
       Workers!disruptorVars
  <2>2. WorkersTypeOK' /\ OrderInv' /\ MemoryInv' /\ CountInv'
    BY <2>1 DEF WorkersIInv, WorkersTypeOK, OrderInv, MemoryInv, CountInv, Begun, Joined,
       Mapped, Cells
  <2>3. TouchesInv'
    BY <2>1, TouchesKept DEF WorkersIInv, Mapped
  <2>4. QED
    BY <2>2, <2>3 DEF WorkersIInv
<1>5. QED
  BY <1>1, <1>2, <1>3, <1>4 DEF Workers!Next

\* What every worker does in full.
LEMMA RunInFull ==
  ASSUME WorkersIInv
  PROVE  Workers!WorkersRunInFull
<1>0. WorkersTypeOK /\ OrderInv /\ MemoryInv /\ CountInv /\ TouchesInv
  BY DEF WorkersIInv
<1>1. ASSUME NEW w \in Workers!Workers, wpc[w] \in {"batch", "returned"}
      PROVE  /\ \A u \in Workers!Workers : wpc[u] # "none"
             /\ with_disruptor => dpc # "none"
  <2>1. mpc \in {"join", "stop", "join_disruptor", "returned"}
    BY <1>0, <1>1 DEF OrderInv
  <2>2. QED
    BY <2>1, <1>0 DEF OrderInv, Begun
<1>2. Mapped => worker_mem # << >>
  <2>1. 0 \in Cells
    BY <1>0, OfWorker DEF Cells
  <2>2. ASSUME Mapped
        PROVE  DOMAIN worker_mem # {}
    BY <2>1, <2>2, <1>0 DEF MemoryInv
  <2>3. DOMAIN << >> = {}
    OBVIOUS
  <2>4. QED
    BY <2>2, <2>3
<1>3. ASSUME NEW w \in Workers!Workers, wpc[w] = "batch"
      PROVE  ~stop /\ worker_mem # << >>
  <2>1. mpc = "join"
    BY <1>0, <1>3 DEF OrderInv, Joined
  <2>2. QED
    BY <2>1, <1>0, <1>2 DEF OrderInv, Mapped
<1>4. ASSUME NEW w \in Workers!Workers, worker_mem # << >>
      PROVE  Workers!PageTouches(w) = b[w] * kTouchesPerBatch + touched[w]
  <2>1. Mapped
    BY <1>0, <1>4 DEF MemoryInv
  <2>2. PICK f \in [0..(kWorkers * worker_pages) -> Nat] :
               /\ Adds(f, Touches(w), kWorkers * worker_pages)
               /\ f[kWorkers * worker_pages] = b[w] * kTouchesPerBatch + touched[w]
    BY <2>1, <1>0 DEF TouchesInv
  <2>3. QED
    BY <2>1, <2>2, <1>0, PageTouchesIs
<1>5. dpc \in {"drop", "touch"} => churn # << >>
  <2> SUFFICES ASSUME dpc \in {"drop", "touch"}
               PROVE  churn # << >>
    OBVIOUS
  <2>1. Mapped /\ with_disruptor
    BY <1>0 DEF OrderInv, Mapped
  <2>2. churn \in [Workers!Churned -> Nat] /\ 0 \in Workers!Churned
    BY <2>1, <1>0, WorkersConstants DEF MemoryInv, Workers!Churned
  <2>3. DOMAIN churn # {} /\ DOMAIN << >> = {}
    BY <2>2
  <2>4. QED
    BY <2>3
<1>6. total # -1 => total = kWorkers * kBatches
  BY <1>0 DEF CountInv
<1>7. QED
  BY <1>1, <1>3, <1>4, <1>5, <1>6 DEF Workers!WorkersRunInFull

-----------------------------------------------------------------------------
(* I2 to I5's walks.  First, the arithmetic of pages and lines.              *)

LEMMA Division ==
  ASSUME NEW k \in Nat, NEW m \in Nat \ {0}
  PROVE  k \div m \in Int /\ k % m \in 0..(m - 1) /\ k = (k \div m) * m + (k % m)
<1>1. k \div m \in Int /\ k = m * (k \div m) + (k % m)
  OBVIOUS
<1>2. QED
  BY <1>1

\* m things in each of n places: each has one number.
LEMMA Numbering ==
  ASSUME NEW n \in Nat \ {0}, NEW m \in Nat \ {0}
  PROVE  /\ \A k \in 0..(n * m - 1) :
              k \div m \in 0..(n - 1) /\ k % m \in 0..(m - 1) /\ k = (k \div m) * m + (k % m)
         /\ \A q \in 0..(n - 1), r \in 0..(m - 1) :
              /\ q * m + r \in 0..(n * m - 1)
              /\ (q * m + r) \div m = q /\ (q * m + r) % m = r
<1>1. n * m \in Nat
  OBVIOUS
<1>2. ASSUME NEW k \in 0..(n * m - 1)
      PROVE  k \div m \in 0..(n - 1) /\ k % m \in 0..(m - 1) /\ k = (k \div m) * m + (k % m)
  <2>1. k \in Nat /\ k < n * m
    BY <1>1
  <2>2. k \div m \in Nat /\ k % m \in 0..(m - 1) /\ k = (k \div m) * m + (k % m)
    <3>1. k \div m \in Int /\ k % m \in 0..(m - 1) /\ k = (k \div m) * m + (k % m)
      BY <2>1, Division
    <3>2. k \div m <= -1 => (k \div m) * m <= -m
      BY <3>1
    <3>3. QED
      BY <2>1, <3>1, <3>2
  <2>3. k \div m >= n => (k \div m) * m >= n * m
    BY <2>2
  <2>4. (k \div m) * m \in Nat
    BY <2>2
  <2>5. k \div m < n
    BY <1>1, <2>1, <2>2, <2>3, <2>4
  <2>6. QED
    BY <2>2, <2>5
<1>3. ASSUME NEW q \in 0..(n - 1), NEW r \in 0..(m - 1)
      PROVE  /\ q * m + r \in 0..(n * m - 1)
             /\ (q * m + r) \div m = q /\ (q * m + r) % m = r
  <2>1. q \in Nat /\ q + 1 <= n /\ q * m \in Nat
    OBVIOUS
  <2>2. (q + 1) * m <= n * m /\ (q + 1) * m = q * m + m
    BY <2>1
  <2>3. q * m + r \in 0..(n * m - 1)
    BY <1>1, <2>1, <2>2
  <2> DEFINE k == q * m + r
             d == k \div m
             e == k % m
  <2>4. k \in Nat /\ d \in Int /\ e \in 0..(m - 1) /\ k = d * m + e
    BY <2>1
  <2>5. (d - q) * m = r - e
    <3>1. (d - q) * m = d * m - q * m
      BY <2>1, <2>4
    <3>2. d * m \in Int /\ k = q * m + r
      BY <2>4
    <3> HIDE DEF d, e, k
    <3>3. QED
      BY <2>1, <2>4, <3>1, <3>2
  <2> HIDE DEF d, e
  <2>6. d - q >= 1 => (d - q) * m >= m
    BY <2>1, <2>4
  <2>7. d - q <= -1 => (d - q) * m <= -m
    BY <2>1, <2>4
  <2>8. d = q
    BY <2>1, <2>4, <2>5, <2>6, <2>7
  <2>9. e = r
    BY <2>4, <2>5, <2>8
  <2>10. QED
    BY <2>3, <2>8, <2>9 DEF d, e
<1>4. QED
  BY <1>2, <1>3

LEMMA Geometry ==
  /\ kLine \in Nat \ {0} /\ kLine >= 4 /\ kLine % 2 = 0
  /\ kLinesPerPage \in Nat \ {0} /\ kPages \in Nat \ {0} /\ Lines \in Nat \ {0}
  /\ kReps \in Nat \ {0}
  /\ Walk!kPageSize = kLine * kLinesPerPage /\ Walk!kPageSize \in Nat \ {0}
  /\ Walk!LineIds = 0..(kLinesPerPage - 1)
  /\ Walk!LastLine = kLinesPerPage - 1
<1>1. /\ kLine \in Nat \ {0} /\ kLine >= 4 /\ kLine % 2 = 0
      /\ kLinesPerPage \in Nat \ {0} /\ kPages \in Nat \ {0} /\ Lines \in Nat \ {0}
      /\ kReps \in Nat \ {0}
  BY MeasurementsAssumption
<1>2. kLine * kLinesPerPage \in Nat \ {0}
  BY <1>1
<1>3. QED
  BY <1>1, <1>2 DEF Walk!kPageSize, Walk!LineIds, Walk!LastLine

WordsOf(n) == {w \in 0..(n - 1) : w % 2 = 0}

\* A line begins with a word, and what follows that word is in no other line.
LEMMA LineWord ==
  ASSUME NEW n \in Nat \ {0}
  PROVE  /\ \A q \in 0..(n - 1) :
              q * kLine \in WordsOf(n * kLine) /\ q * kLine + 2 \in WordsOf(n * kLine)
         /\ \A q, r \in 0..(n - 1) :
              (q * kLine = r * kLine => q = r) /\ q * kLine + 2 # r * kLine
<1>0. PICK h \in Nat : kLine = 2 * h /\ h >= 2
  <2>1. kLine \div 2 \in Nat /\ kLine = 2 * (kLine \div 2) /\ kLine \div 2 >= 2
    BY Geometry
  <2>2. QED
    BY <2>1
<1>1. n * kLine \in Nat /\ kLine \in Nat
  BY Geometry
<1>2. ASSUME NEW q \in 0..(n - 1)
      PROVE  q * kLine \in WordsOf(n * kLine) /\ q * kLine + 2 \in WordsOf(n * kLine)
  <2>1. q \in Nat /\ q * kLine \in Nat /\ q * kLine = 2 * (q * h)
        /\ q * h \in Nat
    BY <1>0
  <2>2. q * kLine + kLine <= n * kLine
    <3>1. (q + 1) * kLine <= n * kLine /\ (q + 1) * kLine = q * kLine + kLine
      BY <1>0, <2>1
    <3>2. QED
      BY <3>1
  <2>3. (q * kLine) % 2 = 0 /\ (q * kLine + 2) % 2 = 0
    <3> DEFINE x == q * kLine
               y == q * h
    <3>1. x = 2 * y /\ y \in Nat
      BY <2>1
    <3> HIDE DEF x, y
    <3>2. x % 2 = 0 /\ (x + 2) % 2 = 0
      BY <3>1
    <3>3. QED
      BY <3>2 DEF x
  <2>4. q * kLine + 2 \in 0..(n * kLine - 1) /\ q * kLine \in 0..(n * kLine - 1)
    BY <1>1, <2>1, <2>2, Geometry
  <2>5. QED
    BY <2>3, <2>4 DEF WordsOf
<1>3. ASSUME NEW q \in 0..(n - 1), NEW r \in 0..(n - 1)
      PROVE  (q * kLine = r * kLine => q = r) /\ q * kLine + 2 # r * kLine
  <2>1. q \in Int /\ r \in Int /\ q * kLine \in Int /\ r * kLine \in Int
        /\ (r - q) * kLine = r * kLine - q * kLine
    BY <1>1
  <2>2. r - q >= 1 => (r - q) * kLine >= kLine
    BY <1>1, <2>1
  <2>3. r - q <= -1 => (r - q) * kLine <= -kLine
    BY <1>1, <2>1
  <2>4. r - q = 0 => (r - q) * kLine = 0
    BY <1>1, <2>1
  <2>5. QED
    BY <2>1, <2>2, <2>3, <2>4, Geometry
<1>4. QED
  BY <1>2, <1>3

\* Where a line of a page is.
LineAt(q, l) == q * Walk!kPageSize + l * kLine

LEMMA LineAtIs ==
  ASSUME NEW q \in 0..(kPages - 1), NEW l \in Walk!LineIds
  PROVE  /\ LineAt(q, l) = (q * kLinesPerPage + l) * kLine
         /\ q * kLinesPerPage + l \in 0..(kPages * kLinesPerPage - 1)
         /\ LineAt(q, 0) = q * Walk!kPageSize
         /\ l # Walk!LastLine => LineAt(q, l + 1) = LineAt(q, l) + kLine
<1>1. q \in Nat /\ l \in Nat /\ l <= kLinesPerPage - 1
  BY Geometry
<1>2. LineAt(q, l) = (q * kLinesPerPage + l) * kLine
  <2>1. (q * kLinesPerPage + l) * kLine = q * kLinesPerPage * kLine + l * kLine
    BY <1>1, Geometry
  <2>2. q * (kLine * kLinesPerPage) = q * kLinesPerPage * kLine
    BY <1>1, Geometry
  <2>3. QED
    BY <2>1, <2>2, Geometry DEF LineAt
<1>3. q * kLinesPerPage + l \in 0..(kPages * kLinesPerPage - 1)
  BY Numbering, Geometry
<1>4. q * Walk!kPageSize \in Nat /\ 0 * kLine = 0
      /\ l * kLine \in Nat /\ (l + 1) * kLine = l * kLine + kLine
  BY <1>1, Geometry
<1>5. LineAt(q, 0) = q * Walk!kPageSize
  BY <1>4 DEF LineAt
<1>6. LineAt(q, l + 1) = LineAt(q, l) + kLine
  BY <1>4, Geometry DEF LineAt
<1>7. QED
  BY <1>2, <1>3, <1>5, <1>6

RegionLines == kPages * kLinesPerPage

LEMMA LineAtWord ==
  ASSUME NEW q \in 0..(kPages - 1), NEW l \in Walk!LineIds
  PROVE  /\ LineAt(q, l) \in WordsOf(kPages * Walk!kPageSize)
         /\ LineAt(q, l) + 2 \in WordsOf(kPages * Walk!kPageSize)
         /\ LineAt(q, l) \in Nat
         /\ LineAt(q, l) % Walk!kPageSize = l * kLine
         /\ (l * kLine) \div kLine = l
<1> DEFINE n == RegionLines
           k == q * kLinesPerPage + l
<1>1. n \in Nat \ {0} /\ n * kLine = kPages * Walk!kPageSize
  <2>1. kPages * (kLine * kLinesPerPage) = kPages * kLinesPerPage * kLine
    BY Geometry
  <2>2. QED
    BY <2>1, Geometry DEF RegionLines
<1>2. k \in 0..(n - 1) /\ LineAt(q, l) = k * kLine
  BY LineAtIs DEF RegionLines
<1> HIDE DEF n, k
<1>3. k * kLine \in WordsOf(n * kLine) /\ k * kLine + 2 \in WordsOf(n * kLine)
  BY <1>1, <1>2, LineWord
<1>4. LineAt(q, l) \in Nat
  BY <1>2, Geometry
<1>5. l * kLine \in 0..(Walk!kPageSize - 1) /\ (l * kLine) \div kLine = l
  <2>1. /\ l * kLine + 0 \in 0..(kLinesPerPage * kLine - 1)
        /\ (l * kLine + 0) \div kLine = l
    BY Numbering, Geometry
  <2>2. l * kLine \in Nat /\ kLinesPerPage * kLine = kLine * kLinesPerPage
    BY Geometry
  <2>3. QED
    BY <2>1, <2>2, Geometry
<1>6. LineAt(q, l) % Walk!kPageSize = l * kLine
  <2> DEFINE s == l * kLine
             t == Walk!kPageSize
  <2>1. s \in 0..(t - 1) /\ t \in Nat \ {0} /\ LineAt(q, l) = q * t + s
    BY <1>5, Geometry DEF LineAt
  <2> HIDE DEF s, t
  <2>2. (q * t + s) % t = s
    <3>1. kPages \in Nat \ {0}
      BY Geometry
    <3>2. QED
      BY <2>1, <3>1, Numbering
  <2>3. QED
    BY <2>1, <2>2 DEF s, t
<1>7. QED
  BY <1>1, <1>2, <1>3, <1>4, <1>5, <1>6

LEMMA LineAtApart ==
  ASSUME NEW q \in 0..(kPages - 1), NEW l \in Walk!LineIds,
         NEW r \in 0..(kPages - 1), NEW m \in Walk!LineIds
  PROVE  /\ LineAt(q, l) = LineAt(r, m) => q = r /\ l = m
         /\ LineAt(q, l) + 2 # LineAt(r, m)
<1> DEFINE j == q * kLinesPerPage + l
           k == r * kLinesPerPage + m
<1>1. /\ j \in 0..(RegionLines - 1) /\ LineAt(q, l) = j * kLine
      /\ k \in 0..(RegionLines - 1) /\ LineAt(r, m) = k * kLine
  BY LineAtIs DEF RegionLines
<1>2. RegionLines \in Nat \ {0}
  BY Geometry DEF RegionLines
<1>3. j = k => q = r /\ l = m
  <2>1. /\ j \div kLinesPerPage = q /\ j % kLinesPerPage = l
        /\ k \div kLinesPerPage = r /\ k % kLinesPerPage = m
    <3>1. /\ kPages \in Nat \ {0} /\ kLinesPerPage \in Nat \ {0}
          /\ l \in 0..(kLinesPerPage - 1) /\ m \in 0..(kLinesPerPage - 1)
      BY Geometry
    <3>2. QED
      BY <3>1, Numbering
  <2> HIDE DEF j, k
  <2>2. QED
    BY <2>1
<1> HIDE DEF j, k
<1>4. (j * kLine = k * kLine => j = k) /\ j * kLine + 2 # k * kLine
  BY <1>1, <1>2, LineWord
<1>5. QED
  BY <1>1, <1>3, <1>4

-----------------------------------------------------------------------------
(* A ring.  c is the chain as it was laid, n its length.                     *)

Onward(n, k) == IF k + 1 = n THEN 0 ELSE k + 1

IsRing(c, n) ==
  /\ c \in [0..(n - 1) -> Walk!Cells]
  /\ \A k, l \in 0..(n - 1) : c[k] = c[l] => k = l
  /\ \A x \in Walk!Cells : \E k \in 0..(n - 1) : c[k] = x
  /\ \A k \in 0..(n - 1) : Walk!Follow(c[k]) = c[Onward(n, k)]

LEMMA RingCounted ==
  ASSUME NEW n \in Nat \ {0}, NEW c, IsRing(c, n)
  PROVE  Walk!Cardinality(Walk!Cells) = n
<1> DEFINE S == Walk!Cells
           f == [k \in 1..n |-> c[k - 1]]
<1>1. /\ c \in [0..(n - 1) -> S]
      /\ \A k, l \in 0..(n - 1) : c[k] = c[l] => k = l
      /\ \A x \in S : \E k \in 0..(n - 1) : c[k] = x
  BY DEF IsRing
<1> HIDE DEF S
<1>2. \A k \in 1..n : k - 1 \in 0..(n - 1) /\ f[k] = c[k - 1]
  OBVIOUS
<1>3. \A k \in 0..(n - 1) : k + 1 \in 1..n /\ f[k + 1] = c[k]
  OBVIOUS
<1>4. f \in [1..n -> S]
  BY <1>1, <1>2
<1>5. \A k, l \in 1..n : f[k] = f[l] => k = l
  BY <1>1, <1>2
<1>6. \A x \in S : \E k \in 1..n : f[k] = x
  BY <1>1, <1>3
<1>7. f \in Bijection(1..n, S)
  <2> HIDE DEF f
  <2>1. QED
    BY <1>4, <1>5, <1>6 DEF Bijection, Injection, Surjection, IsInjective
<1>8. Cardinality(S) = n
  <2> HIDE DEF f
  <2>1. ExistsBijection(1..n, S)
    BY <1>7 DEF ExistsBijection
  <2>2. QED
    BY <2>1, FS_CountingElements
<1>9. QED
  BY <1>8 DEF S, Walk!Cardinality, Cardinality

\* Whoever follows a ring from anywhere sees all of it and comes back.
LEMMA RingWalked ==
  ASSUME NEW n \in Nat \ {0}, NEW c, IsRing(c, n), NEW s \in 0..(n - 1), idx = c[s]
  PROVE  /\ idx \in Walk!Cells
         /\ Walk!Range(Walk!Orbit) = Walk!Cells
         /\ Walk!Orbit[Walk!Cardinality(Walk!Cells)] = idx
<1>0. Walk!Cardinality(Walk!Cells) = n
  BY RingCounted
<1>1. /\ \A k \in 0..(n - 1) : c[k] \in Walk!Cells /\ Walk!Follow(c[k]) = c[Onward(n, k)]
      /\ \A x \in Walk!Cells : \E k \in 0..(n - 1) : c[k] = x
  BY DEF IsRing
<1> DEFINE to(k) == IF s + k >= n THEN s + k - n ELSE s + k
           w == [k \in 0..n |-> c[to(k)]]
           o == Walk!Orbit
           R == OpToRel(<, Nat)
<1>2. /\ to(0) = s /\ to(n) = s
      /\ \A k \in 0..n : to(k) \in 0..(n - 1)
      /\ \A k \in 1..n : to(k) = Onward(n, to(k - 1))
      /\ \A l \in 0..(n - 1) : \E k \in 0..n : to(k) = l
  <2>1. \A k \in 1..n : to(k) = Onward(n, to(k - 1))
    BY DEF Onward
  <2>2. ASSUME NEW l \in 0..(n - 1)
        PROVE  \E k \in 0..n : to(k) = l
    <3>1. CASE l >= s
      <4>1. l - s \in 0..n /\ to(l - s) = l
        BY <3>1
      <4>2. QED
        BY <4>1
    <3>2. CASE l < s
      <4>1. l - s + n \in 0..n /\ to(l - s + n) = l
        BY <3>2
      <4>2. QED
        BY <4>1
    <3>3. QED
      BY <3>1, <3>2
  <2>3. QED
    BY <2>1, <2>2
<1> HIDE DEF to
<1>3. w = [k \in 0..n |-> IF k = 0 THEN idx ELSE Walk!Follow(w[k - 1])]
  <2>1. ASSUME NEW k \in 0..n
        PROVE  w[k] = IF k = 0 THEN idx ELSE Walk!Follow(w[k - 1])
    <3>1. CASE k = 0
      BY <1>2, <3>1
    <3>2. CASE k # 0
      <4>1. k - 1 \in 0..n /\ k \in 1..n /\ to(k - 1) \in 0..(n - 1)
        BY <1>2, <3>2
      <4>2. w[k] = c[Onward(n, to(k - 1))] /\ w[k - 1] = c[to(k - 1)]
        BY <1>2, <4>1
      <4> HIDE DEF w
      <4>3. QED
        BY <1>1, <3>2, <4>1, <4>2
    <3>3. QED
      BY <3>1, <3>2
  <2>2. w = [k \in 0..n |-> w[k]]
    OBVIOUS
  <2> HIDE DEF w
  <2>3. QED
    BY <2>1, <2>2
<1>4. o = [k \in 0..n |-> IF k = 0 THEN idx ELSE Walk!Follow(o[k - 1])]
  <2>1. o = CHOOSE f : f = [k \in 0..n |-> IF k = 0 THEN idx ELSE Walk!Follow(f[k - 1])]
    BY <1>0 DEF Walk!Orbit
  <2> HIDE DEF w, o
  <2>2. QED
    BY <1>3, <2>1
<1> HIDE DEF o
<1>5. /\ DOMAIN o = 0..n /\ DOMAIN w = 0..n
      /\ o[0] = idx /\ w[0] = idx
      /\ \A k \in 1..n : o[k] = Walk!Follow(o[k - 1]) /\ w[k] = Walk!Follow(w[k - 1])
  <2> HIDE DEF w
  <2>1. DOMAIN o = 0..n /\ DOMAIN w = 0..n
    BY <1>3, <1>4
  <2>2. \A k \in 0..n : o[k] = IF k = 0 THEN idx ELSE Walk!Follow(o[k - 1])
    BY <1>4
  <2>3. \A k \in 0..n : w[k] = IF k = 0 THEN idx ELSE Walk!Follow(w[k - 1])
    BY <1>3
  <2>4. QED
    BY <2>1, <2>2, <2>3
<1> DEFINE T == {k \in 0..n : o[k] # w[k]}
<1>6. T = {}
  <2> HIDE DEF w
  <2> SUFFICES ASSUME T # {} PROVE FALSE
    OBVIOUS
  <2>0. T \subseteq Nat
    OBVIOUS
  <2>1. IsWellFoundedOn(R, Nat)
    BY NatLessThanWellFounded
  <2>2. \A x, y \in Nat : <<x, y>> \in R <=> x < y
    BY DEF OpToRel
  <2> HIDE DEF R
  <2>3. PICK k \in T : \A y \in T : ~ (<<y, k>> \in R)
    <3> HIDE DEF T
    <3>1. QED
      BY <2>0, <2>1, WFMin
  <2>4. k \in 0..n /\ o[k] # w[k]
    OBVIOUS
  <2>5. k - 1 \in 0..n /\ o[k - 1] # w[k - 1]
    BY <1>5, <2>4
  <2>6. k - 1 \in T /\ k \in Nat /\ k - 1 \in Nat /\ k - 1 < k
    BY <2>4, <2>5
  <2> HIDE DEF T
  <2>7. QED
    BY <2>2, <2>3, <2>6
<1>7. \A k \in 0..n : o[k] = c[to(k)]
  BY <1>6
<1>8. {o[k] : k \in 0..n} = Walk!Cells
  <2>1. {o[k] : k \in 0..n} \subseteq Walk!Cells
    BY <1>1, <1>2, <1>7
  <2>2. ASSUME NEW x \in Walk!Cells
        PROVE  x \in {o[k] : k \in 0..n}
    <3>1. PICK l \in 0..(n - 1) : c[l] = x
      BY <1>1
    <3>2. PICK k \in 0..n : to(k) = l
      BY <1>2
    <3>3. QED
      BY <1>7, <3>1, <3>2
  <2>3. QED
    BY <2>1, <2>2
<1>9. Walk!Range(Walk!Orbit) = Walk!Cells
  BY <1>5, <1>8 DEF Walk!Range, o
<1>10. n \in 0..n /\ o[n] = idx
  BY <1>2, <1>7
<1>11. QED
  BY <1>0, <1>1, <1>9, <1>10 DEF o

-----------------------------------------------------------------------------
(* What is laid in memory, where the walk is, and what has been counted.     *)

Laid == cpc \notin {"map", "returned"}
Chained == walk # "split" /\ cpc \in {"warm", "open", "start", "timed", "stop"}
Buckets == walk \in {"comb", "ring"}

WalkTypeOK ==
  /\ walk \in Walk!Walks
  /\ software_prefetch \in BOOLEAN /\ (software_prefetch => walk = "ring")
  /\ cpc \in {"map", "link", "patch", "warm", "open", "start", "timed", "stop", "unmap",
              "returned"}
  /\ cpc = "link" => walk # "split" /\ at \in 0..(Walk!Links - 1)
  /\ cpc = "patch" => walk = "ring" /\ at \in 0..(Walk!Links - 1)
  /\ cpc = "warm" => walk # "split"
  /\ cpc \in {"open", "start", "stop"} => walk # "one_page"
  /\ step \in Nat /\ (walk = "split" \/ cpc \notin {"warm", "timed"} => step = 0)
  /\ cpc \in {"warm", "timed"} => step < Walk!PassLength
  /\ at \in Nat /\ rep \in Nat
  /\ position \in Walk!LineIds /\ count \in [Walk!LineIds -> Nat]
  /\ dtlb \in [open : BOOLEAN, enabled : BOOLEAN, value : Nat] /\ misses_total \in Nat

LaidInv ==
  /\ cpc = "map" => at = 0
  /\ cpc \in {"map", "link", "patch", "warm", "open"} => rep = 0 /\ hint = -1
  /\ Laid =>
       /\ bytes = Walk!RegionBytes /\ DOMAIN mem = WordsOf(Walk!RegionBytes)
       /\ order \in Walk!Orders(Walk!Links)
       /\ walk \in {"one_page", "split"} => order = Walk!Identity(Walk!Links)
       /\ entry = [j \in 0..(Walk!Links - 1) |-> entry[j]]

\* A page of ring, its lines in the order q.
RingPage(q, j, patched) ==
  /\ entry[j] = LineAt(order[j], q[0])
  /\ patched => mem[entry[j] + 2] = entry[Walk!After(j)]
  /\ \A l \in Walk!LineIds :
       mem[LineAt(order[j], q[l])] =
         IF l # Walk!LastLine THEN LineAt(order[j], q[l + 1])
         ELSE IF patched THEN entry[Walk!After(j)] ELSE LineAt(order[j], q[l])

\* The first n are linked, and of those of ring the first m are patched.  g is
\* the order of the lines in each page of ring.
LinkedUpTo(g, n, m) ==
  /\ walk \in {"lines", "one_page"} =>
       \A j \in 0..(n - 1) :
         mem[order[j] * kLine] =
           IF walk = "lines" THEN order[Walk!After(j)] ELSE order[Walk!After(j)] * kLine
  /\ walk = "pages" =>
       \A j \in 0..(n - 1) : mem[Walk!Page(j)] = Walk!Page(Walk!After(j))
  /\ walk = "comb" =>
       \A j \in 0..(n - 1), l \in Walk!LineIds :
         mem[LineAt(order[j], l)] =
           IF l = Walk!LastLine THEN Walk!Page(Walk!After(j)) ELSE LineAt(order[j], l + 1)
  /\ walk = "ring" => \A j \in 0..(n - 1) : RingPage(g[j], j, j < m)

LinksDone == IF cpc = "link" THEN at ELSE Walk!Links
PatchesDone == IF cpc = "link" THEN 0 ELSE IF cpc = "patch" THEN at ELSE kPages
LineOrders == [0..(kPages - 1) -> Walk!Orders(kLinesPerPage)]

\* The chain, as it was laid.
Around ==
  CASE walk = "lines" -> Lines
    [] walk = "one_page" -> kLinesPerPage
    [] walk = "pages" -> kPages
    [] OTHER -> kPages * kLinesPerPage

Cell(g, k) ==
  CASE walk = "lines" -> order[k]
    [] walk = "one_page" -> k * kLine
    [] walk = "pages" -> Walk!Page(k)
    [] walk = "comb" -> LineAt(order[k \div kLinesPerPage], k % kLinesPerPage)
    [] OTHER -> LineAt(order[k \div kLinesPerPage],
                       g[k \div kLinesPerPage][k % kLinesPerPage])

Chain(g) == [k \in 0..(Around - 1) |-> Cell(g, k)]

\* Where ring enters the next page.
Entrance(k) == Onward(kPages, k \div kLinesPerPage) * kLinesPerPage

IsAt(g, k) ==
  /\ idx = Chain(g)[k]
  /\ Buckets => k = step
  /\ walk = "ring" /\ hint # -1 =>
       hint = Chain(g)[IF k % kLinesPerPage = 0 THEN k ELSE Entrance(k)]

OnChainInv ==
  Laid => \E g \in LineOrders :
            /\ LinkedUpTo(g, LinksDone, PatchesDone)
            /\ Chained => \E k \in 0..(Around - 1) : IsAt(g, k)

StrideInv ==
  /\ ~software_prefetch => hint = -1
  /\ walk = "split" /\ Laid => idx \in Walk!Offsets
  /\ cpc = "timed" /\ walk = "ring" => position = step % kLinesPerPage
  /\ cpc = "timed" /\ Buckets =>
       \A l \in Walk!LineIds :
         count[l] = (step \div kLinesPerPage) +
                    (IF l < step % kLinesPerPage THEN 1 ELSE 0)
  /\ cpc = "stop" /\ Buckets => \A l \in Walk!LineIds : count[l] = kPages

\* What is counted, and what has been taken from the counter.
Missed(n) == \E k \in 0..n : misses_total = k * Walk!Loads

CounterInv ==
  /\ ~dtlb.open =>
       ~dtlb.enabled /\ dtlb.value = 0 /\ (cpc = "returned" \/ misses_total = 0)
  /\ cpc \in {"start", "open", "unmap", "returned"} => ~dtlb.enabled
  /\ cpc = "timed" /\ dtlb.open => dtlb.enabled /\ dtlb.value = Walk!LoadsSoFar
  /\ cpc = "stop" =>
       /\ dtlb.open => dtlb.value = Walk!Loads
       /\ rep # 0 /\ Missed(rep - 1)
  /\ cpc \in {"start", "unmap", "timed"} => Missed(rep)
  /\ cpc \in {"map", "link", "patch", "warm", "open"} =>
       dtlb = Walk!Closed /\ misses_total = 0
  /\ walk = "one_page" \/ cpc = "returned" => dtlb = Walk!Closed
  /\ walk = "split" =>
       /\ cpc \in {"map", "open", "start"} => at = 0 /\ rep = 0
       /\ cpc = "timed" => at < kPages /\ rep < kReps
       /\ cpc = "stop" => rep = kReps

WalkIInv == WalkTypeOK /\ LaidInv /\ OnChainInv /\ StrideInv /\ CounterInv

LEMMA WalkInit ==
  ASSUME Walk!Init
  PROVE  WalkIInv
<1>0. Walk!Init /\ walk \in Walk!Walks /\ cpc = "map"
  BY DEF Walk!Init
<1>1. WalkTypeOK
  <2>1. 0 \in Walk!LineIds /\ Walk!NoCount \in [Walk!LineIds -> Nat]
    BY Geometry DEF Walk!NoCount
  <2>2. software_prefetch \in BOOLEAN /\ (software_prefetch => walk = "ring")
    BY <1>0 DEF Walk!Init
  <2>3. QED
    BY <1>0, <2>1, <2>2 DEF Walk!Init, Walk!Closed, WalkTypeOK
<1>2. LaidInv /\ OnChainInv /\ StrideInv
  BY <1>0 DEF Walk!Init, LaidInv, OnChainInv, StrideInv, Laid
<1>3. CounterInv
  BY <1>0 DEF Walk!Init, CounterInv, Walk!Closed
<1>4. QED
  BY <1>1, <1>2, <1>3 DEF WalkIInv

LEMMA WalkSizes ==
  ASSUME WalkTypeOK
  PROVE  /\ Walk!Links \in Nat \ {0} /\ Around \in Nat \ {0}
         /\ Walk!PassLength \in Nat \ {0} /\ Walk!Loads \in Nat \ {0}
         /\ walk = "split" => Walk!Loads = kReps * kPages
         /\ walk # "split" => Walk!Loads = Walk!PassLength
         /\ Buckets => Walk!PassLength = Around
         /\ walk \in {"comb", "ring", "pages", "split"} => Walk!Links = kPages
         /\ walk = "lines" => Walk!Links = Lines
         /\ walk = "one_page" => Walk!Links = kLinesPerPage
<1>1. kPages * kLinesPerPage \in Nat \ {0} /\ kReps * kPages \in Nat \ {0}
  BY Geometry
<1>2. walk \in Walk!Walks
  BY DEF WalkTypeOK
<1>3. CASE walk = "lines"
  BY <1>1, <1>3, Geometry DEF Walk!Links, Around, Walk!PassLength, Walk!Loads, Buckets
<1>4. CASE walk = "one_page"
  BY <1>1, <1>4, Geometry DEF Walk!Links, Around, Walk!PassLength, Walk!Loads, Buckets
<1>5. CASE walk = "pages"
  BY <1>1, <1>5, Geometry DEF Walk!Links, Around, Walk!PassLength, Walk!Loads, Buckets
<1>6. CASE walk = "comb"
  BY <1>1, <1>6, Geometry DEF Walk!Links, Around, Walk!PassLength, Walk!Loads, Buckets
<1>7. CASE walk = "ring"
  BY <1>1, <1>7, Geometry DEF Walk!Links, Around, Walk!PassLength, Walk!Loads, Buckets
<1>8. CASE walk = "split"
  BY <1>1, <1>8, Geometry DEF Walk!Links, Around, Walk!PassLength, Walk!Loads, Buckets
<1>9. QED
  BY <1>2, <1>3, <1>4, <1>5, <1>6, <1>7, <1>8 DEF Walk!Walks

LEMMA OfOrder ==
  ASSUME NEW n \in Nat, NEW q \in Walk!Orders(n)
  PROVE  /\ q \in [0..(n - 1) -> 0..(n - 1)]
         /\ \A k, l \in 0..(n - 1) : q[k] = q[l] => k = l
         /\ \A k \in 0..(n - 1) : \E l \in 0..(n - 1) : q[l] = k
BY DEF Walk!Orders, Walk!Bijection, Walk!Injection, Walk!Surjection, Walk!IsInjective

LEMMA SuccessorIs ==
  ASSUME WalkTypeOK, NEW j \in 0..(Walk!Links - 1)
  PROVE  /\ Walk!After(j) = Onward(Walk!Links, j)
         /\ Walk!After(j) \in 0..(Walk!Links - 1)
<1>1. Walk!Links \in Nat \ {0}
  BY WalkSizes
<1> DEFINE n == Walk!Links
<1> HIDE DEF n
<1>2. n \in Nat \ {0} /\ j \in 0..(n - 1)
  BY <1>1 DEF n
<1>3. (j + 1) % n = IF j + 1 = n THEN 0 ELSE j + 1
  <2>1. j + 1 < n => (j + 1) % n = j + 1
    BY <1>2
  <2>2. n % n = 0
    BY <1>2
  <2>3. QED
    BY <1>2, <2>1, <2>2
<1>4. QED
  BY <1>2, <1>3 DEF Walk!After, Onward, n

\* The order is one of pages, and of the whole region's.
LEMMA OfPages ==
  ASSUME WalkTypeOK, LaidInv, Laid, walk \in {"comb", "ring", "pages"}
  PROVE  /\ Walk!Links = kPages
         /\ order \in [0..(kPages - 1) -> 0..(kPages - 1)]
         /\ \A j, k \in 0..(kPages - 1) : order[j] = order[k] => j = k
         /\ \A k \in 0..(kPages - 1) : \E j \in 0..(kPages - 1) : order[j] = k
         /\ Walk!RegionBytes = kPages * Walk!kPageSize
         /\ DOMAIN mem = WordsOf(kPages * Walk!kPageSize)
         /\ \A j : Walk!Page(j) = order[j] * Walk!kPageSize
         /\ \A j \in 0..(kPages - 1) : Walk!Page(j) = LineAt(order[j], 0)
<1>1. Walk!Links = kPages /\ kPages \in Nat
  BY WalkSizes, Geometry
<1>2. order \in Walk!Orders(kPages)
  BY <1>1 DEF LaidInv
<1>3. Walk!RegionBytes = kPages * Walk!kPageSize
  BY DEF Walk!RegionBytes
<1>4. DOMAIN mem = WordsOf(kPages * Walk!kPageSize)
  BY <1>3 DEF LaidInv
<1>5. order \in [0..(kPages - 1) -> 0..(kPages - 1)]
  BY <1>1, <1>2, OfOrder
<1>6. \A j \in 0..(kPages - 1) : Walk!Page(j) = LineAt(order[j], 0)
  BY <1>5, LineAtIs, Geometry DEF Walk!Page
<1>7. QED
  BY <1>1, <1>2, <1>3, <1>4, <1>5, <1>6, OfOrder DEF Walk!Page

LEMMA SameSizes ==
  ASSUME UNCHANGED walk
  PROVE  /\ Walk!Links' = Walk!Links /\ Walk!RegionBytes' = Walk!RegionBytes
         /\ Around' = Around
         /\ (cpc' = "warm" <=> cpc = "warm") =>
              Walk!PassLength' = Walk!PassLength /\ Walk!Loads' = Walk!Loads
BY DEF Walk!Links, Walk!RegionBytes, Walk!SplitBytes, Around, Walk!PassLength, Walk!Loads

LEMMA SizesNext ==
  ASSUME WalkTypeOK, UNCHANGED walk
  PROVE  Walk!PassLength' \in Nat \ {0} /\ Walk!Loads' \in Nat \ {0}
<1>1. kPages * kLinesPerPage \in Nat \ {0} /\ kReps * kPages \in Nat \ {0}
  BY Geometry
<1>2. walk' \in Walk!Walks
  BY DEF WalkTypeOK
<1>3. Walk!PassLength' \in Nat \ {0}
  <2>1. Walk!PassLength' \in {Lines, Lines + 1, kLinesPerPage + 1, kPages,
                             kPages * kLinesPerPage}
    BY DEF Walk!PassLength
  <2>2. {Lines, Lines + 1, kLinesPerPage + 1, kPages} \subseteq Nat \ {0}
    BY Geometry
  <2>3. QED
    BY <1>1, <2>1, <2>2
<1>4. Walk!Loads' \in Nat \ {0}
  BY <1>1, <1>3 DEF Walk!Loads
<1>5. QED
  BY <1>3, <1>4

LEMMA IdentityIsOrder ==
  ASSUME NEW n \in Nat
  PROVE  Walk!Identity(n) \in Walk!Orders(n)
BY DEF Walk!Identity, Walk!Orders, Walk!Bijection, Walk!Injection, Walk!Surjection,
   Walk!IsInjective

LEMMA SomeLineOrders == \E g : g \in LineOrders
<1>1. Walk!Identity(kLinesPerPage) \in Walk!Orders(kLinesPerPage)
  BY IdentityIsOrder, Geometry
<1>2. [q \in 0..(kPages - 1) |-> Walk!Identity(kLinesPerPage)] \in LineOrders
  BY <1>1 DEF LineOrders
<1>3. QED
  BY <1>2

LEMMA WalkMapKeeps ==
  ASSUME WalkIInv, Walk!Map \/ Walk!MapFails
  PROVE  WalkIInv'
<1>0. WalkTypeOK /\ LaidInv /\ CounterInv /\ cpc = "map" /\ step = 0
  BY DEF WalkIInv, WalkTypeOK, Walk!Map, Walk!MapFails
<1>1. /\ UNCHANGED <<walk, software_prefetch, at, step, rep, position, count, hint, dtlb,
                     misses_total>>
      /\ cpc' \in {"open", "link", "returned"}
      /\ cpc' = "returned" \/ (cpc' = "open" <=> walk = "split")
  BY DEF Walk!Map, Walk!MapFails, Walk!program, Walk!passVars, Walk!perfVars
<1>2. /\ Walk!Links' = Walk!Links /\ Walk!RegionBytes' = Walk!RegionBytes
      /\ Walk!Links \in Nat \ {0}
  BY <1>0, <1>1, SameSizes, WalkSizes
<1>3. at = 0 /\ rep = 0 /\ hint = -1 /\ dtlb = Walk!Closed /\ misses_total = 0
  BY <1>0 DEF LaidInv, CounterInv
<1>4. WalkTypeOK'
  BY <1>0, <1>1, <1>2, <1>3 DEF WalkTypeOK
<1>5. LaidInv'
  <2>1. CASE cpc' = "returned"
    BY <2>1, <1>1, <1>3 DEF LaidInv, Laid
  <2>2. CASE cpc' # "returned"
    <3>1. Walk!Map
      BY <2>2 DEF Walk!MapFails
    <3>2. Walk!Identity(Walk!Links) \in Walk!Orders(Walk!Links)
      BY <1>2, IdentityIsOrder
    <3>3. /\ order' \in Walk!Orders(Walk!Links)
          /\ walk \in {"one_page", "split"} => order' = Walk!Identity(Walk!Links)
      BY <3>1, <3>2 DEF Walk!Map, Walk!Shuffles
    <3>4. /\ bytes' = Walk!RegionBytes
          /\ entry' = [j \in 0..(Walk!Links - 1) |-> 0]
      BY <3>1 DEF Walk!Map
    <3>5. DOMAIN mem' = WordsOf(Walk!RegionBytes)
      BY <3>1 DEF Walk!Map, WordsOf, Walk!Word
    <3>6. entry' = [j \in 0..(Walk!Links' - 1) |-> entry'[j]]
      BY <3>4, <1>2
    <3>7. QED
      BY <1>1, <1>2, <1>3, <3>3, <3>4, <3>5, <3>6 DEF LaidInv
  <2>3. QED
    BY <2>1, <2>2
<1>6. OnChainInv'
  <2>1. PICK g : g \in LineOrders
    BY SomeLineOrders
  <2>2. CASE walk = "split"
    BY <2>1, <2>2, <1>1 DEF OnChainInv, Laid, LinkedUpTo, Chained
  <2>3. CASE walk # "split" /\ cpc' # "returned"
    <3>1. LinksDone' = 0 /\ cpc' = "link"
      BY <1>1, <1>3, <2>3 DEF LinksDone
    <3>2. LinkedUpTo(g, LinksDone, PatchesDone)'
      <4>1. ~ \E j : j \in 0..(0 - 1)
        OBVIOUS
      <4>2. QED
        BY <3>1, <4>1 DEF LinkedUpTo
    <3>3. QED
      BY <2>1, <3>1, <3>2 DEF OnChainInv, Chained
  <2>4. CASE cpc' = "returned"
    BY <2>4 DEF OnChainInv, Laid
  <2>5. QED
    BY <2>2, <2>3, <2>4
<1>7. StrideInv'
  <2>1. walk = "split" /\ cpc' # "returned" => idx' \in Walk!Offsets
    BY DEF Walk!Map, Walk!MapFails
  <2>2. QED
    BY <1>1, <1>3, <2>1 DEF StrideInv, Laid, Walk!Offsets
<1>8. CounterInv'
  BY <1>1, <1>3 DEF CounterInv, Walk!Closed
<1>9. QED
  BY <1>4, <1>5, <1>6, <1>7, <1>8 DEF WalkIInv

\* Where the walk begins is on the chain.
LEMMA BeginsOnChain ==
  ASSUME WalkTypeOK, LaidInv, Laid, walk # "split", NEW g \in LineOrders,
         walk = "ring" => entry[0] = LineAt(order[0], g[0][0])
  PROVE  \E k \in 0..(Around - 1) :
           Walk!Begins = Chain(g)[k] /\ (walk # "lines" => k = 0)
<1>1. Around \in Nat \ {0} /\ Walk!Links \in Nat \ {0}
  BY WalkSizes
<1>2. 0 \in 0..(Around - 1) /\ Chain(g)[0] = Cell(g, 0)
  BY <1>1 DEF Chain
<1>3. 0 \div kLinesPerPage = 0 /\ 0 % kLinesPerPage = 0
  BY Geometry
<1>4. CASE walk = "lines"
  <2>1. order \in Walk!Orders(Lines) /\ Around = Lines /\ Lines \in Nat \ {0}
    BY <1>4, WalkSizes, Geometry DEF LaidInv, Around
  <2>2. PICK k \in 0..(Lines - 1) : order[k] = 0
    BY <2>1, OfOrder
  <2>3. Walk!Begins = 0 /\ Chain(g)[k] = order[k]
    BY <1>4, <2>1, <2>2 DEF Walk!Begins, Chain, Cell
  <2>4. QED
    BY <1>4, <2>1, <2>2, <2>3
<1>5. CASE walk = "one_page"
  <2>1. Walk!Begins = 0 /\ Cell(g, 0) = 0 * kLine /\ 0 * kLine = 0
    BY <1>5, Geometry DEF Walk!Begins, Cell
  <2>2. QED
    BY <1>2, <2>1
<1>6. CASE walk = "pages"
  <2>1. Walk!Begins = Walk!Page(0) /\ Cell(g, 0) = Walk!Page(0)
    BY <1>6 DEF Walk!Begins, Cell
  <2>2. QED
    BY <1>2, <2>1
<1>7. CASE walk = "comb"
  <2>1. Walk!Begins = Walk!Page(0) /\ Cell(g, 0) = LineAt(order[0], 0)
    BY <1>3, <1>7 DEF Walk!Begins, Cell
  <2>2. Walk!Page(0) = LineAt(order[0], 0)
    BY <1>7, OfPages, Geometry
  <2>3. QED
    BY <1>2, <2>1, <2>2
<1>8. CASE walk = "ring"
  <2>1. Walk!Begins = entry[0] /\ Cell(g, 0) = LineAt(order[0], g[0][0])
    BY <1>3, <1>8 DEF Walk!Begins, Cell
  <2>2. QED
    BY <1>2, <1>8, <2>1
<1>9. QED
  BY <1>4, <1>5, <1>6, <1>7, <1>8 DEF WalkTypeOK, Walk!Walks

\* What a step that links does beside memory.
LEMMA LinkedKeeps ==
  ASSUME WalkIInv, cpc = "link", Walk!Linked,
         UNCHANGED <<Walk!program, bytes, order, step, rep, Walk!passVars, Walk!perfVars>>,
         DOMAIN mem' = DOMAIN mem,
         entry' = [j \in 0..(Walk!Links - 1) |-> entry'[j]],
         NEW done, done = at + 1, NEW g \in LineOrders, LinkedUpTo(g, done, 0)'
  PROVE  WalkIInv'
<1>0. WalkTypeOK /\ LaidInv /\ StrideInv /\ CounterInv
  BY DEF WalkIInv
<1>1. UNCHANGED <<walk, software_prefetch, bytes, order, step, rep, position, count, hint,
                  dtlb, misses_total>>
  BY DEF Walk!program, Walk!passVars, Walk!perfVars
<1>2. Walk!Links' = Walk!Links /\ Walk!RegionBytes' = Walk!RegionBytes /\ Around' = Around
  BY <1>1, SameSizes
<1>3. Walk!Links \in Nat \ {0} /\ Walk!PassLength' \in Nat \ {0} /\ walk # "split"
      /\ at \in 0..(Walk!Links - 1)
  <2>1. Walk!Links \in Nat \ {0} /\ walk # "split" /\ at \in 0..(Walk!Links - 1)
    BY <1>0, WalkSizes DEF WalkTypeOK
  <2>2. Walk!PassLength' \in Nat \ {0}
    BY <1>0, <1>1, SizesNext
  <2>3. QED
    BY <2>1, <2>2
<1>4. \/ at + 1 < Walk!Links /\ at' = at + 1 /\ cpc' = "link" /\ idx' = idx
      \/ /\ at + 1 = Walk!Links /\ at' = 0
         /\ \/ walk = "ring" /\ cpc' = "patch"
            \/ walk # "ring" /\ cpc' = "warm" /\ idx' = Walk!Begins
  BY <1>3 DEF Walk!Linked
<1>5. step = 0
  BY <1>0 DEF WalkTypeOK
<1>6. WalkTypeOK'
  BY <1>0, <1>1, <1>2, <1>3, <1>4, <1>5 DEF WalkTypeOK
<1>7. LaidInv'
  <2>1. entry' = [j \in 0..(Walk!Links' - 1) |-> entry'[j]]
    BY <1>2
  <2>2. QED
    BY <1>0, <1>1, <1>2, <1>4, <2>1 DEF LaidInv, Laid
<1>8. OnChainInv'
  <2>1. LinksDone' = done
    BY <1>2, <1>4 DEF LinksDone
  <2>2. LinkedUpTo(g, LinksDone, PatchesDone)'
    <3>1. CASE walk # "ring"
      BY <1>1, <2>1, <3>1 DEF LinkedUpTo
    <3>2. CASE walk = "ring"
      <4>1. PatchesDone' = 0
        BY <1>4, <3>2 DEF PatchesDone
      <4>2. QED
        BY <2>1, <4>1
    <3>3. QED
      BY <3>1, <3>2
  <2>3. Chained' => \E k \in 0..(Around' - 1) : IsAt(g, k)'
    <3>1. SUFFICES ASSUME Chained'
                   PROVE  \E k \in 0..(Around' - 1) : IsAt(g, k)'
      OBVIOUS
    <3>2. walk # "ring" /\ idx' = Walk!Begins
      BY <1>4, <3>1 DEF Chained
    <3>3. PICK k \in 0..(Around - 1) :
            Walk!Begins = Chain(g)[k] /\ (walk # "lines" => k = 0)
      BY <1>0, <1>3, <3>2, BeginsOnChain DEF Laid
    <3>4. Chain(g)' = Chain(g)
      BY <1>1, <1>2 DEF Chain, Cell, Walk!Page
    <3>5. IsAt(g, k)'
      BY <1>1, <1>5, <3>2, <3>3, <3>4 DEF IsAt, Buckets
    <3>6. QED
      BY <1>2, <3>3, <3>5
  <2>4. QED
    BY <2>2, <2>3 DEF OnChainInv
<1>9. StrideInv'
  BY <1>0, <1>1, <1>3, <1>4 DEF StrideInv
<1>10. CounterInv'
  BY <1>0, <1>1, <1>3, <1>4 DEF CounterInv
<1>11. QED
  BY <1>6, <1>7, <1>8, <1>9, <1>10 DEF WalkIInv

LEMMA Written ==
  ASSUME NEW f, Walk!Writes(f)
  PROVE  /\ DOMAIN mem' = DOMAIN mem
         /\ \A x \in DOMAIN mem : mem'[x] = IF x \in DOMAIN f THEN f[x] ELSE mem[x]
BY DEF Walk!Writes

LEMMA LinkLineKeeps ==
  ASSUME WalkIInv, Walk!LinkLine
  PROVE  WalkIInv'
<1>0. WalkTypeOK /\ LaidInv /\ cpc = "link" /\ walk \in {"lines", "one_page"} /\ Walk!Linked
      /\ Laid
  BY DEF WalkIInv, Walk!LinkLine, Laid
<1> DEFINE n == Walk!Links
           value(j) == IF walk = "lines" THEN order[Walk!After(j)]
                                         ELSE order[Walk!After(j)] * kLine
<1>1. UNCHANGED <<Walk!program, bytes, order, entry, step, rep, Walk!passVars, Walk!perfVars>>
  BY DEF Walk!LinkLine
<1>2. /\ n \in Nat \ {0} /\ at \in 0..(n - 1)
      /\ order \in [0..(n - 1) -> 0..(n - 1)]
      /\ \A k, l \in 0..(n - 1) : order[k] = order[l] => k = l
  BY <1>0, WalkSizes, OfOrder DEF WalkTypeOK, LaidInv
<1>3. DOMAIN mem = WordsOf(n * kLine)
  <2>1. Walk!RegionBytes = n * kLine
    <3>1. kLine * kLinesPerPage = kLinesPerPage * kLine
      BY Geometry
    <3>2. QED
      BY <1>0, <3>1, Geometry DEF Walk!RegionBytes, Walk!Links
  <2>2. QED
    BY <1>0, <2>1 DEF LaidInv
<1>4. Walk!Writes([x \in {order[at] * kLine} |-> value(at)])
  BY DEF Walk!LinkLine
<1>5. /\ DOMAIN mem' = DOMAIN mem
      /\ \A x \in DOMAIN mem : mem'[x] = IF x = order[at] * kLine THEN value(at) ELSE mem[x]
  <2> HIDE DEF value
  <2>1. QED
    BY <1>4, Written
<1>6. PICK g \in LineOrders : LinkedUpTo(g, at, 0)
  BY <1>0 DEF WalkIInv, OnChainInv, LinksDone, PatchesDone
<1>7. ASSUME NEW j \in 0..at
      PROVE  mem'[order[j] * kLine] = value(j)
  <2>1. j \in 0..(n - 1) /\ order[j] \in 0..(n - 1) /\ order[at] \in 0..(n - 1)
    BY <1>2
  <2>2. order[j] * kLine \in DOMAIN mem
    BY <1>2, <1>3, <2>1, LineWord
  <2>3. order[j] * kLine = order[at] * kLine => j = at
    BY <1>2, <2>1, LineWord
  <2>4. j # at => mem[order[j] * kLine] = value(j)
    <3>1. j # at => j \in 0..(at - 1)
      BY <1>2
    <3>2. QED
      BY <1>0, <1>6, <3>1 DEF LinkedUpTo
  <2> HIDE DEF value
  <2>5. QED
    BY <1>5, <2>2, <2>3, <2>4
<1>8. PICK done : done = at + 1
  OBVIOUS
<1>81. LinkedUpTo(g, done, 0)'
  <2>1. 0..(done - 1) = 0..at
    BY <1>2, <1>8
  <2>2. UNCHANGED <<walk, order>>
    BY <1>1 DEF Walk!program
  <2>3. \A j : Walk!After(j)' = Walk!After(j)
    BY <2>2, SameSizes DEF Walk!After
  <2>4. QED
    BY <1>0, <1>7, <2>1, <2>2, <2>3 DEF LinkedUpTo
<1>9. entry' = [j \in 0..(n - 1) |-> entry'[j]]
  BY <1>0, <1>1 DEF LaidInv
<1>10. QED
  BY <1>0, <1>1, <1>5, <1>8, <1>81, <1>9, LinkedKeeps

LEMMA LinkPageKeeps ==
  ASSUME WalkIInv, Walk!LinkPage
  PROVE  WalkIInv'
<1>0. WalkTypeOK /\ LaidInv /\ cpc = "link" /\ walk = "pages" /\ Walk!Linked /\ Laid
  BY DEF WalkIInv, Walk!LinkPage, Laid
<1>1. UNCHANGED <<Walk!program, bytes, order, entry, step, rep, Walk!passVars, Walk!perfVars>>
  BY DEF Walk!LinkPage
<1>2. /\ Walk!Links = kPages /\ at \in 0..(kPages - 1) /\ kPages \in Nat \ {0}
      /\ order \in [0..(kPages - 1) -> 0..(kPages - 1)]
      /\ \A k, l \in 0..(kPages - 1) : order[k] = order[l] => k = l
      /\ DOMAIN mem = WordsOf(kPages * Walk!kPageSize)
      /\ \A j \in 0..(kPages - 1) : Walk!Page(j) = LineAt(order[j], 0)
  BY <1>0, OfPages, Geometry DEF WalkTypeOK
<1>3. Walk!Writes([x \in {Walk!Page(at)} |-> Walk!Page(Walk!After(at))])
  BY DEF Walk!LinkPage
<1>4. /\ DOMAIN mem' = DOMAIN mem
      /\ \A x \in DOMAIN mem :
           mem'[x] = IF x = Walk!Page(at) THEN Walk!Page(Walk!After(at)) ELSE mem[x]
  BY <1>3, Written
<1>5. PICK g \in LineOrders : LinkedUpTo(g, at, 0)
  BY <1>0 DEF WalkIInv, OnChainInv, LinksDone, PatchesDone
<1>6. ASSUME NEW j \in 0..at
      PROVE  mem'[Walk!Page(j)] = Walk!Page(Walk!After(j))
  <2>1. j \in 0..(kPages - 1) /\ 0 \in Walk!LineIds
        /\ order[j] \in 0..(kPages - 1) /\ order[at] \in 0..(kPages - 1)
    BY <1>2, Geometry
  <2>2. Walk!Page(j) \in DOMAIN mem
    BY <1>2, <2>1, LineAtWord
  <2>3. Walk!Page(j) = Walk!Page(at) => j = at
    <3>1. LineAt(order[j], 0) = LineAt(order[at], 0) => order[j] = order[at]
      BY <2>1, LineAtApart
    <3>2. QED
      BY <1>2, <2>1, <3>1
  <2>4. j # at => mem[Walk!Page(j)] = Walk!Page(Walk!After(j))
    <3>1. j # at => j \in 0..(at - 1)
      BY <1>2
    <3>2. QED
      BY <1>0, <1>5, <3>1 DEF LinkedUpTo
  <2>5. QED
    BY <1>4, <2>2, <2>3, <2>4
<1>7. PICK done : done = at + 1
  OBVIOUS
<1>8. LinkedUpTo(g, done, 0)'
  <2>1. 0..(done - 1) = 0..at
    BY <1>2, <1>7
  <2>2. UNCHANGED <<walk, order>>
    BY <1>1 DEF Walk!program
  <2>3. \A j : Walk!After(j)' = Walk!After(j) /\ Walk!Page(j)' = Walk!Page(j)
    BY <2>2, SameSizes DEF Walk!After, Walk!Page
  <2>4. QED
    BY <1>0, <1>6, <2>1, <2>2, <2>3 DEF LinkedUpTo
<1>9. entry' = [j \in 0..(Walk!Links - 1) |-> entry'[j]]
  BY <1>0, <1>1 DEF LaidInv
<1>10. QED
  BY <1>0, <1>1, <1>4, <1>7, <1>8, <1>9, LinkedKeeps

LEMMA LinkCombKeeps ==
  ASSUME WalkIInv, Walk!LinkComb
  PROVE  WalkIInv'
<1>0. WalkTypeOK /\ LaidInv /\ cpc = "link" /\ walk = "comb" /\ Walk!Linked /\ Laid
  BY DEF WalkIInv, Walk!LinkComb, Laid
<1>1. UNCHANGED <<Walk!program, bytes, order, entry, step, rep, Walk!passVars, Walk!perfVars>>
  BY DEF Walk!LinkComb
<1>2. /\ Walk!Links = kPages /\ at \in 0..(kPages - 1) /\ kPages \in Nat \ {0}
      /\ order \in [0..(kPages - 1) -> 0..(kPages - 1)]
      /\ \A k, l \in 0..(kPages - 1) : order[k] = order[l] => k = l
      /\ DOMAIN mem = WordsOf(kPages * Walk!kPageSize)
      /\ \A j : Walk!Page(j) = order[j] * Walk!kPageSize
  BY <1>0, OfPages, Geometry DEF WalkTypeOK
<1> DEFINE f == [x \in {Walk!Page(at) + l * kLine : l \in Walk!LineIds} |->
                  IF x = Walk!Page(at) + Walk!LastLine * kLine
                  THEN Walk!Page(Walk!After(at)) ELSE x + kLine]
<1>3. Walk!Writes(f)
  BY DEF Walk!LinkComb
<1>4. /\ DOMAIN f = {LineAt(order[at], l) : l \in Walk!LineIds}
      /\ \A x \in DOMAIN f : f[x] = IF x = LineAt(order[at], Walk!LastLine)
                                    THEN Walk!Page(Walk!After(at)) ELSE x + kLine
  <2>1. Walk!Page(at) = order[at] * Walk!kPageSize
    BY <1>2
  <2>2. \A l : Walk!Page(at) + l * kLine = LineAt(order[at], l)
    BY <2>1 DEF LineAt
  <2>3. DOMAIN f = {Walk!Page(at) + l * kLine : l \in Walk!LineIds}
    OBVIOUS
  <2>4. {Walk!Page(at) + l * kLine : l \in Walk!LineIds} =
        {LineAt(order[at], l) : l \in Walk!LineIds}
    BY <2>2
  <2>5. QED
    BY <2>2, <2>3, <2>4
<1> HIDE DEF f
<1>5. /\ DOMAIN mem' = DOMAIN mem
      /\ \A x \in DOMAIN mem : mem'[x] = IF x \in DOMAIN f THEN f[x] ELSE mem[x]
  BY <1>3, Written
<1>6. PICK g \in LineOrders : LinkedUpTo(g, at, 0)
  BY <1>0 DEF WalkIInv, OnChainInv, LinksDone, PatchesDone
<1> DEFINE value(j, l) == IF l = Walk!LastLine THEN Walk!Page(Walk!After(j))
                          ELSE LineAt(order[j], l + 1)
<1>7. ASSUME NEW j \in 0..at, NEW l \in Walk!LineIds
      PROVE  mem'[LineAt(order[j], l)] = value(j, l)
  <2>1. j \in 0..(kPages - 1) /\ Walk!LastLine \in Walk!LineIds
        /\ order[j] \in 0..(kPages - 1) /\ order[at] \in 0..(kPages - 1)
    <3>1. j \in 0..(kPages - 1)
      BY <1>2
    <3>2. Walk!LastLine \in Walk!LineIds
      BY Geometry
    <3>3. QED
      BY <1>2, <3>1, <3>2
  <2>2. LineAt(order[j], l) \in DOMAIN mem
    BY <1>2, <2>1, LineAtWord
  <2>3. CASE j = at
    <3>1. LineAt(order[j], l) \in DOMAIN f
      BY <1>4, <2>3
    <3>2. mem'[LineAt(order[j], l)] = f[LineAt(order[j], l)]
      BY <1>5, <2>2, <3>1
    <3>3. LineAt(order[j], l) = LineAt(order[at], Walk!LastLine) => l = Walk!LastLine
      BY <2>1, LineAtApart
    <3>4. l # Walk!LastLine => LineAt(order[j], l + 1) = LineAt(order[j], l) + kLine
      BY <2>1, LineAtIs
    <3>5. QED
      BY <1>4, <2>3, <3>1, <3>2, <3>3, <3>4
  <2>4. CASE j # at
    <3>1. LineAt(order[j], l) \notin DOMAIN f
      <4>1. order[j] # order[at]
        BY <1>2, <2>1, <2>4
      <4>2. \A m \in Walk!LineIds : LineAt(order[j], l) # LineAt(order[at], m)
        BY <2>1, <4>1, LineAtApart
      <4>3. QED
        BY <1>4, <4>2
    <3>2. j \in 0..(at - 1)
      BY <1>2, <2>4
    <3>3. mem[LineAt(order[j], l)] = value(j, l)
      BY <1>0, <1>6, <3>2 DEF LinkedUpTo
    <3> HIDE DEF value
    <3>4. QED
      BY <1>5, <2>2, <3>1, <3>3
  <2>5. QED
    BY <2>3, <2>4
<1>8. PICK done : done = at + 1
  OBVIOUS
<1>9. LinkedUpTo(g, done, 0)'
  <2>1. 0..(done - 1) = 0..at
    BY <1>2, <1>8
  <2>2. UNCHANGED <<walk, order>>
    BY <1>1 DEF Walk!program
  <2>3. \A j : Walk!After(j)' = Walk!After(j) /\ Walk!Page(j)' = Walk!Page(j)
    BY <2>2, SameSizes DEF Walk!After, Walk!Page
  <2>4. QED
    BY <1>0, <1>7, <2>1, <2>2, <2>3 DEF LinkedUpTo
<1>10. entry' = [j \in 0..(Walk!Links - 1) |-> entry'[j]]
  BY <1>0, <1>1 DEF LaidInv
<1>11. QED
  BY <1>0, <1>1, <1>5, <1>8, <1>9, <1>10, LinkedKeeps

\* What is known of the orders of the lines.
LEMMA OfLines ==
  ASSUME NEW q \in Walk!Orders(kLinesPerPage)
  PROVE  /\ \A l \in Walk!LineIds : q[l] \in Walk!LineIds
         /\ \A l, m \in Walk!LineIds : q[l] = q[m] => l = m
         /\ \A m \in Walk!LineIds : \E l \in Walk!LineIds : q[l] = m
         /\ 0 \in Walk!LineIds /\ Walk!LastLine \in Walk!LineIds
         /\ \A l \in Walk!LineIds : l # Walk!LastLine => l + 1 \in Walk!LineIds
<1>1. Walk!LineIds = 0..(kLinesPerPage - 1) /\ Walk!LastLine = kLinesPerPage - 1
      /\ kLinesPerPage \in Nat \ {0}
  BY Geometry
<1>2. /\ q \in [Walk!LineIds -> Walk!LineIds]
      /\ \A l, m \in Walk!LineIds : q[l] = q[m] => l = m
      /\ \A m \in Walk!LineIds : \E l \in Walk!LineIds : q[l] = m
  BY <1>1, OfOrder
<1>3. /\ 0 \in Walk!LineIds /\ Walk!LastLine \in Walk!LineIds
      /\ \A l \in Walk!LineIds : l # Walk!LastLine => l + 1 \in Walk!LineIds
  BY <1>1
<1>4. QED
  BY <1>2, <1>3

LEMMA LinkRingKeeps ==
  ASSUME WalkIInv, NEW lines \in Walk!Orders(kLinesPerPage), Walk!LinkRing(lines)
  PROVE  WalkIInv'
<1>0. WalkTypeOK /\ LaidInv /\ cpc = "link" /\ walk = "ring" /\ Walk!Linked /\ Laid
  BY DEF WalkIInv, Walk!LinkRing, Laid
<1>1. UNCHANGED <<Walk!program, bytes, order, step, rep, Walk!passVars, Walk!perfVars>>
  BY DEF Walk!LinkRing
<1>2. /\ Walk!Links = kPages /\ at \in 0..(kPages - 1) /\ kPages \in Nat \ {0}
      /\ order \in [0..(kPages - 1) -> 0..(kPages - 1)]
      /\ \A k, l \in 0..(kPages - 1) : order[k] = order[l] => k = l
      /\ DOMAIN mem = WordsOf(kPages * Walk!kPageSize)
      /\ \A j : Walk!Page(j) = order[j] * Walk!kPageSize
  BY <1>0, OfPages, Geometry DEF WalkTypeOK
<1> DEFINE Addr(l) == Walk!Page(at) + lines[l] * kLine
           f == [x \in {Addr(l) : l \in Walk!LineIds} |->
                  LET l == CHOOSE l \in Walk!LineIds : Addr(l) = x
                  IN  IF l = Walk!LastLine THEN x ELSE Addr(l + 1)]
<1>3. Walk!Writes(f) /\ entry' = [entry EXCEPT ![at] = Addr(0)]
  BY DEF Walk!LinkRing
<1>31. \A l : Addr(l) = LineAt(order[at], lines[l])
  BY <1>2 DEF LineAt
<1> HIDE DEF Addr
<1>4. ASSUME NEW l \in Walk!LineIds, NEW m \in Walk!LineIds, Addr(l) = Addr(m)
      PROVE  l = m
  <2>1. lines[l] \in Walk!LineIds /\ lines[m] \in Walk!LineIds
        /\ order[at] \in 0..(kPages - 1)
    BY <1>2, OfLines
  <2>2. lines[l] = lines[m]
    BY <1>31, <1>4, <2>1, LineAtApart
  <2>3. QED
    BY <2>2, OfLines
<1>5. /\ DOMAIN f = {Addr(l) : l \in Walk!LineIds}
      /\ \A l \in Walk!LineIds :
           f[Addr(l)] = IF l = Walk!LastLine THEN Addr(l) ELSE Addr(l + 1)
  <2>1. DOMAIN f = {Addr(l) : l \in Walk!LineIds}
    OBVIOUS
  <2>2. ASSUME NEW l \in Walk!LineIds
        PROVE  f[Addr(l)] = IF l = Walk!LastLine THEN Addr(l) ELSE Addr(l + 1)
    <3> DEFINE c == CHOOSE m \in Walk!LineIds : Addr(m) = Addr(l)
    <3>1. f[Addr(l)] = IF c = Walk!LastLine THEN Addr(l) ELSE Addr(c + 1)
      OBVIOUS
    <3>2. c \in Walk!LineIds /\ Addr(c) = Addr(l)
      OBVIOUS
    <3> HIDE DEF c, f
    <3>3. c = l
      BY <1>4, <3>2
    <3>4. QED
      BY <3>1, <3>3
  <2>3. QED
    BY <2>1, <2>2
<1> HIDE DEF f
<1>6. /\ DOMAIN mem' = DOMAIN mem
      /\ \A x \in DOMAIN mem : mem'[x] = IF x \in DOMAIN f THEN f[x] ELSE mem[x]
  BY <1>3, Written
<1>7. PICK g \in LineOrders : LinkedUpTo(g, at, 0)
  BY <1>0 DEF WalkIInv, OnChainInv, LinksDone, PatchesDone
<1>80. PICK h : h = [g EXCEPT ![at] = lines]
  OBVIOUS
<1>8. /\ h \in LineOrders /\ h[at] = lines
      /\ \A j \in 0..(kPages - 1) : j # at => h[j] = g[j]
      /\ \A j \in 0..(kPages - 1) : h[j] \in Walk!Orders(kLinesPerPage)
  BY <1>2, <1>80 DEF LineOrders
<1>9. entry' = [j \in 0..(kPages - 1) |-> entry'[j]]
      /\ entry'[at] = Addr(0)
      /\ \A j \in 0..(at - 1) : entry'[j] = entry[j]
  <2>1. entry = [j \in 0..(kPages - 1) |-> entry[j]]
    BY <1>0, <1>2 DEF LaidInv
  <2>2. DOMAIN entry = 0..(kPages - 1)
    BY <2>1
  <2>3. /\ DOMAIN entry' = 0..(kPages - 1) /\ entry' = [j \in DOMAIN entry |-> entry'[j]]
        /\ entry'[at] = Addr(0)
    BY <1>2, <1>3, <2>2
  <2>4. ASSUME NEW j \in 0..(at - 1)
        PROVE  entry'[j] = entry[j]
    <3>1. j \in 0..(kPages - 1) /\ j # at
      BY <1>2
    <3>2. QED
      BY <1>3, <2>2, <3>1
  <2>5. QED
    BY <2>2, <2>3, <2>4
<1>10. ASSUME NEW j \in 0..at
       PROVE  RingPage(h[j], j, FALSE)'
  <2>0. UNCHANGED order
    BY <1>1
  <2>1. j \in 0..(kPages - 1)
        /\ order[j] \in 0..(kPages - 1) /\ order[at] \in 0..(kPages - 1)
    BY <1>2
  <2>2. \A l \in Walk!LineIds :
          h[j][l] \in Walk!LineIds /\ LineAt(order[j], h[j][l]) \in DOMAIN mem
    BY <1>2, <1>8, <2>1, OfLines, LineAtWord
  <2>3. CASE j = at
    <3>1. \A l : LineAt(order[j], h[j][l]) = Addr(l)
      BY <1>8, <1>31, <2>3
    <3>2. \A l \in Walk!LineIds :
            mem'[Addr(l)] = IF l # Walk!LastLine THEN Addr(l + 1) ELSE Addr(l)
      BY <1>5, <1>6, <2>2, <3>1
    <3>3. entry'[j] = Addr(0)
      BY <1>9, <2>3
    <3>4. QED
      BY <2>0, <3>1, <3>2, <3>3 DEF RingPage
  <2>4. CASE j # at
    <3>1. h[j] = g[j] /\ j \in 0..(at - 1)
      BY <1>2, <1>8, <2>1, <2>4
    <3>2. ASSUME NEW l \in Walk!LineIds
          PROVE  mem'[LineAt(order[j], h[j][l])] = mem[LineAt(order[j], h[j][l])]
      <4>1. order[j] # order[at]
        BY <1>2, <2>1, <2>4
      <4>2. \A m \in Walk!LineIds : LineAt(order[j], h[j][l]) # Addr(m)
        <5>1. \A m \in Walk!LineIds : lines[m] \in Walk!LineIds
          BY OfLines
        <5>2. QED
          BY <1>31, <2>1, <2>2, <4>1, <5>1, LineAtApart
      <4>3. LineAt(order[j], h[j][l]) \notin DOMAIN f
        BY <1>5, <4>2
      <4>4. QED
        BY <1>6, <2>2, <4>3
    <3>3. RingPage(h[j], j, FALSE)
      <4>1. ~ j < 0
        BY <2>1
      <4>2. RingPage(g[j], j, j < 0)
        BY <1>0, <1>7, <3>1 DEF LinkedUpTo
      <4>3. QED
        BY <3>1, <4>1, <4>2 DEF RingPage
    <3>4. entry'[j] = entry[j]
      BY <1>9, <3>1
    <3>5. QED
      BY <2>0, <3>2, <3>3, <3>4 DEF RingPage
  <2>5. QED
    BY <2>3, <2>4
<1>11. PICK done : done = at + 1
  OBVIOUS
<1>12. LinkedUpTo(h, done, 0)'
  <2>1. 0..(done - 1) = 0..at /\ \A j \in 0..at : ~ j < 0
    BY <1>2, <1>11
  <2>2. UNCHANGED walk
    BY <1>1 DEF Walk!program
  <2>3. \A j \in 0..(done - 1) : RingPage(h[j], j, j < 0)'
    <3> SUFFICES ASSUME NEW j \in 0..(done - 1)
                 PROVE  RingPage(h[j], j, j < 0)'
      OBVIOUS
    <3>1. RingPage(h[j], j, FALSE)' /\ ~ j < 0
      BY <1>10, <2>1
    <3>2. QED
      BY <3>1 DEF RingPage
  <2>4. walk' = "ring"
    BY <1>0, <2>2
  <2>5. QED
    BY <2>3, <2>4 DEF LinkedUpTo
<1>13. entry' = [j \in 0..(Walk!Links - 1) |-> entry'[j]]
  BY <1>2, <1>9
<1>14. h \in LineOrders /\ DOMAIN mem' = DOMAIN mem
  BY <1>6, <1>8
<1>15. QED
  BY <1>0, <1>1, <1>11, <1>12, <1>13, <1>14, LinkedKeeps

\* The line that points at itself is the last of its page.
LEMMA SelfLinkIs ==
  ASSUME WalkTypeOK, LaidInv, Laid, walk = "ring", NEW j \in 0..(kPages - 1),
         NEW q \in Walk!Orders(kLinesPerPage), RingPage(q, j, FALSE)
  PROVE  Walk!SelfLinks(j) = {LineAt(order[j], q[Walk!LastLine])}
<1>1. order[j] \in 0..(kPages - 1) /\ Walk!Page(j) = order[j] * Walk!kPageSize
  BY OfPages
<1>2. Walk!SelfLinks(j) = {x \in {LineAt(order[j], l) : l \in Walk!LineIds} : mem[x] = x}
  BY <1>1 DEF Walk!SelfLinks, LineAt
<1>3. /\ \A l \in Walk!LineIds : q[l] \in Walk!LineIds
      /\ \A l, m \in Walk!LineIds : q[l] = q[m] => l = m
      /\ \A m \in Walk!LineIds : \E l \in Walk!LineIds : q[l] = m
      /\ Walk!LastLine \in Walk!LineIds
      /\ \A l \in Walk!LineIds : l # Walk!LastLine => l + 1 \in Walk!LineIds
  BY OfLines
<1>4. \A l \in Walk!LineIds :
        mem[LineAt(order[j], q[l])] = IF l # Walk!LastLine THEN LineAt(order[j], q[l + 1])
                                      ELSE LineAt(order[j], q[l])
  BY DEF RingPage
<1>5. ASSUME NEW l \in Walk!LineIds, l # Walk!LastLine
      PROVE  LineAt(order[j], q[l + 1]) # LineAt(order[j], q[l])
  <2>1. q[l + 1] \in Walk!LineIds /\ q[l] \in Walk!LineIds /\ q[l + 1] # q[l]
    <3>1. l + 1 \in Walk!LineIds /\ l + 1 # l
      BY <1>3, <1>5, Geometry
    <3>2. QED
      BY <1>3, <3>1
  <2>2. QED
    BY <1>1, <2>1, LineAtApart
<1>6. ASSUME NEW m \in Walk!LineIds, mem[LineAt(order[j], m)] = LineAt(order[j], m)
      PROVE  m = q[Walk!LastLine]
  <2>1. PICK l \in Walk!LineIds : q[l] = m
    BY <1>3
  <2>2. QED
    BY <1>4, <1>5, <1>6, <2>1
<1>7. /\ q[Walk!LastLine] \in Walk!LineIds
      /\ mem[LineAt(order[j], q[Walk!LastLine])] = LineAt(order[j], q[Walk!LastLine])
  BY <1>3, <1>4
<1>8. QED
  BY <1>2, <1>6, <1>7

\* What patching a page writes.
LEMMA PatchWrites ==
  ASSUME WalkTypeOK, LaidInv, cpc = "patch", Walk!Patch,
         NEW q \in Walk!Orders(kLinesPerPage), RingPage(q, at, FALSE)
  PROVE  /\ DOMAIN mem' = DOMAIN mem
         /\ \A x \in DOMAIN mem :
              mem'[x] = IF x = LineAt(order[at], q[Walk!LastLine])
                           \/ x = LineAt(order[at], q[0]) + 2
                        THEN entry[Walk!After(at)] ELSE mem[x]
<1> DEFINE e == LineAt(order[at], q[Walk!LastLine])
           S == Walk!SelfLinks(at)
           first == {x \in S : \A y \in S : x <= y}
           f == [x \in first \cup {entry[at] + Walk!Word} |->
                  IF x \in first THEN Walk!NextEntry(at) ELSE Walk!Hinted(at)]
<1>1. Laid /\ walk = "ring" /\ at \in 0..(kPages - 1)
  BY WalkSizes DEF Laid, WalkTypeOK
<1>2. S = {e}
  BY <1>1, SelfLinkIs
<1>3. e \in Nat
  <2>1. order[at] \in 0..(kPages - 1) /\ q[Walk!LastLine] \in Walk!LineIds
    BY <1>1, OfPages, OfLines
  <2>2. QED
    BY <2>1, LineAtWord
<1> HIDE DEF e, S
<1>4. first = {e}
  BY <1>2, <1>3
<1>5. Walk!Writes(f)
  BY DEF Walk!Patch, S
<1>6. entry[at] + Walk!Word = LineAt(order[at], q[0]) + 2
  BY DEF Walk!Word, RingPage
<1> HIDE DEF first
<1>7. /\ DOMAIN f = {e, LineAt(order[at], q[0]) + 2}
      /\ \A x \in DOMAIN f : f[x] = entry[Walk!After(at)]
  BY <1>4, <1>6 DEF Walk!NextEntry, Walk!Hinted
<1> HIDE DEF f
<1>8. /\ DOMAIN mem' = DOMAIN mem
      /\ \A x \in DOMAIN mem : mem'[x] = IF x \in DOMAIN f THEN f[x] ELSE mem[x]
  BY <1>5, Written
<1>9. QED
  BY <1>7, <1>8 DEF e

LEMMA PatchKeeps ==
  ASSUME WalkIInv, Walk!Patch
  PROVE  WalkIInv'
<1>0. WalkTypeOK /\ LaidInv /\ CounterInv /\ cpc = "patch" /\ walk = "ring" /\ Laid
      /\ Walk!Links = kPages /\ at \in 0..(kPages - 1) /\ step = 0 /\ kPages \in Nat \ {0}
  BY WalkSizes, Geometry DEF WalkIInv, WalkTypeOK, Walk!Patch, Laid
<1>1. UNCHANGED <<walk, software_prefetch, bytes, order, entry, step, rep, position, count,
                  hint, dtlb, misses_total>>
  BY DEF Walk!Patch, Walk!program, Walk!passVars, Walk!perfVars
<1>2. Walk!Links' = Walk!Links /\ Walk!RegionBytes' = Walk!RegionBytes /\ Around' = Around
  BY <1>1, SameSizes
<1>3. \/ at + 1 < kPages /\ at' = at + 1 /\ cpc' = "patch" /\ idx' = idx
      \/ at + 1 = kPages /\ at' = 0 /\ cpc' = "warm" /\ idx' = Walk!Begins
  BY <1>0 DEF Walk!Patch
<1>4. PICK g \in LineOrders : LinkedUpTo(g, kPages, at)
  BY <1>0 DEF WalkIInv, OnChainInv, LinksDone, PatchesDone
<1>5. /\ \A j \in 0..(kPages - 1) : g[j] \in Walk!Orders(kLinesPerPage)
      /\ \A j \in 0..(kPages - 1) : RingPage(g[j], j, j < at)
  BY <1>0, <1>4 DEF LinkedUpTo, LineOrders
<1>6. RingPage(g[at], at, FALSE)
  <2>1. ~ at < at
    BY <1>0
  <2>2. RingPage(g[at], at, at < at)
    BY <1>0, <1>5
  <2>3. QED
    BY <2>1, <2>2 DEF RingPage
<1> DEFINE q == g[at]
           e == LineAt(order[at], q[Walk!LastLine])
           h == LineAt(order[at], q[0]) + 2
<1>7. /\ DOMAIN mem' = DOMAIN mem
      /\ \A x \in DOMAIN mem :
           mem'[x] = IF x = e \/ x = h THEN entry[Walk!After(at)] ELSE mem[x]
  BY <1>0, <1>5, <1>6, PatchWrites
<1>8. /\ order \in [0..(kPages - 1) -> 0..(kPages - 1)]
      /\ \A k, l \in 0..(kPages - 1) : order[k] = order[l] => k = l
      /\ DOMAIN mem = WordsOf(kPages * Walk!kPageSize)
      /\ q \in Walk!Orders(kLinesPerPage)
  BY <1>0, <1>5, OfPages
<1>9. \A j : Walk!After(j)' = Walk!After(j)
  BY <1>2 DEF Walk!After
<1>10. PICK done : done = at + 1
  OBVIOUS
<1>11. ASSUME NEW j \in 0..(kPages - 1)
       PROVE  RingPage(g[j], j, j < done)'
  <2>1. order[j] \in 0..(kPages - 1) /\ order[at] \in 0..(kPages - 1)
        /\ (order[j] = order[at] => j = at)
    BY <1>0, <1>8
  <2>2. \A l \in Walk!LineIds : g[j][l] \in Walk!LineIds
    BY <1>5, OfLines
  <2>3. /\ \A l \in Walk!LineIds : q[l] \in Walk!LineIds
        /\ 0 \in Walk!LineIds /\ Walk!LastLine \in Walk!LineIds
    BY <1>8, OfLines
  <2>4. RingPage(g[j], j, j < at)
    BY <1>5
  <2>5. ASSUME NEW l \in Walk!LineIds
        PROVE  /\ LineAt(order[j], g[j][l]) \in DOMAIN mem
               /\ LineAt(order[j], g[j][l]) + 2 \in DOMAIN mem
               /\ LineAt(order[j], g[j][l]) \in Nat
               /\ LineAt(order[j], g[j][l]) # h
               /\ LineAt(order[j], g[j][l]) + 2 # e
               /\ LineAt(order[j], g[j][l]) = e => j = at /\ l = Walk!LastLine
               /\ LineAt(order[j], g[j][l]) + 2 = h => j = at
    <3>1. /\ LineAt(order[j], g[j][l]) \in DOMAIN mem
          /\ LineAt(order[j], g[j][l]) + 2 \in DOMAIN mem
          /\ LineAt(order[j], g[j][l]) \in Nat
      BY <1>8, <2>1, <2>2, LineAtWord
    <3>2. LineAt(order[at], q[0]) \in Nat
      BY <2>1, <2>3, LineAtWord
    <3>3. LineAt(order[j], g[j][l]) = e => j = at /\ g[j][l] = q[Walk!LastLine]
      BY <2>1, <2>2, <2>3, LineAtApart
    <3>4. LineAt(order[j], g[j][l]) # h /\ LineAt(order[j], g[j][l]) + 2 # e
      BY <2>1, <2>2, <2>3, LineAtApart
    <3>5. LineAt(order[j], g[j][l]) = LineAt(order[at], q[0]) => j = at
      BY <2>1, <2>2, <2>3, LineAtApart
    <3>6. j = at /\ g[j][l] = q[Walk!LastLine] => l = Walk!LastLine
      BY <1>8, <2>3, OfLines
    <3>7. QED
      BY <3>1, <3>2, <3>3, <3>4, <3>5, <3>6
  <2> HIDE DEF e
  <2>6. entry[j] = LineAt(order[j], g[j][0])
    BY <2>4 DEF RingPage
  <2>61. /\ entry[j] + 2 \in DOMAIN mem /\ entry[j] + 2 # e
         /\ (j # at => entry[j] + 2 # h)
         /\ (j = at => entry[j] + 2 = h)
    <3>1. 0 \in Walk!LineIds
      BY <2>3
    <3>2. /\ LineAt(order[j], g[j][0]) + 2 \in DOMAIN mem
          /\ LineAt(order[j], g[j][0]) + 2 # e
          /\ (LineAt(order[j], g[j][0]) + 2 = h => j = at)
      BY <2>5, <3>1
    <3>3. QED
      BY <2>6, <3>2
  <2>7. CASE j = at
    <3>1. j < done /\ ~ j < at
      BY <1>0, <1>10, <2>7
    <3>2. mem'[entry[j] + 2] = entry[Walk!After(j)]
      BY <1>7, <2>61, <2>7
    <3>3. ASSUME NEW l \in Walk!LineIds
          PROVE  mem'[LineAt(order[j], g[j][l])] =
                   IF l # Walk!LastLine THEN LineAt(order[j], g[j][l + 1])
                   ELSE entry[Walk!After(j)]
      <4>1. CASE l = Walk!LastLine
        BY <1>7, <2>5, <2>7, <4>1 DEF e
      <4>2. CASE l # Walk!LastLine
        <5>1. mem[LineAt(order[j], g[j][l])] = LineAt(order[j], g[j][l + 1])
          BY <2>4, <4>2 DEF RingPage
        <5>2. QED
          BY <1>7, <2>5, <4>2, <5>1
      <4>3. QED
        BY <4>1, <4>2
    <3>4. QED
      BY <1>1, <1>9, <2>6, <3>1, <3>2, <3>3 DEF RingPage
  <2>8. CASE j # at
    <3>1. j < done <=> j < at
      BY <1>0, <1>10, <2>8
    <3>2. \A l \in Walk!LineIds :
            mem'[LineAt(order[j], g[j][l])] = mem[LineAt(order[j], g[j][l])]
      BY <1>7, <2>5, <2>8
    <3>3. mem'[entry[j] + 2] = mem[entry[j] + 2]
      BY <1>7, <2>61, <2>8
    <3>4. QED
      BY <1>1, <1>9, <2>4, <3>1, <3>2, <3>3 DEF RingPage
  <2>9. QED
    BY <2>7, <2>8
<1>12. WalkTypeOK'
  <2>1. Walk!PassLength' \in Nat \ {0}
    BY <1>0, <1>1, SizesNext
  <2>2. QED
    BY <1>0, <1>1, <1>2, <1>3, <2>1 DEF WalkTypeOK
<1>13. LaidInv'
  <2>1. entry' = [j \in 0..(Walk!Links' - 1) |-> entry'[j]]
    BY <1>0, <1>1, <1>2 DEF LaidInv
  <2>2. QED
    BY <1>0, <1>1, <1>2, <1>3, <1>7, <2>1 DEF LaidInv, Laid
<1>14. OnChainInv'
  <2>1. LinksDone' = kPages /\ walk' = "ring"
    BY <1>0, <1>1, <1>2, <1>3 DEF LinksDone
  <2>2. PatchesDone' = done
    BY <1>3, <1>10 DEF PatchesDone
  <2>3. LinkedUpTo(g, LinksDone, PatchesDone)'
    BY <1>11, <2>1, <2>2 DEF LinkedUpTo
  <2>4. Chained' => \E k \in 0..(Around' - 1) : IsAt(g, k)'
    <3>1. SUFFICES ASSUME Chained'
                   PROVE  \E k \in 0..(Around' - 1) : IsAt(g, k)'
      OBVIOUS
    <3>2. idx' = Walk!Begins
      BY <1>3, <3>1 DEF Chained
    <3>3. entry[0] = LineAt(order[0], g[0][0])
      BY <1>0, <1>5 DEF RingPage
    <3>4. PICK k \in 0..(Around - 1) :
            Walk!Begins = Chain(g)[k] /\ (walk # "lines" => k = 0)
      BY <1>0, <3>3, BeginsOnChain
    <3>5. Chain(g)' = Chain(g)
      BY <1>1, <1>2 DEF Chain, Cell, Walk!Page
    <3>6. hint = -1
      BY <1>0 DEF LaidInv
    <3>7. IsAt(g, k)'
      BY <1>0, <1>1, <3>2, <3>4, <3>5, <3>6 DEF IsAt, Buckets
    <3>8. QED
      BY <1>2, <3>4, <3>7
  <2>5. QED
    BY <2>3, <2>4 DEF OnChainInv
<1>15. StrideInv'
  BY <1>0, <1>1, <1>3 DEF StrideInv, WalkIInv
<1>16. CounterInv'
  BY <1>0, <1>1, <1>3 DEF CounterInv
<1>17. QED
  BY <1>12, <1>13, <1>14, <1>15, <1>16 DEF WalkIInv

-----------------------------------------------------------------------------
(* The chain that was laid is a ring.                                        *)

LEMMA NextPlace ==
  ASSUME NEW k \in 0..(kPages * kLinesPerPage - 1)
  PROVE  /\ k \div kLinesPerPage \in 0..(kPages - 1) /\ k % kLinesPerPage \in Walk!LineIds
         /\ Onward(kPages, k \div kLinesPerPage) \in 0..(kPages - 1)
         /\ Onward(kPages * kLinesPerPage, k) \in 0..(kPages * kLinesPerPage - 1)
         /\ k % kLinesPerPage # Walk!LastLine =>
              /\ Onward(kPages * kLinesPerPage, k) \div kLinesPerPage = k \div kLinesPerPage
              /\ Onward(kPages * kLinesPerPage, k) % kLinesPerPage = (k % kLinesPerPage) + 1
         /\ k % kLinesPerPage = Walk!LastLine =>
              /\ Onward(kPages * kLinesPerPage, k) = Entrance(k)
         /\ Entrance(k) \in 0..(kPages * kLinesPerPage - 1)
         /\ Entrance(k) \div kLinesPerPage = Onward(kPages, k \div kLinesPerPage)
         /\ Entrance(k) % kLinesPerPage = 0
<1> DEFINE m == kLinesPerPage
           n == kPages
           q == k \div m
           r == k % m
           M == n * m
<1>1. m \in Nat \ {0} /\ n \in Nat \ {0} /\ Walk!LineIds = 0..(m - 1)
      /\ Walk!LastLine = m - 1
  BY Geometry
<1>2. q \in 0..(n - 1) /\ r \in 0..(m - 1) /\ k = q * m + r
  BY <1>1, Numbering
<1>3. M \in Nat \ {0} /\ k \in 0..(M - 1)
  BY <1>1
<1>4. Onward(n, q) \in 0..(n - 1) /\ Onward(M, k) \in 0..(M - 1)
  <2> HIDE DEF q, M
  <2>1. QED
    BY <1>1, <1>2, <1>3 DEF Onward
<1>5. /\ Onward(n, q) * m + 0 \in 0..(M - 1)
      /\ (Onward(n, q) * m + 0) \div m = Onward(n, q)
      /\ (Onward(n, q) * m + 0) % m = 0
  <2> DEFINE s == Onward(n, q)
  <2>1. s \in 0..(n - 1) /\ 0 \in 0..(m - 1)
    BY <1>1, <1>4
  <2> HIDE DEF s, q
  <2>2. m \in Nat \ {0} /\ n \in Nat \ {0}
    BY <1>1
  <2>3. PICK z : z = 0 /\ z \in 0..(m - 1)
    BY <2>1
  <2>4. /\ s * m + z \in 0..(M - 1)
        /\ (s * m + z) \div m = s /\ (s * m + z) % m = z
    BY <2>1, <2>2, <2>3, Numbering
  <2>5. QED
    BY <2>3, <2>4 DEF s
<1>6. Onward(n, q) * m + 0 = Onward(n, q) * m
  <2> HIDE DEF q
  <2>1. QED
    BY <1>1, <1>4
<1>7. ASSUME r # m - 1
      PROVE  Onward(M, k) \div m = q /\ Onward(M, k) % m = r + 1
  <2>1. r + 1 \in 0..(m - 1)
    BY <1>1, <1>2, <1>7
  <2>2. /\ q * m + (r + 1) \in 0..(M - 1)
        /\ (q * m + (r + 1)) \div m = q /\ (q * m + (r + 1)) % m = r + 1
    <3>1. m \in Nat \ {0} /\ n \in Nat \ {0} /\ q \in 0..(n - 1)
      BY <1>1, <1>2
    <3> DEFINE t == r + 1
    <3> HIDE DEF q, t
    <3>2. t \in 0..(m - 1)
      BY <2>1 DEF t
    <3>3. q * m + t \in 0..(M - 1) /\ (q * m + t) \div m = q /\ (q * m + t) % m = t
      BY <3>1, <3>2, Numbering
    <3>4. QED
      BY <3>3 DEF t
  <2>3. q * m + (r + 1) = k + 1
    <3>1. q * m \in Int
      BY <1>1, <1>2
    <3> HIDE DEF q, r
    <3>2. QED
      BY <1>2, <3>1
  <2>4. Onward(M, k) = k + 1
    <3>1. k + 1 # M
      <4> HIDE DEF q, r, M
      <4>1. QED
        BY <1>3, <2>2, <2>3
    <3>2. QED
      BY <3>1 DEF Onward
  <2>5. QED
    BY <2>2, <2>3, <2>4
<1>8. ASSUME r = m - 1
      PROVE  Onward(M, k) = Onward(n, q) * m
  <2>1. k + 1 = (q + 1) * m
    <3>1. q * m \in Int /\ (q + 1) * m = q * m + m
      BY <1>1, <1>2
    <3> HIDE DEF q, r
    <3>2. QED
      BY <1>1, <1>2, <1>8, <3>1
  <2>2. CASE q + 1 = n
    <3>1. Onward(n, q) = 0 /\ k + 1 = M /\ 0 * m = 0
      BY <1>1, <2>1, <2>2 DEF Onward
    <3>2. QED
      BY <3>1 DEF Onward
  <2>3. CASE q + 1 # n
    <3>1. Onward(n, q) = q + 1 /\ Onward(n, q) * m + 0 = k + 1
      BY <1>6, <2>1, <2>3 DEF Onward
    <3>2. k + 1 # M
      <4>1. k + 1 \in 0..(M - 1)
        BY <1>5, <3>1
      <4> HIDE DEF M
      <4>2. QED
        BY <1>3, <4>1
    <3>3. QED
      BY <1>6, <3>1, <3>2 DEF Onward
  <2>4. QED
    BY <2>2, <2>3
<1>9. Entrance(k) = Onward(n, q) * m
  BY DEF Entrance
<1> HIDE DEF q, r, M
<1>10. /\ q \in 0..(n - 1) /\ r \in Walk!LineIds /\ Onward(n, q) \in 0..(n - 1)
       /\ Onward(M, k) \in 0..(M - 1)
       /\ r # Walk!LastLine => Onward(M, k) \div m = q /\ Onward(M, k) % m = r + 1
       /\ r = Walk!LastLine => Onward(M, k) = Entrance(k)
       /\ Entrance(k) \in 0..(M - 1) /\ Entrance(k) \div m = Onward(n, q)
       /\ Entrance(k) % m = 0
  BY <1>1, <1>2, <1>4, <1>5, <1>6, <1>7, <1>8, <1>9
<1>11. QED
  BY <1>10 DEF q, r, M

LEMMA LinesRing ==
  ASSUME WalkTypeOK, LaidInv, Laid, walk = "lines", NEW g, LinkedUpTo(g, Lines, kPages)
  PROVE  IsRing(Chain(g), Lines)
<1>1. Walk!Links = Lines /\ Lines \in Nat \ {0} /\ Around = Lines
  BY WalkSizes, Geometry DEF Around
<1>2. /\ order \in [0..(Lines - 1) -> 0..(Lines - 1)]
      /\ \A k, l \in 0..(Lines - 1) : order[k] = order[l] => k = l
      /\ \A k \in 0..(Lines - 1) : \E l \in 0..(Lines - 1) : order[l] = k
  BY <1>1, OfOrder DEF LaidInv
<1>3. Walk!Cells = 0..(Lines - 1)
  BY DEF Walk!Cells
<1>4. Chain(g) = [k \in 0..(Lines - 1) |-> order[k]]
  BY <1>1 DEF Chain, Cell
<1>5. \A k \in 0..(Lines - 1) : Walk!Follow(order[k]) = order[Onward(Lines, k)]
  BY <1>1, SuccessorIs DEF LinkedUpTo, Walk!Follow, Walk!Address
<1>6. \A k \in 0..(Lines - 1) : Onward(Lines, k) \in 0..(Lines - 1)
  BY <1>1 DEF Onward
<1>7. QED
  BY <1>2, <1>3, <1>4, <1>5, <1>6 DEF IsRing

LEMMA OnePageRing ==
  ASSUME WalkTypeOK, LaidInv, Laid, walk = "one_page", NEW g,
         LinkedUpTo(g, kLinesPerPage, kPages)
  PROVE  IsRing(Chain(g), kLinesPerPage)
<1> DEFINE n == kLinesPerPage
<1>1. Walk!Links = n /\ n \in Nat \ {0} /\ Around = n
  BY WalkSizes, Geometry DEF Around
<1>2. order = [k \in 0..(n - 1) |-> k]
  BY <1>1 DEF LaidInv, Walk!Identity
<1>3. Walk!Cells = {l * kLine : l \in 0..(n - 1)}
  BY Geometry DEF Walk!Cells
<1>4. Chain(g) = [k \in 0..(n - 1) |-> k * kLine]
  BY <1>1 DEF Chain, Cell
<1>5. \A k \in 0..(n - 1) : Onward(n, k) \in 0..(n - 1)
  BY <1>1 DEF Onward
<1>6. \A k \in 0..(n - 1) : Walk!Follow(k * kLine) = Onward(n, k) * kLine
  <2>1. \A k \in 0..(n - 1) : mem[order[k] * kLine] = order[Walk!After(k)] * kLine
    BY DEF LinkedUpTo
  <2>2. \A k \in 0..(n - 1) : Walk!After(k) = Onward(n, k)
    BY <1>1, SuccessorIs
  <2>3. QED
    BY <1>2, <1>5, <2>1, <2>2 DEF Walk!Follow, Walk!Address
<1>7. \A k, l \in 0..(n - 1) : k * kLine = l * kLine => k = l
  BY <1>1, LineWord
<1> HIDE DEF n
<1>8. IsRing(Chain(g), n)
  <2> DEFINE c == Chain(g)
  <2>1. DOMAIN c = 0..(n - 1) /\ c = [k \in 0..(n - 1) |-> c[k]]
        /\ \A k \in 0..(n - 1) : c[k] = k * kLine
    BY <1>4
  <2> HIDE DEF c
  <2>2. c \in [0..(n - 1) -> Walk!Cells]
    BY <1>3, <2>1
  <2>3. \A k, l \in 0..(n - 1) : c[k] = c[l] => k = l
    BY <1>7, <2>1
  <2>4. \A x \in Walk!Cells : \E k \in 0..(n - 1) : c[k] = x
    BY <1>3, <2>1
  <2>5. \A k \in 0..(n - 1) : Walk!Follow(c[k]) = c[Onward(n, k)]
    BY <1>5, <1>6, <2>1
  <2>6. QED
    BY <2>2, <2>3, <2>4, <2>5 DEF IsRing, c
<1>9. QED
  BY <1>8 DEF n

LEMMA PagesRing ==
  ASSUME WalkTypeOK, LaidInv, Laid, walk = "pages", NEW g, LinkedUpTo(g, kPages, kPages)
  PROVE  IsRing(Chain(g), kPages)
<1>1. Walk!Links = kPages /\ kPages \in Nat \ {0} /\ Around = kPages
  BY WalkSizes, Geometry DEF Around
<1>2. /\ order \in [0..(kPages - 1) -> 0..(kPages - 1)]
      /\ \A k, l \in 0..(kPages - 1) : order[k] = order[l] => k = l
      /\ \A k \in 0..(kPages - 1) : Walk!Page(k) = LineAt(order[k], 0)
  BY OfPages
<1>3. Walk!Cells = {Walk!Page(k) : k \in 0..(kPages - 1)}
  BY DEF Walk!Cells
<1>4. Chain(g) = [k \in 0..(kPages - 1) |-> Walk!Page(k)]
  BY <1>1 DEF Chain, Cell
<1>5. \A k \in 0..(kPages - 1) : Walk!Follow(Walk!Page(k)) = Walk!Page(Onward(kPages, k))
  <2>1. \A k \in 0..(kPages - 1) : mem[Walk!Page(k)] = Walk!Page(Walk!After(k))
    BY DEF LinkedUpTo
  <2>2. \A k \in 0..(kPages - 1) : Walk!After(k) = Onward(kPages, k)
    BY <1>1, SuccessorIs
  <2>3. QED
    BY <2>1, <2>2 DEF Walk!Follow, Walk!Address
<1>6. \A k \in 0..(kPages - 1) : Onward(kPages, k) \in 0..(kPages - 1)
  BY <1>1 DEF Onward
<1>7. ASSUME NEW k \in 0..(kPages - 1), NEW l \in 0..(kPages - 1),
             Walk!Page(k) = Walk!Page(l)
      PROVE  k = l
  <2>1. 0 \in Walk!LineIds
    BY Geometry
  <2>2. order[k] = order[l]
    BY <1>2, <1>7, <2>1, LineAtApart
  <2>3. QED
    BY <1>2, <2>2
<1>8. QED
  BY <1>3, <1>4, <1>5, <1>6, <1>7 DEF IsRing

\* The line of page q that comb and ring come to as the r-th.
LineOf(g, q, r) == IF walk = "comb" THEN r ELSE g[q][r]

LEMMA LineOfIs ==
  ASSUME Buckets, NEW g \in LineOrders, NEW q \in 0..(kPages - 1)
  PROVE  /\ \A r \in Walk!LineIds : LineOf(g, q, r) \in Walk!LineIds
         /\ \A r, s \in Walk!LineIds : LineOf(g, q, r) = LineOf(g, q, s) => r = s
         /\ \A l \in Walk!LineIds : \E r \in Walk!LineIds : LineOf(g, q, r) = l
<1>1. g[q] \in Walk!Orders(kLinesPerPage)
  BY DEF LineOrders
<1>2. QED
  BY <1>1, OfLines DEF LineOf

LEMMA GridCells ==
  ASSUME WalkTypeOK, LaidInv, Laid, Buckets, NEW g \in LineOrders
  PROVE  /\ Around = kPages * kLinesPerPage /\ Around \in Nat \ {0}
         /\ Walk!Cells = {LineAt(q, l) : q \in 0..(kPages - 1), l \in Walk!LineIds}
         /\ Chain(g) = [k \in 0..(Around - 1) |->
              LineAt(order[k \div kLinesPerPage],
                     LineOf(g, k \div kLinesPerPage, k % kLinesPerPage))]
<1>1. Around = kPages * kLinesPerPage /\ Around \in Nat \ {0}
  BY WalkSizes DEF Around, Buckets
<1>2. Walk!Cells = {LineAt(q, l) : q \in 0..(kPages - 1), l \in Walk!LineIds}
  <2>1. Walk!Cells = {Walk!Page(j) + l * kLine : j \in 0..(kPages - 1), l \in Walk!LineIds}
    BY DEF Walk!Cells, Buckets
  <2>2. \A j \in 0..(kPages - 1), l \in Walk!LineIds :
          order[j] \in 0..(kPages - 1) /\ Walk!Page(j) + l * kLine = LineAt(order[j], l)
    BY OfPages DEF Buckets, LineAt
  <2>3. \A q \in 0..(kPages - 1) : \E j \in 0..(kPages - 1) : order[j] = q
    BY OfPages DEF Buckets
  <2>4. QED
    BY <2>1, <2>2, <2>3
<1>3. ASSUME NEW k
      PROVE  Cell(g, k) = LineAt(order[k \div kLinesPerPage],
                                 LineOf(g, k \div kLinesPerPage, k % kLinesPerPage))
  BY DEF Cell, LineOf, Buckets
<1>4. QED
  BY <1>1, <1>2, <1>3 DEF Chain

LEMMA GridStep ==
  ASSUME WalkTypeOK, LaidInv, Laid, Buckets, NEW g \in LineOrders,
         LinkedUpTo(g, kPages, kPages),
         NEW q \in 0..(kPages - 1), NEW r \in Walk!LineIds
  PROVE  Walk!Follow(LineAt(order[q], LineOf(g, q, r))) =
           IF r # Walk!LastLine THEN LineAt(order[q], LineOf(g, q, r + 1))
           ELSE LineAt(order[Onward(kPages, q)], LineOf(g, Onward(kPages, q), 0))
<1>1. Walk!Links = kPages /\ kPages \in Nat \ {0}
  BY WalkSizes, Geometry DEF Buckets
<1>2. Walk!After(q) = Onward(kPages, q) /\ Onward(kPages, q) \in 0..(kPages - 1)
  BY <1>1, SuccessorIs
<1>3. CASE walk = "comb"
  <2>1. mem[LineAt(order[q], r)] =
          IF r = Walk!LastLine THEN Walk!Page(Walk!After(q)) ELSE LineAt(order[q], r + 1)
    BY <1>3 DEF LinkedUpTo
  <2>2. Walk!Page(Walk!After(q)) = LineAt(order[Onward(kPages, q)], 0)
    BY <1>2, <1>3, OfPages
  <2>3. QED
    BY <1>3, <2>1, <2>2 DEF LineOf, Walk!Follow, Walk!Address
<1>4. CASE walk = "ring"
  <2>1. RingPage(g[q], q, q < kPages) /\ q < kPages
    BY <1>1, <1>4 DEF LinkedUpTo
  <2>2. mem[LineAt(order[q], g[q][r])] =
          IF r # Walk!LastLine THEN LineAt(order[q], g[q][r + 1])
          ELSE entry[Walk!After(q)]
    BY <2>1 DEF RingPage
  <2>3. RingPage(g[Walk!After(q)], Walk!After(q), Walk!After(q) < kPages)
    BY <1>2, <1>4 DEF LinkedUpTo
  <2>4. entry[Walk!After(q)] = LineAt(order[Onward(kPages, q)], g[Onward(kPages, q)][0])
    BY <1>2, <2>3 DEF RingPage
  <2>5. QED
    BY <1>4, <2>2, <2>4 DEF LineOf, Walk!Follow, Walk!Address
<1>5. QED
  BY <1>3, <1>4 DEF Buckets

LEMMA GridRing ==
  ASSUME WalkTypeOK, LaidInv, Laid, Buckets, NEW g \in LineOrders,
         LinkedUpTo(g, kPages, kPages)
  PROVE  IsRing(Chain(g), Around)
<1> DEFINE M == Around
           c == Chain(g)
           P(k) == k \div kLinesPerPage
           L(k) == k % kLinesPerPage
<1>1. M = kPages * kLinesPerPage /\ M \in Nat \ {0}
  BY GridCells
<1>2. Walk!Cells = {LineAt(q, l) : q \in 0..(kPages - 1), l \in Walk!LineIds}
  BY GridCells
<1>3. c = [k \in 0..(M - 1) |-> LineAt(order[P(k)], LineOf(g, P(k), L(k)))]
  BY GridCells
<1>4. /\ order \in [0..(kPages - 1) -> 0..(kPages - 1)]
      /\ \A j, k \in 0..(kPages - 1) : order[j] = order[k] => j = k
      /\ \A k \in 0..(kPages - 1) : \E j \in 0..(kPages - 1) : order[j] = k
  BY OfPages DEF Buckets
<1>5. ASSUME NEW k \in 0..(M - 1)
      PROVE  /\ P(k) \in 0..(kPages - 1) /\ L(k) \in Walk!LineIds
             /\ k = P(k) * kLinesPerPage + L(k)
             /\ Onward(M, k) \in 0..(M - 1)
             /\ L(k) # Walk!LastLine =>
                  P(Onward(M, k)) = P(k) /\ L(Onward(M, k)) = L(k) + 1
             /\ L(k) = Walk!LastLine =>
                  P(Onward(M, k)) = Onward(kPages, P(k)) /\ L(Onward(M, k)) = 0
  <2>1. k = P(k) * kLinesPerPage + L(k)
    <3>1. kPages \in Nat \ {0} /\ kLinesPerPage \in Nat \ {0}
      BY Geometry
    <3>2. k \in 0..(kPages * kLinesPerPage - 1)
      BY <1>1
    <3>3. QED
      BY <3>1, <3>2, Numbering
  <2>2. QED
    BY <1>1, <2>1, NextPlace
<1> HIDE DEF M, c, P, L
<1>6. ASSUME NEW k \in 0..(M - 1)
      PROVE  /\ c[k] = LineAt(order[P(k)], LineOf(g, P(k), L(k)))
             /\ order[P(k)] \in 0..(kPages - 1) /\ LineOf(g, P(k), L(k)) \in Walk!LineIds
  BY <1>3, <1>4, <1>5, LineOfIs
<1>7. c \in [0..(M - 1) -> Walk!Cells]
  <2>1. \A k \in 0..(M - 1) : c[k] \in Walk!Cells
    BY <1>2, <1>6
  <2>2. DOMAIN c = 0..(M - 1) /\ c = [k \in 0..(M - 1) |-> c[k]]
    BY <1>3
  <2>3. QED
    BY <2>1, <2>2
<1>8. ASSUME NEW k \in 0..(M - 1), NEW l \in 0..(M - 1), c[k] = c[l]
      PROVE  k = l
  <2>1. order[P(k)] = order[P(l)] /\ LineOf(g, P(k), L(k)) = LineOf(g, P(l), L(l))
    BY <1>6, <1>8, LineAtApart
  <2>2. P(k) = P(l)
    BY <1>4, <1>5, <2>1
  <2>3. L(k) = L(l)
    BY <1>5, <2>1, <2>2, LineOfIs
  <2>4. QED
    BY <1>5, <2>2, <2>3
<1>9. ASSUME NEW x \in Walk!Cells
      PROVE  \E k \in 0..(M - 1) : c[k] = x
  <2>1. PICK p0 \in 0..(kPages - 1), l \in Walk!LineIds : x = LineAt(p0, l)
    BY <1>2
  <2>2. PICK q \in 0..(kPages - 1) : order[q] = p0
    BY <1>4
  <2>3. PICK r \in Walk!LineIds : LineOf(g, q, r) = l
    BY LineOfIs
  <2> DEFINE k == q * kLinesPerPage + r
  <2>4. k \in 0..(M - 1) /\ P(k) = q /\ L(k) = r
    <3>1. kPages \in Nat \ {0} /\ kLinesPerPage \in Nat \ {0}
          /\ r \in 0..(kLinesPerPage - 1)
      BY Geometry
    <3>2. /\ q * kLinesPerPage + r \in 0..(kPages * kLinesPerPage - 1)
          /\ (q * kLinesPerPage + r) \div kLinesPerPage = q
          /\ (q * kLinesPerPage + r) % kLinesPerPage = r
      BY <3>1, Numbering
    <3>3. QED
      BY <1>1, <3>2 DEF P, L
  <2> HIDE DEF k
  <2>5. c[k] = x
    BY <1>6, <2>1, <2>2, <2>3, <2>4
  <2>6. QED
    BY <2>4, <2>5
<1>10. ASSUME NEW k \in 0..(M - 1)
       PROVE  Walk!Follow(c[k]) = c[Onward(M, k)]
  <2>1. Walk!Follow(c[k]) =
          IF L(k) # Walk!LastLine THEN LineAt(order[P(k)], LineOf(g, P(k), L(k) + 1))
          ELSE LineAt(order[Onward(kPages, P(k))], LineOf(g, Onward(kPages, P(k)), 0))
    BY <1>5, <1>6, GridStep
  <2>2. c[Onward(M, k)] =
          LineAt(order[P(Onward(M, k))], LineOf(g, P(Onward(M, k)), L(Onward(M, k))))
    BY <1>5, <1>6
  <2>3. QED
    BY <1>5, <2>1, <2>2
<1>11. IsRing(c, M)
  BY <1>7, <1>8, <1>9, <1>10 DEF IsRing
<1>12. QED
  BY <1>11 DEF M, c

\* Where comb and ring are in a page, and where ring enters the next.
LEMMA GridPlaces ==
  ASSUME WalkTypeOK, LaidInv, Laid, Buckets, NEW g \in LineOrders,
         LinkedUpTo(g, kPages, kPages), NEW k \in 0..(Around - 1)
  PROVE  /\ k % kLinesPerPage \in Walk!LineIds
         /\ walk = "comb" =>
              (Chain(g)[k] % Walk!kPageSize) \div kLine = k % kLinesPerPage
         /\ walk = "ring" =>
              /\ Chain(g)[k] \in Walk!Range(entry) <=> k % kLinesPerPage = 0
              /\ k % kLinesPerPage = 0 =>
                   mem[Chain(g)[k] + 2] = Chain(g)[Entrance(k)]
<1> DEFINE q == k \div kLinesPerPage
           r == k % kLinesPerPage
<1>1. Around = kPages * kLinesPerPage
  BY GridCells
<1>2. /\ q \in 0..(kPages - 1) /\ r \in Walk!LineIds
      /\ Entrance(k) \in 0..(Around - 1)
      /\ Entrance(k) \div kLinesPerPage = Onward(kPages, q)
      /\ Entrance(k) % kLinesPerPage = 0
      /\ Onward(kPages, q) \in 0..(kPages - 1)
  BY <1>1, NextPlace
<1>3. /\ Chain(g)[k] = LineAt(order[q], LineOf(g, q, r))
      /\ Chain(g)[Entrance(k)] =
           LineAt(order[Onward(kPages, q)], LineOf(g, Onward(kPages, q), 0))
  BY <1>2, GridCells
<1> HIDE DEF q, r
<1>4. /\ order[q] \in 0..(kPages - 1) /\ LineOf(g, q, r) \in Walk!LineIds
      /\ \A j \in 0..(kPages - 1) : order[j] \in 0..(kPages - 1)
      /\ \A j, l \in 0..(kPages - 1) : order[j] = order[l] => j = l
  <2>1. LineOf(g, q, r) \in Walk!LineIds
    BY <1>2, LineOfIs
  <2>2. QED
    BY <1>2, <2>1, OfPages DEF Buckets
<1>5. walk = "comb" => (Chain(g)[k] % Walk!kPageSize) \div kLine = r
  <2>1. walk = "comb" => LineOf(g, q, r) = r
    BY DEF LineOf
  <2>2. QED
    BY <1>3, <1>4, <2>1, LineAtWord
<1>6. ASSUME walk = "ring"
      PROVE  /\ Chain(g)[k] \in Walk!Range(entry) <=> r = 0
             /\ r = 0 => mem[Chain(g)[k] + 2] = Chain(g)[Entrance(k)]
  <2>1. \A j \in 0..(kPages - 1) : RingPage(g[j], j, j < kPages) /\ j < kPages
    <3>1. \A j \in 0..(kPages - 1) : RingPage(g[j], j, j < kPages)
      BY <1>6 DEF LinkedUpTo
    <3>2. \A j \in 0..(kPages - 1) : j < kPages
      BY Geometry
    <3>3. QED
      BY <3>1, <3>2
  <2>2. \A j \in 0..(kPages - 1) :
          /\ entry[j] = LineAt(order[j], LineOf(g, j, 0))
          /\ mem[entry[j] + 2] = entry[Walk!After(j)]
    BY <1>6, <2>1 DEF RingPage, LineOf
  <2>3. Walk!Range(entry) = {entry[j] : j \in 0..(kPages - 1)}
    <3>1. Walk!Links = kPages
      BY <1>6, WalkSizes
    <3>2. entry = [j \in 0..(kPages - 1) |-> entry[j]]
      BY <3>1 DEF LaidInv
    <3>3. DOMAIN entry = 0..(kPages - 1)
      BY <3>2
    <3>4. QED
      BY <3>3 DEF Walk!Range
  <2>4. Chain(g)[k] \in Walk!Range(entry) => r = 0
    <3>1. SUFFICES ASSUME Chain(g)[k] \in Walk!Range(entry)
                   PROVE  r = 0
      OBVIOUS
    <3>2. PICK j \in 0..(kPages - 1) : Chain(g)[k] = entry[j]
      BY <2>3, <3>1
    <3>3. 0 \in Walk!LineIds /\ LineOf(g, j, 0) \in Walk!LineIds
      <4>1. 0 \in Walk!LineIds
        BY Geometry
      <4>2. QED
        BY <4>1, LineOfIs
    <3>4. order[q] = order[j] /\ LineOf(g, q, r) = LineOf(g, j, 0)
      <4>1. LineAt(order[q], LineOf(g, q, r)) = LineAt(order[j], LineOf(g, j, 0))
        BY <1>3, <2>2, <3>2
      <4>2. /\ order[q] \in 0..(kPages - 1) /\ order[j] \in 0..(kPages - 1)
            /\ LineOf(g, q, r) \in Walk!LineIds
        BY <1>4
      <4>3. QED
        BY <3>3, <4>1, <4>2, LineAtApart
    <3>5. q = j
      BY <1>2, <1>4, <3>4
    <3>6. QED
      BY <1>2, <3>3, <3>4, <3>5, LineOfIs
  <2>5. r = 0 => Chain(g)[k] = entry[q]
    BY <1>2, <1>3, <2>2
  <2>6. entry[Walk!After(q)] = Chain(g)[Entrance(k)]
    <3>1. Walk!After(q) = Onward(kPages, q)
      BY <1>2, <1>6, WalkSizes, SuccessorIs
    <3>2. QED
      BY <1>2, <1>3, <2>2, <3>1
  <2>7. QED
    BY <1>2, <2>2, <2>3, <2>4, <2>5, <2>6
<1>7. r \in Walk!LineIds
  BY <1>2
<1>8. QED
  BY <1>5, <1>6, <1>7 DEF r

LEMMA ChainIsRing ==
  ASSUME WalkTypeOK, LaidInv, Laid, walk # "split", NEW g \in LineOrders,
         LinkedUpTo(g, Walk!Links, kPages)
  PROVE  IsRing(Chain(g), Around)
<1>1. CASE walk = "lines"
  BY <1>1, LinesRing, WalkSizes DEF Around
<1>2. CASE walk = "one_page"
  BY <1>2, OnePageRing, WalkSizes DEF Around
<1>3. CASE walk = "pages"
  BY <1>3, PagesRing, WalkSizes DEF Around
<1>4. CASE Buckets
  BY <1>4, GridRing, WalkSizes DEF Buckets
<1>5. QED
  BY <1>1, <1>2, <1>3, <1>4 DEF WalkTypeOK, Walk!Walks, Buckets

-----------------------------------------------------------------------------
(* Walking.                                                                  *)

LEMMA ChainStays ==
  ASSUME WalkTypeOK, LaidInv, UNCHANGED <<walk, bytes, mem, order, entry>>, Laid,
         cpc \notin {"link", "patch"},
         cpc' \in {"warm", "open", "start", "timed", "stop", "unmap"}
  PROVE  /\ Around' = Around
         /\ Walk!Links' = Walk!Links /\ Walk!RegionBytes' = Walk!RegionBytes
         /\ Walk!PassLength' \in Nat \ {0}
         /\ LinksDone = Walk!Links /\ PatchesDone = kPages
         /\ \A g : Chain(g)' = Chain(g)
         /\ \A g : LinkedUpTo(g, LinksDone, PatchesDone) =>
                     LinkedUpTo(g, LinksDone, PatchesDone)'
<1>1. /\ Walk!Links' = Walk!Links /\ Walk!RegionBytes' = Walk!RegionBytes /\ Around' = Around
  BY SameSizes
<1>2. Walk!PassLength' \in Nat \ {0}
  BY SizesNext
<1>3. /\ LinksDone = Walk!Links /\ PatchesDone = kPages
      /\ LinksDone' = LinksDone /\ PatchesDone' = PatchesDone
  BY <1>1 DEF LinksDone, PatchesDone
<1>4. \A g : Chain(g)' = Chain(g)
  BY <1>1 DEF Chain, Cell, Walk!Page
<1>5. \A j : Walk!After(j)' = Walk!After(j) /\ Walk!Page(j)' = Walk!Page(j)
  BY <1>1 DEF Walk!After, Walk!Page
<1>6. ASSUME NEW q, NEW j, NEW patched
      PROVE  RingPage(q, j, patched)' = RingPage(q, j, patched)
  BY <1>5 DEF RingPage
<1>7. ASSUME NEW g, LinkedUpTo(g, LinksDone, PatchesDone)
      PROVE  LinkedUpTo(g, LinksDone, PatchesDone)'
  <2>1. PICK n, m : n = LinksDone /\ m = PatchesDone
    OBVIOUS
  <2>2. LinkedUpTo(g, n, m)
    BY <1>7, <2>1
  <2>3. LinkedUpTo(g, n, m)'
    BY <1>5, <1>6, <2>2 DEF LinkedUpTo
  <2>4. QED
    BY <1>3, <2>1, <2>3
<1>8. QED
  BY <1>1, <1>2, <1>3, <1>4, <1>7

\* What a walk does not touch stays as it was laid.
LEMMA LaidStays ==
  ASSUME WalkTypeOK, LaidInv, UNCHANGED <<walk, bytes, mem, order, entry>>, Laid,
         cpc \notin {"link", "patch"},
         cpc' \in {"warm", "open", "start", "timed", "stop", "unmap"},
         cpc' \in {"warm", "open"} => UNCHANGED <<rep, hint>> /\ cpc \in {"warm", "open"}
  PROVE  LaidInv'
<1>1. Walk!Links' = Walk!Links /\ Walk!RegionBytes' = Walk!RegionBytes
  BY SameSizes
<1>2. entry' = [j \in 0..(Walk!Links' - 1) |-> entry'[j]]
  BY <1>1 DEF LaidInv
<1>3. /\ cpc' # "map"
      /\ cpc' \in {"map", "link", "patch", "warm", "open"} => rep' = 0 /\ hint' = -1
  BY DEF LaidInv
<1>4. Laid /\ bytes' = Walk!RegionBytes' /\ DOMAIN mem' = WordsOf(Walk!RegionBytes')
      /\ order' \in Walk!Orders(Walk!Links')
      /\ (walk' \in {"one_page", "split"} => order' = Walk!Identity(Walk!Links'))
  BY <1>1 DEF LaidInv
<1>5. QED
  BY <1>2, <1>3, <1>4 DEF LaidInv

\* Where one is and stays.
LEMMA PlaceStays ==
  ASSUME WalkIInv, UNCHANGED <<walk, bytes, mem, order, entry, idx, step, hint>>, Laid,
         cpc \notin {"link", "patch"},
         cpc' \in {"warm", "open", "start", "timed", "stop", "unmap"},
         Chained' => Chained
  PROVE  OnChainInv'
<1>1. WalkTypeOK /\ LaidInv
  BY DEF WalkIInv
<1>2. PICK g \in LineOrders : /\ LinkedUpTo(g, LinksDone, PatchesDone)
                              /\ Chained => \E k \in 0..(Around - 1) : IsAt(g, k)
  BY DEF WalkIInv, OnChainInv
<1>3. Around' = Around /\ Chain(g)' = Chain(g) /\ LinkedUpTo(g, LinksDone, PatchesDone)'
  BY <1>1, <1>2, ChainStays
<1>4. ASSUME NEW k, IsAt(g, k)
      PROVE  IsAt(g, k)'
  BY <1>3, <1>4 DEF IsAt, Buckets
<1>5. QED
  BY <1>2, <1>3, <1>4 DEF OnChainInv

\* A step along the chain.
LEMMA OneOnward ==
  ASSUME WalkIInv, Chained, NEW g \in LineOrders,
         LinkedUpTo(g, LinksDone, PatchesDone), NEW k \in 0..(Around - 1), IsAt(g, k)
  PROVE  /\ IsRing(Chain(g), Around)
         /\ Onward(Around, k) \in 0..(Around - 1)
         /\ Walk!Follow(idx) = Chain(g)[Onward(Around, k)]
<1>1. WalkTypeOK /\ LaidInv /\ Laid /\ walk # "split" /\ cpc \notin {"link", "patch"}
  BY DEF WalkIInv, Chained, Laid
<1>2. LinksDone = Walk!Links /\ PatchesDone = kPages
  BY <1>1 DEF LinksDone, PatchesDone
<1>3. IsRing(Chain(g), Around)
  BY <1>1, <1>2, ChainIsRing
<1>4. Onward(Around, k) \in 0..(Around - 1)
  BY <1>1, WalkSizes DEF Onward
<1>5. QED
  BY <1>3, <1>4 DEF IsRing, IsAt

LEMMA NoneMissed ==
  ASSUME WalkTypeOK, UNCHANGED <<walk, rep>>, misses_total' = 0
  PROVE  Missed(rep)'
<1>1. Walk!Loads' \in Nat
  BY SizesNext
<1>2. \A n \in Nat : 0 = 0 * n
  OBVIOUS
<1>3. misses_total' = 0 * Walk!Loads'
  BY <1>1, <1>2
<1>4. 0 \in 0..rep'
  BY DEF WalkTypeOK
<1>5. QED
  BY <1>3, <1>4 DEF Missed

LEMMA WarmKeeps ==
  ASSUME WalkIInv, Walk!Warm
  PROVE  WalkIInv'
<1>0. WalkTypeOK /\ LaidInv /\ StrideInv /\ CounterInv /\ cpc = "warm" /\ walk # "split" /\ Laid
      /\ Chained
  BY DEF WalkIInv, WalkTypeOK, Walk!Warm, Laid, Chained
<1>1. UNCHANGED <<walk, software_prefetch, bytes, mem, order, entry, at, rep, position, count,
                  hint, dtlb, misses_total>>
  BY DEF Walk!Warm, Walk!program, Walk!passVars, Walk!perfVars
<1>2. hint = -1 /\ rep = 0 /\ dtlb = Walk!Closed /\ misses_total = 0
  BY <1>0 DEF LaidInv, CounterInv
<1>3. \/ step + 1 < Walk!PassLength /\ step' = step + 1 /\ idx' = Walk!Follow(idx)
           /\ cpc' = "warm"
      \/ /\ step + 1 = Walk!PassLength /\ step' = 0
         /\ cpc' = IF walk = "one_page" THEN "timed" ELSE "open"
         /\ idx' = IF walk = "lines" THEN 0 ELSE Walk!Follow(idx)
  BY <1>0, WalkSizes DEF Walk!Warm, WalkTypeOK
<1>4. cpc' \in {"warm", "open", "timed"} /\ (walk = "one_page" => cpc' \in {"warm", "timed"})
      /\ (walk # "one_page" => cpc' \in {"warm", "open"})
  BY <1>3
<1>5. WalkTypeOK'
  <2>1. Walk!PassLength' \in Nat \ {0} /\ Walk!Links' = Walk!Links
    BY <1>0, <1>1, <1>4, ChainStays
  <2>2. cpc' = "warm" => Walk!PassLength' = Walk!PassLength
    BY <1>0, <1>1, SameSizes
  <2>3. step' \in Nat /\ (cpc' \in {"warm", "timed"} => step' < Walk!PassLength')
        /\ (cpc' \notin {"warm", "timed"} => step' = 0)
    BY <1>0, <1>3, <2>1, <2>2 DEF WalkTypeOK
  <2>4. QED
    BY <1>0, <1>1, <1>4, <2>1, <2>3 DEF WalkTypeOK
<1>6. LaidInv'
  BY <1>0, <1>1, <1>4, LaidStays
<1>7. OnChainInv'
  <2>1. PICK g \in LineOrders : /\ LinkedUpTo(g, LinksDone, PatchesDone)
                                /\ \E k \in 0..(Around - 1) : IsAt(g, k)
    BY <1>0 DEF WalkIInv, OnChainInv
  <2>2. PICK k \in 0..(Around - 1) : IsAt(g, k)
    BY <2>1
  <2>3. /\ Onward(Around, k) \in 0..(Around - 1)
        /\ Walk!Follow(idx) = Chain(g)[Onward(Around, k)]
    BY <1>0, <2>1, <2>2, OneOnward
  <2>4. Around' = Around /\ Chain(g)' = Chain(g) /\ LinkedUpTo(g, LinksDone, PatchesDone)'
    BY <1>0, <1>1, <1>4, <2>1, ChainStays
  <2>5. PICK l \in 0..(Around - 1) : idx' = Chain(g)[l] /\ (Buckets => l = step')
    <3>1. CASE idx' = Walk!Follow(idx)
      <4>1. Buckets => Onward(Around, k) = step'
        <5>1. Buckets => k = step /\ Walk!PassLength = Around
          BY <1>0, <2>2, WalkSizes DEF IsAt
        <5>2. QED
          BY <1>0, <1>3, <5>1 DEF Onward, WalkTypeOK
      <4>2. QED
        BY <2>3, <3>1, <4>1
    <3>2. CASE idx' # Walk!Follow(idx)
      <4>1. walk = "lines" /\ idx' = 0
        BY <1>3, <3>2
      <4>2. order \in Walk!Orders(Lines) /\ Around = Lines /\ Lines \in Nat \ {0}
        BY <1>0, <4>1, WalkSizes, Geometry DEF LaidInv, Around
      <4>3. PICK l \in 0..(Lines - 1) : order[l] = 0
        BY <4>2, OfOrder
      <4>4. Chain(g)[l] = 0
        BY <4>1, <4>2, <4>3 DEF Chain, Cell
      <4>5. QED
        BY <4>1, <4>2, <4>4 DEF Buckets
    <3>3. QED
      BY <3>1, <3>2
  <2>6. IsAt(g, l)'
    BY <1>1, <1>2, <2>4, <2>5 DEF IsAt, Buckets
  <2>7. QED
    BY <2>4, <2>5, <2>6 DEF OnChainInv
<1>8. StrideInv'
  BY <1>0, <1>1, <1>4 DEF StrideInv, Buckets
<1>9. CounterInv'
  <2>3. Missed(rep)'
    BY <1>0, <1>1, <1>2, NoneMissed
  <2>4. QED
    BY <1>0, <1>1, <1>2, <1>4, <2>3 DEF CounterInv, Walk!Closed
<1>10. QED
  BY <1>5, <1>6, <1>7, <1>8, <1>9 DEF WalkIInv

LEMMA OpenKeeps ==
  ASSUME WalkIInv, Walk!Open \/ Walk!Start
  PROVE  WalkIInv'
<1>0. WalkTypeOK /\ LaidInv /\ StrideInv /\ CounterInv /\ Laid /\ cpc \in {"open", "start"}
      /\ walk # "one_page" /\ step = 0 /\ dtlb \in [open : BOOLEAN, enabled : BOOLEAN, value : Nat]
  BY DEF WalkIInv, WalkTypeOK, Walk!Open, Walk!Start, Laid
<1>1. UNCHANGED <<walk, software_prefetch, bytes, mem, order, entry, at, idx, step, rep, hint,
                  misses_total>>
  BY DEF Walk!Open, Walk!Start, Walk!program, Walk!passVars
<1>2. \/ cpc = "open" /\ cpc' = "start" /\ UNCHANGED <<position, count>>
           /\ \E o \in BOOLEAN : dtlb' = [Walk!Closed EXCEPT !.open = o]
      \/ cpc = "start" /\ cpc' = "timed" /\ dtlb' = Walk!Started
           /\ count' = Walk!NoCount /\ position' = 0
  BY DEF Walk!Open, Walk!Start, Walk!passVars
<1>3. cpc' \in {"start", "timed"} /\ cpc \notin {"link", "patch"}
  BY <1>0, <1>2
<1>4. /\ dtlb' \in [open : BOOLEAN, enabled : BOOLEAN, value : Nat]
      /\ dtlb'.open => dtlb'.value = 0 /\ (dtlb'.enabled <=> cpc' = "timed")
      /\ ~dtlb'.open => ~dtlb'.enabled /\ dtlb'.value = 0 /\ misses_total = 0
  <2>1. CASE cpc' = "start"
    <3>1. PICK o \in BOOLEAN : dtlb' = [open |-> o, enabled |-> FALSE, value |-> 0]
      BY <1>2, <2>1 DEF Walk!Closed
    <3>2. misses_total = 0
      BY <1>0, <1>2, <2>1 DEF CounterInv
    <3>3. QED
      BY <2>1, <3>1, <3>2
  <2>2. CASE cpc' = "timed"
    <3>1. dtlb' = IF dtlb.open THEN [open |-> TRUE, enabled |-> TRUE, value |-> 0] ELSE dtlb
      BY <1>2, <2>2 DEF Walk!Started
    <3>2. ~dtlb.open => ~dtlb.enabled /\ dtlb.value = 0 /\ misses_total = 0
      BY <1>0, <1>2, <2>2 DEF CounterInv
    <3>3. CASE dtlb.open
      <4>1. dtlb' = [open |-> TRUE, enabled |-> TRUE, value |-> 0]
        BY <3>1, <3>3
      <4>2. QED
        BY <2>2, <4>1
    <3>4. CASE ~dtlb.open
      <4>1. dtlb' = dtlb
        BY <3>1, <3>4
      <4>2. QED
        BY <1>0, <3>2, <3>4, <4>1
    <3>5. QED
      BY <3>3, <3>4
  <2>3. QED
    BY <1>3, <2>1, <2>2
<1>5. Walk!PassLength' \in Nat \ {0} /\ Walk!Links' = Walk!Links
  BY <1>0, <1>1, SizesNext, SameSizes
<1>6. WalkTypeOK'
  <2>1. position' \in Walk!LineIds /\ count' \in [Walk!LineIds -> Nat]
    <3>1. 0 \in Walk!LineIds /\ Walk!NoCount \in [Walk!LineIds -> Nat]
      BY Geometry DEF Walk!NoCount
    <3>2. QED
      BY <1>0, <1>2, <3>1 DEF WalkTypeOK
  <2>2. QED
    BY <1>0, <1>1, <1>3, <1>4, <1>5, <2>1 DEF WalkTypeOK
<1>7. LaidInv'
  BY <1>0, <1>1, <1>3, LaidStays
<1>8. OnChainInv'
  BY <1>0, <1>1, <1>3, PlaceStays DEF Chained
<1>9. StrideInv'
  <2>1. 0 \div kLinesPerPage = 0 /\ 0 % kLinesPerPage = 0
    BY Geometry
  <2>2. \A l \in Walk!LineIds : ~ l < 0 /\ Walk!NoCount[l] = 0
    BY Geometry DEF Walk!NoCount
  <2>3. cpc' = "timed" => position' = step' % kLinesPerPage
    BY <1>0, <1>1, <1>2, <2>1
  <2>4. cpc' = "timed" => \A l \in Walk!LineIds :
          count'[l] = (step' \div kLinesPerPage) +
                      (IF l < step' % kLinesPerPage THEN 1 ELSE 0)
    BY <1>0, <1>1, <1>2, <2>1, <2>2
  <2>5. /\ ~software_prefetch' => hint' = -1
        /\ walk' = "split" /\ Laid' => idx' \in Walk!Offsets
    BY <1>0, <1>1 DEF StrideInv
  <2>6. QED
    BY <1>3, <2>3, <2>4, <2>5 DEF StrideInv
<1>10. CounterInv'
  <2>1. Missed(rep)'
    <3>1. CASE cpc = "start"
      <4>1. Walk!Loads' = Walk!Loads
        BY <1>1, <1>2, <3>1, SameSizes
      <4>2. QED
        BY <1>0, <1>1, <3>1, <4>1 DEF CounterInv, Missed
    <3>2. CASE cpc = "open"
      <4>1. misses_total' = 0
        BY <1>0, <1>1, <3>2 DEF CounterInv
      <4>2. QED
        BY <1>0, <1>1, <4>1, NoneMissed
    <3>3. QED
      BY <1>0, <3>1, <3>2
  <2>2. cpc' = "timed" => Walk!LoadsSoFar' = 0
    <3>1. SUFFICES ASSUME cpc' = "timed" PROVE Walk!LoadsSoFar' = 0
      OBVIOUS
    <3>2. walk = "split" => at = 0 /\ rep = 0
      BY <1>0, <1>2, <3>1 DEF CounterInv
    <3>3. 0 * kPages + 0 = 0
      BY Geometry
    <3>4. QED
      BY <1>0, <1>1, <3>2, <3>3 DEF Walk!LoadsSoFar
  <2>3. walk = "split" => at = 0 /\ rep = 0 /\ at < kPages /\ rep < kReps
    BY <1>0, Geometry DEF CounterInv
  <2>4. QED
    BY <1>0, <1>1, <1>3, <1>4, <2>1, <2>2, <2>3 DEF CounterInv
<1>11. QED
  BY <1>6, <1>7, <1>8, <1>9, <1>10 DEF WalkIInv

LEMMA StopKeeps ==
  ASSUME WalkIInv, Walk!Stop
  PROVE  WalkIInv'
<1>0. WalkTypeOK /\ LaidInv /\ StrideInv /\ CounterInv /\ Laid /\ cpc = "stop"
      /\ walk # "one_page" /\ step = 0 /\ dtlb \in [open : BOOLEAN, enabled : BOOLEAN, value : Nat]
  BY DEF WalkIInv, WalkTypeOK, Walk!Stop, Laid
<1>1. UNCHANGED <<walk, software_prefetch, bytes, mem, order, entry, at, idx, step, rep,
                  position, count, hint>>
  BY DEF Walk!Stop, Walk!program, Walk!passVars
<1>2. PICK read \in {0, dtlb.value} : misses_total' = misses_total + read
  BY DEF Walk!Stop
<1>3. /\ dtlb' = [dtlb EXCEPT !.enabled = FALSE]
      /\ cpc' = IF rep < Walk!Passes THEN "start" ELSE "unmap"
  BY DEF Walk!Stop
<1>4. /\ dtlb' \in [open : BOOLEAN, enabled : BOOLEAN, value : Nat]
      /\ ~dtlb'.enabled /\ dtlb'.open = dtlb.open /\ dtlb'.value = dtlb.value
      /\ cpc' \in {"start", "unmap"}
  BY <1>0, <1>3
<1>5. /\ Walk!PassLength' \in Nat \ {0} /\ Walk!Links' = Walk!Links
      /\ Walk!Loads' = Walk!Loads /\ Walk!Loads \in Nat
  BY <1>0, <1>1, <1>4, SizesNext, SameSizes, WalkSizes
<1>6. WalkTypeOK'
  <2>1. misses_total' \in Nat
    BY <1>0, <1>2 DEF WalkTypeOK
  <2>2. QED
    BY <1>0, <1>1, <1>4, <1>5, <2>1 DEF WalkTypeOK
<1>7. LaidInv'
  BY <1>0, <1>1, <1>4, LaidStays
<1>8. OnChainInv'
  BY <1>0, <1>1, <1>4, PlaceStays DEF Chained
<1>9. StrideInv'
  BY <1>0, <1>1, <1>4 DEF StrideInv
<1>10. CounterInv'
  <2>1. Missed(rep)'
    <3>1. PICK k \in 0..(rep - 1) : misses_total = k * Walk!Loads
      BY <1>0 DEF CounterInv, Missed
    <3>2. rep \in Nat /\ k \in 0..rep /\ k + 1 \in 0..rep /\ k \in Nat
      BY <1>0, <3>1 DEF WalkTypeOK
    <3>3. read = 0 \/ read = Walk!Loads
      BY <1>0, <1>2 DEF CounterInv
    <3>4. (k + 1) * Walk!Loads = k * Walk!Loads + Walk!Loads /\ k * Walk!Loads \in Nat
      BY <1>5, <3>2
    <3>5. misses_total' = k * Walk!Loads \/ misses_total' = (k + 1) * Walk!Loads
      BY <1>2, <1>5, <3>1, <3>3, <3>4
    <3>6. QED
      BY <1>1, <1>5, <3>2, <3>5 DEF Missed
  <2>2. ~dtlb.open => dtlb.value = 0 /\ misses_total' = 0
    BY <1>0, <1>2 DEF CounterInv
  <2>3. walk = "split" => cpc' = "unmap"
    <3>1. walk = "split" => rep = kReps /\ Walk!Passes = 1
      BY <1>0 DEF CounterInv, Walk!Passes
    <3>2. QED
      BY <1>3, <3>1, Geometry
  <2>4. QED
    BY <1>0, <1>1, <1>4, <2>1, <2>2, <2>3 DEF CounterInv
<1>11. QED
  BY <1>6, <1>7, <1>8, <1>9, <1>10 DEF WalkIInv

LEMMA UnmapKeeps ==
  ASSUME WalkIInv, Walk!Unmap \/ Walk!Returned
  PROVE  WalkIInv'
<1>0. WalkTypeOK /\ LaidInv /\ StrideInv /\ CounterInv
  BY DEF WalkIInv
<1>1. UNCHANGED <<walk, software_prefetch, at, idx, step, rep, position, count, hint,
                  misses_total>> /\ cpc' = "returned" /\ cpc \in {"unmap", "returned"}
      /\ dtlb' = Walk!Closed
  BY <1>0 DEF Walk!Unmap, Walk!Returned, Walk!chaseVars, Walk!program, Walk!passVars,
     Walk!perfVars, CounterInv
<1>2. WalkTypeOK'
  BY <1>0, <1>1 DEF WalkTypeOK, Walk!Closed
<1>3. LaidInv' /\ OnChainInv'
  BY <1>1 DEF LaidInv, OnChainInv, Laid
<1>4. StrideInv'
  BY <1>0, <1>1 DEF StrideInv, Laid
<1>5. CounterInv'
  BY <1>0, <1>1 DEF CounterInv, Walk!Closed
<1>6. QED
  BY <1>2, <1>3, <1>4, <1>5 DEF WalkIInv

\* The counter of a timed load.
LEMMA LoadCounts ==
  ASSUME WalkTypeOK, CounterInv, cpc = "timed", Walk!Load
  PROVE  /\ dtlb' \in [open : BOOLEAN, enabled : BOOLEAN, value : Nat]
         /\ dtlb'.open = dtlb.open /\ dtlb'.enabled = dtlb.enabled
         /\ dtlb.open => dtlb.enabled /\ dtlb'.value = Walk!LoadsSoFar + 1
         /\ ~dtlb.open => dtlb' = dtlb
<1>1. dtlb \in [open : BOOLEAN, enabled : BOOLEAN, value : Nat]
  BY DEF WalkTypeOK
<1>2. /\ dtlb.open => dtlb.enabled /\ dtlb.value = Walk!LoadsSoFar
      /\ ~dtlb.open => ~dtlb.enabled
  BY DEF CounterInv
<1>3. CASE dtlb.open
  <2>1. dtlb' = [dtlb EXCEPT !.value = dtlb.value + 1]
    BY <1>2, <1>3 DEF Walk!Load
  <2>2. /\ dtlb'.open = dtlb.open /\ dtlb'.enabled = dtlb.enabled
        /\ dtlb'.value = dtlb.value + 1
        /\ dtlb' \in [open : BOOLEAN, enabled : BOOLEAN, value : Nat]
    BY <1>1, <2>1
  <2>3. QED
    BY <1>2, <1>3, <2>2
<1>4. CASE ~dtlb.open
  <2>1. dtlb' = dtlb
    BY <1>2, <1>4 DEF Walk!Load
  <2>2. QED
    BY <1>1, <1>4, <2>1
<1>5. QED
  BY <1>3, <1>4

LEMMA SplitKeeps ==
  ASSUME WalkIInv, Walk!Split
  PROVE  WalkIInv'
<1>0. WalkTypeOK /\ LaidInv /\ StrideInv /\ CounterInv /\ Laid /\ cpc = "timed"
      /\ walk = "split" /\ at < kPages /\ rep < kReps /\ at \in Nat /\ rep \in Nat
      /\ kPages \in Nat \ {0} /\ kReps \in Nat \ {0}
  BY Geometry DEF WalkIInv, WalkTypeOK, CounterInv, Walk!Split, Laid
<1>1. UNCHANGED <<walk, software_prefetch, bytes, mem, order, entry, idx, step,
                  position, count, hint, misses_total>>
  BY DEF Walk!Split, Walk!program, Walk!passVars
<1>2. \/ at + 1 < kPages /\ at' = at + 1 /\ rep' = rep
      \/ at + 1 = kPages /\ at' = 0 /\ rep' = rep + 1
  BY <1>0 DEF Walk!Split
<1>3. cpc' = (IF rep' = kReps THEN "stop" ELSE "timed")
      /\ (cpc' \in {"stop", "timed"}) /\ at' \in Nat /\ rep' \in Nat
  BY <1>0, <1>2 DEF Walk!Split
<1>4. /\ dtlb' \in [open : BOOLEAN, enabled : BOOLEAN, value : Nat]
      /\ dtlb'.open = dtlb.open /\ dtlb'.enabled = dtlb.enabled
      /\ dtlb.open => dtlb.enabled /\ dtlb'.value = Walk!LoadsSoFar + 1
      /\ ~dtlb.open => dtlb' = dtlb
  BY <1>0, LoadCounts DEF Walk!Split
<1>5. /\ Walk!PassLength' = Walk!PassLength /\ Walk!Links' = Walk!Links
      /\ Walk!Loads' = Walk!Loads /\ Walk!Loads = kReps * kPages
  BY <1>0, <1>1, <1>3, SameSizes, WalkSizes
<1>6. WalkTypeOK'
  <2>1. step' = 0 \/ cpc' = "timed"
    <3>1. walk = "split" => step = 0
      BY <1>0 DEF WalkTypeOK
    <3>2. QED
      BY <1>0, <1>1, <3>1
  <2>2. QED
    BY <1>0, <1>1, <1>3, <1>4, <1>5, <2>1 DEF WalkTypeOK
<1>7. LaidInv'
  BY <1>0, <1>1, <1>3, LaidStays
<1>8. OnChainInv'
  BY <1>0, <1>1, <1>3, PlaceStays DEF Chained
<1>9. StrideInv'
  BY <1>0, <1>1, <1>3 DEF StrideInv, Buckets, Laid
<1>10. Walk!LoadsSoFar + 1 = rep' * kPages + at'
  <2>1. Walk!LoadsSoFar = rep * kPages + at
    BY <1>0 DEF Walk!LoadsSoFar
  <2>2. (rep + 1) * kPages = rep * kPages + kPages /\ rep * kPages \in Nat
    BY <1>0
  <2>3. QED
    BY <1>0, <1>2, <2>1, <2>2
<1>11. CounterInv'
  <2>1. Walk!LoadsSoFar' = rep' * kPages + at'
    BY <1>0, <1>1 DEF Walk!LoadsSoFar
  <2>2. rep' = kReps => at' = 0
    BY <1>0, <1>2
  <2>3. PICK k \in 0..rep : misses_total = k * Walk!Loads
    BY <1>0 DEF CounterInv, Missed
  <2>4. k \in 0..rep' /\ (rep' = kReps => k \in 0..(rep' - 1))
    BY <1>0, <1>2, <2>3
  <2>5. Missed(rep)' /\ (rep' = kReps => Missed(rep - 1)')
    BY <1>1, <1>5, <2>3, <2>4 DEF Missed
  <2>6. ~dtlb.open => ~dtlb.enabled /\ dtlb.value = 0 /\ misses_total = 0
    BY <1>0 DEF CounterInv
  <2>7. dtlb'.open => dtlb'.enabled /\ dtlb'.value = rep' * kPages + at'
    BY <1>4, <1>10
  <2>8. cpc' = "stop" => kReps * kPages + at' = kReps * kPages
    <3>1. kReps * kPages \in Nat
      BY <1>0
    <3>2. QED
      BY <1>3, <2>2, <3>1
  <2>9. cpc' = "stop" => (dtlb'.open => dtlb'.value = Walk!Loads') /\ rep' # 0
    BY <1>0, <1>3, <1>5, <2>7, <2>8
  <2>10. cpc' = "timed" => at' < kPages /\ rep' < kReps
    BY <1>0, <1>2, <1>3
  <2>11. QED
    BY <1>0, <1>1, <1>3, <1>4, <2>1, <2>5, <2>6, <2>7, <2>9, <2>10 DEF CounterInv
<1>12. QED
  BY <1>6, <1>7, <1>8, <1>9, <1>11 DEF WalkIInv

\* What one more load is to the columns.
LEMMA BucketsGrow ==
  ASSUME NEW k \in 0..(kPages * kLinesPerPage - 1)
  PROVE  LET n == kPages * kLinesPerPage
             q == k \div kLinesPerPage
             r == k % kLinesPerPage
             o == Onward(n, k)
             Full(l) == q + (IF l < r THEN 1 ELSE 0) + (IF l = r THEN 1 ELSE 0)
         IN  /\ (r + 1) % kLinesPerPage = o % kLinesPerPage
             /\ k + 1 < n => \A l \in Walk!LineIds :
                  Full(l) = (o \div kLinesPerPage) +
                            (IF l < o % kLinesPerPage THEN 1 ELSE 0)
             /\ k + 1 = n => \A l \in Walk!LineIds : Full(l) = kPages
             /\ o % kLinesPerPage # 0 => Entrance(o) = Entrance(k)
             /\ o % kLinesPerPage = 0 => o = Entrance(k)
<1> DEFINE m == kLinesPerPage
           n == kPages * kLinesPerPage
           q == k \div m
           r == k % m
           o == Onward(n, k)
           d == o \div m
           e == o % m
<1>1. /\ m \in Nat \ {0} /\ kPages \in Nat \ {0} /\ n \in Nat \ {0}
      /\ Walk!LineIds = 0..(m - 1) /\ Walk!LastLine = m - 1
      /\ k \in 0..(n - 1)
  BY Geometry
<1>2. /\ q \in 0..(kPages - 1) /\ r \in 0..(m - 1)
      /\ o \in 0..(n - 1)
      /\ r # m - 1 => d = q /\ e = r + 1
      /\ r = m - 1 => o = Entrance(k)
      /\ Entrance(k) \div m = Onward(kPages, q) /\ Entrance(k) % m = 0
  BY <1>1, NextPlace
<1>3. Entrance(k) = Onward(kPages, q) * m /\ Entrance(o) = Onward(kPages, d) * m
  BY DEF Entrance
<1>4. o = IF k + 1 = n THEN 0 ELSE k + 1
  BY DEF Onward
<1>5. r = m - 1 => d = Onward(kPages, q) /\ e = 0
  BY <1>2
<1>6. k + 1 = n => d = 0 /\ e = 0
  <2>1. 0 \div m = 0 /\ 0 % m = 0
    BY <1>1
  <2>2. QED
    BY <1>4, <2>1
<1>7. k + 1 # n => Onward(kPages, q) = q + 1 \/ r # m - 1
  <2>1. SUFFICES ASSUME k + 1 # n, r = m - 1
                 PROVE  Onward(kPages, q) = q + 1
    OBVIOUS
  <2>2. o = k + 1 /\ o = Onward(kPages, q) * m
    BY <1>2, <1>3, <1>4, <2>1
  <2>3. Onward(kPages, q) # 0
    <3>1. 0 * m = 0 /\ k + 1 # 0
      BY <1>1
    <3>2. QED
      BY <2>2, <3>1
  <2>4. QED
    BY <2>3 DEF Onward
<1>8. (r + 1) % m = e
  <2>1. r = m - 1 => (r + 1) % m = 0
    BY <1>1, <1>2
  <2>2. r # m - 1 => (r + 1) % m = r + 1
    BY <1>1, <1>2
  <2>3. QED
    BY <1>2, <1>5, <2>1, <2>2
<1> HIDE DEF n, q, r, o, d, e
<1>9. k + 1 = n => r = m - 1 /\ q + 1 = kPages
  <2>1. k + 1 = n => r = m - 1
    BY <1>1, <1>2, <1>6
  <2>2. k + 1 = n => Onward(kPages, q) = 0
    BY <1>5, <1>6, <2>1
  <2>3. QED
    BY <1>2, <2>1, <2>2 DEF Onward
<1>10. k + 1 < n => \A l \in Walk!LineIds :
         q + (IF l < r THEN 1 ELSE 0) + (IF l = r THEN 1 ELSE 0) =
           d + (IF l < e THEN 1 ELSE 0)
  <2>1. SUFFICES ASSUME k + 1 < n, NEW l \in Walk!LineIds
                 PROVE  q + (IF l < r THEN 1 ELSE 0) + (IF l = r THEN 1 ELSE 0) =
                          d + (IF l < e THEN 1 ELSE 0)
    OBVIOUS
  <2>2. k + 1 # n /\ l \in Nat /\ l <= m - 1
    BY <1>1, <2>1
  <2>3. CASE r = m - 1
    <3>1. d = q + 1 /\ e = 0
      BY <1>5, <1>7, <2>2, <2>3
    <3>2. QED
      BY <1>1, <1>2, <2>2, <2>3, <3>1
  <2>4. CASE r # m - 1
    <3>1. d = q /\ e = r + 1
      BY <1>2, <2>4
    <3>2. QED
      BY <1>1, <1>2, <2>2, <3>1
  <2>5. QED
    BY <2>3, <2>4
<1>11. k + 1 = n => \A l \in Walk!LineIds :
         q + (IF l < r THEN 1 ELSE 0) + (IF l = r THEN 1 ELSE 0) = kPages
  BY <1>1, <1>2, <1>9
<1>12. e # 0 => Entrance(o) = Entrance(k)
  BY <1>2, <1>3, <1>5
<1>13. e = 0 => o = Entrance(k)
  BY <1>1, <1>2
<1>14. QED
  BY <1>8, <1>10, <1>11, <1>12, <1>13 DEF n, q, r, o, d, e


\* A timed load of a chain.
LEMMA TimedGoesOn ==
  ASSUME WalkIInv, Walk!Timed
  PROVE  /\ UNCHANGED <<walk, software_prefetch, bytes, mem, order, entry, at, misses_total>>
         /\ cpc = "timed" /\ walk # "split" /\ Laid /\ Chained
         /\ idx' = Walk!Follow(idx)
         /\ \/ /\ step + 1 = Walk!PassLength /\ step' = 0 /\ rep' = rep + 1
               /\ cpc' = IF walk = "one_page" THEN "unmap" ELSE "stop"
            \/ /\ step + 1 < Walk!PassLength /\ step' = step + 1 /\ rep' = rep
               /\ cpc' = "timed"
<1>1. cpc = "timed" /\ walk # "split" /\ Laid /\ Chained
  BY DEF Walk!Timed, Laid, Chained
<1>2. step \in Nat /\ step < Walk!PassLength /\ Walk!PassLength \in Nat \ {0}
  BY <1>1, WalkSizes DEF WalkIInv, WalkTypeOK
<1>3. QED
  BY <1>1, <1>2 DEF Walk!Timed, Walk!PassEnds, Walk!program

LEMMA TimedTypes ==
  ASSUME WalkIInv, Walk!Timed
  PROVE  WalkTypeOK' /\ LaidInv'
<1>0. WalkTypeOK /\ LaidInv /\ CounterInv
  BY DEF WalkIInv
<1>1. /\ UNCHANGED <<walk, software_prefetch, bytes, mem, order, entry, at, misses_total>>
      /\ cpc = "timed" /\ walk # "split" /\ Laid
      /\ \/ /\ step + 1 = Walk!PassLength /\ step' = 0 /\ rep' = rep + 1
            /\ cpc' = IF walk = "one_page" THEN "unmap" ELSE "stop"
         \/ /\ step + 1 < Walk!PassLength /\ step' = step + 1 /\ rep' = rep
            /\ cpc' = "timed"
  BY TimedGoesOn
<1>2. cpc' \in {"timed", "stop", "unmap"} /\ (cpc' = "stop" => walk # "one_page")
  BY <1>1
<1>3. Walk!PassLength' = Walk!PassLength /\ Walk!Links' = Walk!Links
      /\ Walk!PassLength \in Nat \ {0}
  BY <1>0, <1>1, <1>2, SameSizes, WalkSizes
<1>4. step' \in Nat /\ rep' \in Nat /\ (cpc' = "timed" => step' < Walk!PassLength')
      /\ (cpc' # "timed" => step' = 0)
  BY <1>0, <1>1, <1>3 DEF WalkTypeOK
<1>5. dtlb' \in [open : BOOLEAN, enabled : BOOLEAN, value : Nat]
  BY <1>0, <1>1, LoadCounts DEF Walk!Timed
<1>6. position' \in Walk!LineIds
  <2>1. position \in Walk!LineIds /\ Walk!LineIds = 0..(kLinesPerPage - 1)
        /\ kLinesPerPage \in Nat \ {0}
    BY <1>0, Geometry DEF WalkTypeOK
  <2>2. (position + 1) % kLinesPerPage \in 0..(kLinesPerPage - 1)
    BY <2>1
  <2>3. QED
    BY <2>1, <2>2 DEF Walk!Timed
<1>7. count' \in [Walk!LineIds -> Nat]
  <2>1. count \in [Walk!LineIds -> Nat]
    BY <1>0 DEF WalkTypeOK
  <2>2. count' = count \/ count' = [count EXCEPT ![Walk!Bucket] = count[Walk!Bucket] + 1]
    BY DEF Walk!Timed
  <2>3. Walk!Bucket \in Walk!LineIds => count[Walk!Bucket] + 1 \in Nat
    BY <2>1
  <2>4. QED
    BY <2>1, <2>2, <2>3
<1>8. WalkTypeOK'
  BY <1>0, <1>1, <1>2, <1>3, <1>4, <1>5, <1>6, <1>7 DEF WalkTypeOK
<1>9. LaidInv'
  BY <1>0, <1>1, <1>2, LaidStays
<1>10. QED
  BY <1>8, <1>9

LEMMA TimedCounts ==
  ASSUME WalkIInv, Walk!Timed
  PROVE  CounterInv'
<1>0. WalkTypeOK /\ CounterInv
  BY DEF WalkIInv
<1>1. /\ UNCHANGED <<walk, at, misses_total>>
      /\ cpc = "timed" /\ walk # "split"
      /\ \/ /\ step + 1 = Walk!PassLength /\ step' = 0 /\ rep' = rep + 1
            /\ cpc' = IF walk = "one_page" THEN "unmap" ELSE "stop"
         \/ /\ step + 1 < Walk!PassLength /\ step' = step + 1 /\ rep' = rep
            /\ cpc' = "timed"
  BY TimedGoesOn
<1>2. cpc' \in {"timed", "stop", "unmap"} /\ (cpc' = "unmap" => walk = "one_page")
  BY <1>1
<1>3. /\ Walk!Loads' = Walk!Loads /\ Walk!Loads = Walk!PassLength /\ rep \in Nat
  BY <1>0, <1>1, <1>2, SameSizes, WalkSizes DEF WalkTypeOK
<1>4. /\ dtlb'.open = dtlb.open /\ dtlb'.enabled = dtlb.enabled
      /\ dtlb.open => dtlb.enabled /\ dtlb'.value = Walk!LoadsSoFar + 1
      /\ ~dtlb.open => dtlb' = dtlb
  BY <1>0, <1>1, LoadCounts DEF Walk!Timed
<1>5. Walk!LoadsSoFar = step /\ Walk!LoadsSoFar' = step'
  BY <1>1 DEF Walk!LoadsSoFar
<1>6. /\ cpc' = "timed" /\ dtlb'.open => dtlb'.enabled /\ dtlb'.value = Walk!LoadsSoFar'
      /\ cpc' = "stop" => (dtlb'.open => dtlb'.value = Walk!Loads')
  BY <1>1, <1>3, <1>4, <1>5
<1>7. Missed(rep)' /\ (cpc' = "stop" => rep' # 0 /\ Missed(rep - 1)')
  <2>1. PICK k \in 0..rep : misses_total = k * Walk!Loads
    BY <1>0, <1>1 DEF CounterInv, Missed
  <2>2. k \in 0..rep' /\ (cpc' = "stop" => rep' # 0 /\ k \in 0..(rep' - 1))
    BY <1>1, <1>3, <2>1
  <2>3. QED
    BY <1>1, <1>3, <2>1, <2>2 DEF Missed
<1>8. walk = "one_page" => dtlb' = Walk!Closed
  BY <1>0, <1>4 DEF CounterInv, Walk!Closed
<1>9. ~dtlb'.open => ~dtlb'.enabled /\ dtlb'.value = 0 /\ misses_total' = 0
  BY <1>0, <1>1, <1>4 DEF CounterInv
<1>10. cpc' = "unmap" => ~dtlb'.enabled
  BY <1>2, <1>8 DEF Walk!Closed
<1>11. QED
  BY <1>1, <1>2, <1>6, <1>7, <1>8, <1>9, <1>10 DEF CounterInv

\* Where the load went, the hint, and the column it is counted in.
LEMMA TimedPlaces ==
  ASSUME WalkIInv, Walk!Timed
  PROVE  OnChainInv' /\ StrideInv'
<1>0. WalkTypeOK /\ LaidInv /\ StrideInv
  BY DEF WalkIInv
<1>1. /\ UNCHANGED <<walk, software_prefetch, bytes, mem, order, entry, at, misses_total>>
      /\ cpc = "timed" /\ walk # "split" /\ Laid /\ Chained
      /\ idx' = Walk!Follow(idx)
      /\ \/ /\ step + 1 = Walk!PassLength /\ step' = 0
            /\ cpc' = IF walk = "one_page" THEN "unmap" ELSE "stop"
         \/ /\ step + 1 < Walk!PassLength /\ step' = step + 1
            /\ cpc' = "timed"
  BY TimedGoesOn
<1>2. cpc' \in {"timed", "stop", "unmap"}
  BY <1>1
<1>3. PICK g \in LineOrders : /\ LinkedUpTo(g, LinksDone, PatchesDone)
                              /\ \E k \in 0..(Around - 1) : IsAt(g, k)
  BY <1>1 DEF WalkIInv, OnChainInv
<1>4. PICK k \in 0..(Around - 1) : IsAt(g, k)
  BY <1>3
<1>5. /\ Around' = Around /\ Chain(g)' = Chain(g)
      /\ LinkedUpTo(g, LinksDone, PatchesDone)'
  BY <1>0, <1>1, <1>2, <1>3, ChainStays
<1> DEFINE o == Onward(Around, k)
<1>6. o \in 0..(Around - 1) /\ idx' = Chain(g)[o]
  BY <1>1, <1>3, <1>4, OneOnward
<1>7. step \in Nat /\ Around \in Nat \ {0} /\ Walk!PassLength \in Nat \ {0}
  BY <1>0, WalkSizes DEF WalkTypeOK
<1>8. Buckets => /\ k = step /\ Walk!PassLength = Around /\ o = step'
                 /\ Around = kPages * kLinesPerPage
  <2>1. SUFFICES ASSUME Buckets
                 PROVE  /\ k = step /\ Walk!PassLength = Around /\ o = step'
                        /\ Around = kPages * kLinesPerPage
    OBVIOUS
  <2>2. k = step /\ Walk!PassLength = Around
    BY <1>0, <1>4, <2>1, WalkSizes DEF IsAt
  <2>3. Around = kPages * kLinesPerPage
    BY <1>0, <1>1, <1>3, <2>1, GridCells
  <2>4. o = step'
    BY <1>1, <1>7, <2>2 DEF Onward
  <2>5. QED
    BY <2>2, <2>3, <2>4
<1>9. Buckets => /\ (k % kLinesPerPage) \in Walk!LineIds
                 /\ walk = "comb" =>
                      (idx % Walk!kPageSize) \div kLine = k % kLinesPerPage
                 /\ walk = "ring" /\ k % kLinesPerPage = 0 =>
                      mem[idx + 2] = Chain(g)[Entrance(k)]
  <2>1. SUFFICES ASSUME Buckets
                 PROVE  /\ (k % kLinesPerPage) \in Walk!LineIds
                        /\ walk = "comb" =>
                             (idx % Walk!kPageSize) \div kLine = k % kLinesPerPage
                        /\ walk = "ring" /\ k % kLinesPerPage = 0 =>
                             mem[idx + 2] = Chain(g)[Entrance(k)]
    OBVIOUS
  <2>2. idx = Chain(g)[k]
    BY <1>4 DEF IsAt
  <2>3. LinksDone = kPages /\ PatchesDone = kPages
    BY <1>0, <1>1, <2>1, WalkSizes DEF LinksDone, PatchesDone, Buckets
  <2>4. LinkedUpTo(g, kPages, kPages)
    BY <1>3, <2>3
  <2>5. QED
    BY <1>0, <1>1, <2>1, <2>2, <2>4, GridPlaces
<1>10. Buckets =>
         /\ ((k % kLinesPerPage) + 1) % kLinesPerPage = o % kLinesPerPage
         /\ step + 1 < Walk!PassLength => \A l \in Walk!LineIds :
              (k \div kLinesPerPage) + (IF l < k % kLinesPerPage THEN 1 ELSE 0)
                + (IF l = k % kLinesPerPage THEN 1 ELSE 0) =
              (o \div kLinesPerPage) + (IF l < o % kLinesPerPage THEN 1 ELSE 0)
         /\ step + 1 = Walk!PassLength => \A l \in Walk!LineIds :
              (k \div kLinesPerPage) + (IF l < k % kLinesPerPage THEN 1 ELSE 0)
                + (IF l = k % kLinesPerPage THEN 1 ELSE 0) = kPages
         /\ o % kLinesPerPage # 0 => Entrance(o) = Entrance(k)
         /\ o % kLinesPerPage = 0 => o = Entrance(k)
  <2>1. SUFFICES ASSUME Buckets
                 PROVE  <1>10!2
    OBVIOUS
  <2>2. QED
    BY <1>8, <2>1, BucketsGrow
<1>11. walk = "ring" => position = k % kLinesPerPage
  BY <1>0, <1>1, <1>8 DEF StrideInv, Buckets
<1>12. Buckets => \A l \in Walk!LineIds :
         count'[l] = (k \div kLinesPerPage) + (IF l < k % kLinesPerPage THEN 1 ELSE 0)
                       + (IF l = k % kLinesPerPage THEN 1 ELSE 0)
  <2>1. SUFFICES ASSUME Buckets, NEW l \in Walk!LineIds
                 PROVE  count'[l] = (k \div kLinesPerPage)
                          + (IF l < k % kLinesPerPage THEN 1 ELSE 0)
                          + (IF l = k % kLinesPerPage THEN 1 ELSE 0)
    OBVIOUS
  <2>2. Walk!Bucket = k % kLinesPerPage
    BY <1>9, <1>11, <2>1 DEF Walk!Bucket, Buckets
  <2>3. count \in [Walk!LineIds -> Nat]
        /\ count' = [count EXCEPT ![Walk!Bucket] = count[Walk!Bucket] + 1]
    BY <1>0, <2>1 DEF WalkTypeOK, Walk!Timed, Walk!Counts, Buckets
  <2>4. count'[l] = count[l] + (IF l = Walk!Bucket THEN 1 ELSE 0)
    BY <2>3
  <2>5. count[l] = (step \div kLinesPerPage) + (IF l < step % kLinesPerPage THEN 1 ELSE 0)
    BY <1>0, <1>1, <2>1 DEF StrideInv
  <2>6. k = step
    BY <1>8, <2>1
  <2>7. QED
    BY <2>2, <2>4, <2>5, <2>6
<1>13. walk = "ring" /\ hint' # -1 => hint' = Chain(g)[Entrance(k)]
  <2>1. SUFFICES ASSUME walk = "ring", hint' # -1
                 PROVE  hint' = Chain(g)[Entrance(k)]
    OBVIOUS
  <2>2. software_prefetch
    BY <1>0, <2>1 DEF StrideInv, Walk!Timed
  <2>3. hint' = IF position = 0 THEN mem[idx + 2] ELSE hint
    BY <2>2 DEF Walk!Timed, Walk!Word
  <2>4. CASE position = 0
    BY <1>9, <1>11, <2>1, <2>3, <2>4 DEF Buckets
  <2>5. CASE position # 0
    BY <1>4, <1>11, <2>1, <2>3, <2>5 DEF IsAt
  <2>6. QED
    BY <2>4, <2>5
<1>14. walk = "ring" /\ hint' # -1 =>
         hint' = Chain(g)[IF o % kLinesPerPage = 0 THEN o ELSE Entrance(o)]
  BY <1>10, <1>13 DEF Buckets
<1>15. IsAt(g, o)'
  BY <1>1, <1>5, <1>6, <1>8, <1>14 DEF IsAt, Buckets, Entrance
<1>16. OnChainInv'
  BY <1>5, <1>6, <1>15 DEF OnChainInv
<1>17. StrideInv'
  <2>1. ~software_prefetch' => hint' = -1
    BY <1>0, <1>1 DEF StrideInv, Walk!Timed
  <2>2. walk = "ring" => position' = step' % kLinesPerPage
    BY <1>8, <1>10, <1>11 DEF Walk!Timed, Buckets
  <2>3. /\ cpc' = "timed" /\ Buckets => \A l \in Walk!LineIds :
             count'[l] = (step' \div kLinesPerPage) +
                         (IF l < step' % kLinesPerPage THEN 1 ELSE 0)
        /\ cpc' = "stop" /\ Buckets => \A l \in Walk!LineIds : count'[l] = kPages
    BY <1>1, <1>8, <1>10, <1>12
  <2>4. QED
    BY <1>1, <2>1, <2>2, <2>3 DEF StrideInv, Buckets
<1>18. QED
  BY <1>16, <1>17

LEMMA WalkStep ==
  ASSUME WalkIInv, Walk!Next
  PROVE  WalkIInv'
<1>1. CASE Walk!Timed
  BY <1>1, TimedTypes, TimedCounts, TimedPlaces DEF WalkIInv
<1>2. CASE \E lines \in Walk!Orders(kLinesPerPage) : Walk!LinkRing(lines)
  BY <1>2, LinkRingKeeps
<1>3. QED
  BY <1>1, <1>2, WalkMapKeeps, LinkLineKeeps, LinkPageKeeps, LinkCombKeeps, PatchKeeps,
     WarmKeeps, OpenKeeps, SplitKeeps, StopKeeps, UnmapKeeps DEF Walk!Next

LEMMA WalkIsTrue ==
  ASSUME WalkIInv
  PROVE  Walk!OneRing /\ Walk!InStep /\ Walk!MissesOfPasses
<1>0. WalkTypeOK /\ LaidInv /\ OnChainInv /\ StrideInv /\ CounterInv
  BY DEF WalkIInv
<1>1. ASSUME Chained \/ (cpc \in {"warm", "timed"} /\ walk # "split")
      PROVE  \E g \in LineOrders, k \in 0..(Around - 1) :
               /\ LinkedUpTo(g, Walk!Links, kPages)
               /\ IsAt(g, k) /\ idx = Chain(g)[k]
               /\ IsRing(Chain(g), Around)
  <2>1. Chained /\ Laid /\ walk # "split" /\ cpc \notin {"link", "patch"}
    BY <1>1 DEF Chained, Laid
  <2>2. PICK g \in LineOrders : /\ LinkedUpTo(g, LinksDone, PatchesDone)
                                /\ \E k \in 0..(Around - 1) : IsAt(g, k)
    BY <1>0, <2>1 DEF OnChainInv
  <2>3. PICK k \in 0..(Around - 1) : IsAt(g, k)
    BY <2>2
  <2>4. LinkedUpTo(g, Walk!Links, kPages)
    BY <2>1, <2>2 DEF LinksDone, PatchesDone
  <2>5. IsRing(Chain(g), Around)
    BY <1>0, <2>1, <2>4, ChainIsRing
  <2>6. QED
    BY <2>3, <2>4, <2>5 DEF IsAt
<1>2. Walk!OneRing
  <2>1. ASSUME Walk!Walking
        PROVE  /\ idx \in Walk!Cells
               /\ Walk!Range(Walk!Orbit) = Walk!Cells
               /\ Walk!Orbit[Walk!Cardinality(Walk!Cells)] = idx
    <3>1. cpc \in {"warm", "timed"} /\ walk # "split"
      BY <2>1 DEF Walk!Walking
    <3>2. PICK g \in LineOrders, k \in 0..(Around - 1) :
                 idx = Chain(g)[k] /\ IsRing(Chain(g), Around)
      BY <1>1, <3>1
    <3>3. Around \in Nat \ {0}
      BY <1>0, WalkSizes
    <3>4. QED
      BY <3>2, <3>3, RingWalked
  <2>2. ASSUME cpc = "timed", walk = "split"
        PROVE  Walk!SplitAddress + Walk!Word <= bytes
    <3>1. idx \in Walk!Offsets /\ bytes = Walk!RegionBytes
      BY <1>0, <2>2 DEF StrideInv, LaidInv, Laid
    <3>2. at \in Nat /\ at + 1 <= kPages /\ kPages \in Nat
      BY <1>0, <2>2, Geometry DEF CounterInv, WalkTypeOK
    <3>3. /\ kLine \in Nat /\ kLine >= 4 /\ kLinesPerPage \in Nat \ {0}
          /\ Walk!kPageSize = kLine * kLinesPerPage
      BY Geometry DEF Walk!kPageSize
    <3>4. Walk!kPageSize \in Nat /\ Walk!kPageSize >= kLine
      <4>1. \A x, y \in Nat : y # 0 => x * y \in Nat /\ x * y >= x
        OBVIOUS
      <4>2. QED
        BY <3>3, <4>1
    <3>5. Walk!RegionBytes = (kPages + 1) * Walk!kPageSize
      BY <2>2 DEF Walk!RegionBytes, Walk!SplitBytes
    <3>6. /\ (at + 1) * Walk!kPageSize <= kPages * Walk!kPageSize
          /\ (at + 1) * Walk!kPageSize = (at * Walk!kPageSize) + Walk!kPageSize
          /\ (kPages + 1) * Walk!kPageSize = (kPages * Walk!kPageSize) + Walk!kPageSize
          /\ at * Walk!kPageSize \in Nat /\ kPages * Walk!kPageSize \in Nat
      BY <3>2, <3>4
    <3>7. idx \in Int /\ idx <= Walk!kPageSize - 1
      BY <3>1, <3>3, <3>4 DEF Walk!Offsets
    <3>8. QED
      BY <3>1, <3>3, <3>4, <3>5, <3>6, <3>7 DEF Walk!SplitAddress, Walk!Word
  <2>3. QED
    BY <2>1, <2>2 DEF Walk!OneRing
<1>3. Walk!InStep
  <2>1. ASSUME cpc = "timed", walk = "ring"
        PROVE  /\ position = 0 <=> idx \in Walk!Range(entry)
               /\ software_prefetch /\ position = 0 /\ hint # -1 => hint = idx
    <3>1. PICK g \in LineOrders, k \in 0..(Around - 1) :
                 LinkedUpTo(g, Walk!Links, kPages) /\ IsAt(g, k) /\ idx = Chain(g)[k]
      BY <1>1, <2>1
    <3>2. Walk!Links = kPages /\ Buckets /\ Laid
      BY <1>0, <2>1, WalkSizes DEF Buckets, Laid
    <3>3. k = step /\ position = k % kLinesPerPage
      BY <1>0, <2>1, <3>1, <3>2 DEF IsAt, StrideInv
    <3>4. idx \in Walk!Range(entry) <=> k % kLinesPerPage = 0
      BY <1>0, <2>1, <3>1, <3>2, GridPlaces
    <3>5. position = 0 /\ hint # -1 => hint = idx
      BY <2>1, <3>1, <3>3 DEF IsAt
    <3>6. QED
      BY <3>3, <3>4, <3>5
  <2>2. cpc = "stop" /\ Walk!Counts => \A l \in Walk!LineIds : count[l] = kPages
    BY <1>0 DEF StrideInv, Walk!Counts, Buckets
  <2>3. QED
    BY <2>1, <2>2 DEF Walk!InStep
<1>4. Walk!MissesOfPasses
  BY <1>0 DEF CounterInv, Missed, Walk!MissesOfPasses
<1>5. QED
  BY <1>2, <1>3, <1>4

LEMMA WalkStays ==
  ASSUME WalkIInv, UNCHANGED walkVars
  PROVE  WalkIInv'
<1>0. WalkTypeOK /\ LaidInv /\ OnChainInv /\ StrideInv /\ CounterInv
  BY DEF WalkIInv
<1>1. UNCHANGED <<walk, software_prefetch, cpc, bytes, mem, order, entry, at, idx, step, rep,
                  position, count, hint, dtlb, misses_total>>
  BY DEF walkVars
<1>2. /\ Walk!Links' = Walk!Links /\ Walk!RegionBytes' = Walk!RegionBytes
      /\ Around' = Around
      /\ Walk!PassLength' = Walk!PassLength /\ Walk!Loads' = Walk!Loads
  BY <1>1, SameSizes
<1>3. WalkTypeOK' /\ LaidInv'
  BY <1>0, <1>1, <1>2 DEF WalkTypeOK, LaidInv, Laid
<1>4. StrideInv'
  BY <1>0, <1>1 DEF StrideInv, Laid, Buckets
<1>5. OnChainInv'
  BY <1>0, <1>1, <1>2 DEF OnChainInv, LinkedUpTo, RingPage, LinksDone, PatchesDone, Laid, Chained,
     Chain, Cell, IsAt, Buckets, Walk!After, Walk!Page
<1>6. CounterInv'
  BY <1>0, <1>1, <1>2 DEF CounterInv, Missed, Walk!LoadsSoFar, Walk!Closed
<1>7. QED
  BY <1>3, <1>4, <1>5, <1>6 DEF WalkIInv

-----------------------------------------------------------------------------
(* The four together: one of them steps, the others stay.                    *)

IInv == WalkIInv /\ CountersIInv /\ WorkersIInv /\ MutexIInv

LEMMA InitInv == Init => IInv
  BY WalkInit, CountersInit, WorkersInit, MutexInit DEF Init, IInv

LEMMA MutexStays ==
  ASSUME MutexIInv, UNCHANGED mutexVars
  PROVE  MutexIInv'
BY DEF mutexVars, MutexIInv, MutexTypeOK, MutexInv

LEMMA CountersStay ==
  ASSUME CountersIInv, UNCHANGED counterVars
  PROVE  CountersIInv'
<1>1. UNCHANGED <<fpc, what, threads, stride, pool, joined, run, calls, store, tpc, i, loaded,
                  sink, due>>
  BY DEF counterVars
<1>2. Counters!Target' = Counters!Target /\ Counters!Iterations' = Counters!Iterations
  BY <1>1 DEF Counters!Target, Counters!Iterations
<1>3. \A t : (Counting(t)' <=> Counting(t)) /\ Place(t)' = Place(t)
  BY <1>1 DEF Counting, Place
<1>4. CountersTypeOK' /\ ThreadsInv'
  BY <1>1, <1>2 DEF CountersIInv, CountersTypeOK, ThreadsInv
<1>5. CountersInv'
  BY <1>1, <1>2, <1>3 DEF CountersIInv, CountersInv
<1>6. QED
  BY <1>4, <1>5 DEF CountersIInv

LEMMA WorkersStay ==
  ASSUME WorkersIInv, UNCHANGED workerVars
  PROVE  WorkersIInv'
<1>1. UNCHANGED <<mpc, with_disruptor, worker_pages, go, stop, started, total, wpc, b,
                  touched, samples, dpc, off, worker_mem, churn>>
  BY DEF workerVars
<1>2. WorkersTypeOK' /\ OrderInv' /\ MemoryInv' /\ CountInv'
  BY <1>1 DEF WorkersIInv, WorkersTypeOK, OrderInv, MemoryInv, CountInv, Begun, Joined,
     Mapped, Cells
<1>3. TouchesInv'
  BY <1>1, TouchesKept DEF WorkersIInv, Mapped
<1>4. QED
  BY <1>2, <1>3 DEF WorkersIInv

LEMMA StepInv == IInv /\ [Next]_vars => IInv'
<1> SUFFICES ASSUME IInv, [Next]_vars
             PROVE  IInv'
  OBVIOUS
<1>0. WalkIInv /\ CountersIInv /\ WorkersIInv /\ MutexIInv
  BY DEF IInv
<1>1. CASE Walks
  <2>1. WalkIInv'
    BY <1>0, <1>1, WalkStep DEF Walks
  <2>2. CountersIInv' /\ WorkersIInv' /\ MutexIInv'
    BY <1>0, <1>1, CountersStay, WorkersStay, MutexStays DEF Walks
  <2>3. QED
    BY <2>1, <2>2 DEF IInv
<1>2. CASE Counts
  <2>1. CountersIInv'
    BY <1>0, <1>2, CountersStep DEF Counts
  <2>2. WalkIInv' /\ WorkersIInv' /\ MutexIInv'
    BY <1>0, <1>2, WalkStays, WorkersStay, MutexStays DEF Counts
  <2>3. QED
    BY <2>1, <2>2 DEF IInv
<1>3. CASE RunsWorkers
  <2>1. WorkersIInv'
    BY <1>0, <1>3, WorkersStep DEF RunsWorkers
  <2>2. WalkIInv' /\ CountersIInv' /\ MutexIInv'
    BY <1>0, <1>3, WalkStays, CountersStay, MutexStays DEF RunsWorkers
  <2>3. QED
    BY <2>1, <2>2 DEF IInv
<1>4. CASE ReadsUnderMutex
  <2>1. MutexIInv'
    BY <1>0, <1>4, MutexStep DEF ReadsUnderMutex
  <2>2. WalkIInv' /\ CountersIInv' /\ WorkersIInv'
    BY <1>0, <1>4, WalkStays, CountersStay, WorkersStay DEF ReadsUnderMutex
  <2>3. QED
    BY <2>1, <2>2 DEF IInv
<1>5. CASE UNCHANGED vars
  BY <1>0, <1>5, WalkStays, CountersStay, WorkersStay, MutexStays DEF vars, IInv
<1>6. QED
  BY <1>1, <1>2, <1>3, <1>4, <1>5 DEF Next

\* Whatever is measured, the chain of a walk is laid as it should be, and the
\* threads of run_workers() and measure*() and the holders of J3's mutex are
\* where their counts say.
THEOREM Inductive == Spec => []IInv
BY InitInv, StepInv, PTL DEF Spec

\* I2 to I5: a walk goes round every line or page of its region and stays in it,
\* for any geometry, any number of pages and passes and whatever the shuffles;
\* every time is put down to the place in the page where the load was made, a
\* hint is where ring will enter the next page, and the misses reported are those
\* of whole timed passes.
THEOREM EveryWalkIsTrue == Spec => []WalksTrue
<1>1. IInv => WalksTrue
  BY WalkIsTrue DEF IInv, WalksTrue
<1>2. QED
  BY <1>1, Inductive, PTL

\* I1 and J3: no thread loses an increment in any layout of the counters, for
\* any number of threads, iterations and words in a line, and a read under the
\* mutex is one whole update, and the last, whatever its number of words.
THEOREM NoIncrementLostNoReadTorn == Spec => []NothingLostOrTorn
<1>1. IInv => NothingLostOrTorn
  BY NothingIsLost, MutexWhole DEF IInv, NothingLostOrTorn
<1>2. QED
  BY <1>1, Inductive, PTL

\* I2: each of any number of workers makes all the touches of all its batches,
\* on mapped pages of its own, beside the others and the disruptor.
THEOREM EveryWorkerRunsInFull == Spec => []WorkersRunInFull
<1>1. IInv => WorkersRunInFull
  BY RunInFull DEF IInv, WorkersRunInFull
<1>2. QED
  BY <1>1, Inductive, PTL

\* J3, I1 and I2: a thread waits at a join, a mutex or the starting flag, and
\* whoever it waits for has steps left that wait for nobody.  A worker that is
\* joined has been let go; the disruptor is joined when it has been told to stop;
\* a thread of a counter that is joined is in its loop; and the mutex is held
\* only by a thread that is between two words.  So no part of a measurement can
\* come to a standstill, whatever the number of threads.
WaitedForGoesOn ==
  /\ mpc = "join" /\ ~Workers!Joinable(started) =>
       go /\ wpc[started] \in {"wait", "batch"}
  /\ mpc = "join_disruptor" /\ with_disruptor /\ dpc # "returned" =>
       go /\ stop /\ dpc \in {"wait", "check", "drop", "touch"}
  /\ fpc = "join" /\ joined < threads /\ ~Counters!Joinable =>
       tpc[joined] \in {"loop", "store"}
  /\ m_ = "writer" => wi \in 1..kWords
  /\ m_ = "reader" => ri \in 1..kWords

THEOREM NoStandstill == Spec => []WaitedForGoesOn
<1>1. ASSUME IInv PROVE WaitedForGoesOn
  <2>0. /\ CountersTypeOK /\ ThreadsInv
        /\ WorkersTypeOK /\ OrderInv
        /\ MutexTypeOK /\ MutexInv
    BY <1>1 DEF IInv, CountersIInv, WorkersIInv, MutexIInv
  <2>1. ASSUME mpc = "join", ~Workers!Joinable(started)
        PROVE  go /\ wpc[started] \in {"wait", "batch"}
    <3>1. started \in Workers!Workers /\ Begun(started)
      BY <2>0, <2>1, WorkersConstants DEF OrderInv, WorkersTypeOK, Workers!Workers, Begun
    <3>2. QED
      BY <2>0, <2>1, <3>1 DEF OrderInv, WorkersTypeOK, Workers!Joinable
  <2>2. ASSUME mpc = "join_disruptor", with_disruptor, dpc # "returned"
        PROVE  go /\ stop /\ dpc \in {"wait", "check", "drop", "touch"}
    BY <2>0, <2>2 DEF OrderInv, WorkersTypeOK
  <2>3. ASSUME fpc = "join", joined < threads, ~Counters!Joinable
        PROVE  tpc[joined] \in {"loop", "store"}
    <3>1. joined \in Counters!Threads
      BY <2>0, <2>3, Layout DEF CountersTypeOK, Counters!Threads
    <3>2. QED
      BY <2>0, <2>3, <3>1 DEF CountersTypeOK, ThreadsInv, Counters!Joinable
  <2>4. (m_ = "writer" => wi \in 1..kWords) /\ (m_ = "reader" => ri \in 1..kWords)
    BY <2>0, WordsAreThere DEF MutexTypeOK, MutexInv
  <2>5. QED
    BY <2>1, <2>2, <2>3, <2>4 DEF WaitedForGoesOn
<1>2. QED
  BY <1>1, Inductive, PTL

-----------------------------------------------------------------------------
(* H1 and H2.  Where the program is tells which cells hold an object.        *)

Blocks == Lifetime!Cells

LifetimeTypeOK ==
  /\ task \in {"storage", "block", "all", "tagged", "value"}
  /\ cell \in [Blocks -> {"raw", "live", "lost"}]
  /\ built \in 0..N
  /\ live \in Nat
  /\ kind \in Lifetime!Kinds /\ active \in Lifetime!Kinds /\ setting \in Lifetime!Kinds

\* The first n cells hold an object, the others none.
Prefix(n) == \A c \in Blocks : cell[c] = IF c < n THEN "live" ELSE "raw"
One(q) == IF q THEN 1 ELSE 0

LifetimeInv ==
  /\ task = "storage" => /\ pc \in {"start", "use", "returned"}
                         /\ Prefix(One(pc = "use"))
  /\ task = "block" => /\ pc \in {"start", "down", "returned"}
                       /\ Prefix(built)
                       /\ pc = "returned" => built = 0
  /\ task = "all" => /\ pc \in {"start", "build", "unwind", "returned"}
                     /\ Prefix(live)
                     /\ IF pc \in {"build", "unwind"} THEN live = built ELSE live = 0
  /\ task = "tagged" => /\ pc \in {"start", "clear", "write", "tag", "returned"}
                        /\ pc \in {"start", "clear"} => kind = active /\ Prefix(One(kind = "Text"))
                        /\ pc \in {"write", "returned"} => Prefix(0)
                        /\ pc = "tag" => setting = active /\ Prefix(One(setting = "Text"))
  /\ task = "value" => /\ pc \in {"start", "use", "returned"}
                       /\ Prefix(One(pc = "use"))

LifetimeIInv == LifetimeTypeOK /\ LifetimeInv

LEMMA LifetimeInit ==
  ASSUME N \in Nat \ {0}, Lifetime!Init
  PROVE  LifetimeIInv
BY DEF Lifetime!Init, Lifetime!Cells, Lifetime!Kinds, Blocks, LifetimeIInv, LifetimeTypeOK,
   LifetimeInv, Prefix, One

\* One object more or less at the end of the prefix.
LEMMA PrefixGrows ==
  ASSUME N \in Nat \ {0}, LifetimeTypeOK, NEW n \in 0..(N - 1), Prefix(n),
         cell' = Lifetime!Constructed(n)
  PROVE  cell' \in [Blocks -> {"raw", "live", "lost"}] /\ Prefix(n + 1)'
<1>1. n \in Blocks /\ \A c \in Blocks : c \in Nat
  BY DEF Blocks, Lifetime!Cells
<1>2. \A c \in Blocks : cell'[c] = IF c = n THEN "live" ELSE cell[c]
  BY <1>1 DEF Lifetime!Constructed, LifetimeTypeOK, Prefix
<1>3. \A c \in Blocks : c < n + 1 <=> c < n \/ c = n
  BY <1>1
<1>4. \A c \in Blocks : cell'[c] = IF c < n + 1 THEN "live" ELSE "raw"
  BY <1>1, <1>2, <1>3 DEF Prefix
<1>5. cell' \in [Blocks -> {"raw", "live", "lost"}]
  BY <1>1 DEF Lifetime!Constructed, LifetimeTypeOK
<1>6. QED
  BY <1>4, <1>5 DEF Prefix, Blocks

LEMMA PrefixShrinks ==
  ASSUME N \in Nat \ {0}, LifetimeTypeOK, NEW n \in 0..(N - 1), Prefix(n + 1),
         cell' = Lifetime!Destroyed(n)
  PROVE  cell' \in [Blocks -> {"raw", "live", "lost"}] /\ Prefix(n)'
<1>1. n \in Blocks /\ \A c \in Blocks : c \in Nat
  BY DEF Blocks, Lifetime!Cells
<1>2. \A c \in Blocks : c < n + 1 <=> c < n \/ c = n
  BY <1>1
<1>3. \A c \in Blocks : cell'[c] = IF c = n THEN "raw" ELSE cell[c]
  BY <1>1, <1>2 DEF Lifetime!Destroyed, LifetimeTypeOK, Prefix
<1>4. \A c \in Blocks : cell'[c] = IF c < n THEN "live" ELSE "raw"
  BY <1>1, <1>2, <1>3 DEF Prefix
<1>5. cell' \in [Blocks -> {"raw", "live", "lost"}]
  BY <1>1 DEF Lifetime!Destroyed, LifetimeTypeOK
<1>6. QED
  BY <1>4, <1>5 DEF Prefix, Blocks

\* destroy_n() of a full block.
LEMMA PrefixGoes ==
  ASSUME N \in Nat \ {0}, LifetimeTypeOK, Prefix(N),
         cell' = [c \in Blocks |-> Lifetime!Destroyed(c)[c]]
  PROVE  cell' \in [Blocks -> {"raw", "live", "lost"}] /\ Prefix(0)'
<1>1. \A c \in Blocks : c \in Nat /\ c < N /\ ~(c < 0)
  BY DEF Blocks, Lifetime!Cells
<1>2. \A c \in Blocks : Lifetime!Destroyed(c)[c] = "raw"
  BY <1>1 DEF Lifetime!Destroyed, LifetimeTypeOK, Prefix
<1>3. QED
  BY <1>1, <1>2 DEF Prefix, Blocks

LEMMA LifetimeStep ==
  ASSUME N \in Nat \ {0}, LifetimeIInv, Lifetime!Next
  PROVE  LifetimeIInv'
<1>0. LifetimeTypeOK /\ LifetimeInv /\ 0 \in 0..(N - 1) /\ 0 + 1 = 1
  BY DEF LifetimeIInv
<1>1. CASE Lifetime!Construct
  <2>1. Prefix(0)
    BY <1>0, <1>1 DEF LifetimeInv, Lifetime!Construct, One
  <2>2. cell' \in [Blocks -> {"raw", "live", "lost"}] /\ Prefix(1)'
    BY <2>1, <1>0, <1>1, PrefixGrows DEF Lifetime!Construct
  <2>3. QED
    BY <2>2, <1>0, <1>1 DEF Lifetime!Construct, Lifetime!Goto, Lifetime!tagVars,
       LifetimeIInv, LifetimeTypeOK, LifetimeInv, One, Blocks
<1>2. CASE Lifetime!Destroy
  <2>1. Prefix(1)
    BY <1>0, <1>2 DEF LifetimeInv, Lifetime!Destroy, One
  <2>2. cell' \in [Blocks -> {"raw", "live", "lost"}] /\ Prefix(0)'
    BY <2>1, <1>0, <1>2, PrefixShrinks DEF Lifetime!Destroy
  <2>3. QED
    BY <2>2, <1>0, <1>2 DEF Lifetime!Destroy, Lifetime!Goto, Lifetime!tagVars,
       LifetimeIInv, LifetimeTypeOK, LifetimeInv, One, Blocks
<1>3. CASE Lifetime!BuildNext
  <2>1. Prefix(built) /\ built \in 0..(N - 1)
    BY <1>0, <1>3 DEF LifetimeInv, LifetimeTypeOK, Lifetime!BuildNext
  <2>2. cell' \in [Blocks -> {"raw", "live", "lost"}] /\ \A n : n = built + 1 => Prefix(n)'
    BY <2>1, <1>0, <1>3, PrefixGrows DEF Lifetime!BuildNext
  <2>3. QED
    BY <2>1, <2>2, <1>0, <1>3 DEF Lifetime!BuildNext, Lifetime!tagVars,
       LifetimeIInv, LifetimeTypeOK, LifetimeInv, One, Blocks, Prefix
<1>4. CASE Lifetime!Enough \/ Lifetime!ScopeEnds
  BY <1>0, <1>4 DEF Lifetime!Enough, Lifetime!ScopeEnds, Lifetime!Goto,
     Lifetime!tagVars, LifetimeIInv, LifetimeTypeOK, LifetimeInv, One, Blocks, Prefix
<1>5. CASE Lifetime!TakeDown
  <2>1. PICK n \in 0..(N - 1) : n = built - 1
    BY <1>0, <1>5 DEF LifetimeTypeOK, Lifetime!TakeDown
  <2>0. Prefix(n + 1) /\ built' = n /\ cell' = Lifetime!Destroyed(n)
    <3>1. n + 1 = built
      BY <2>1, <1>0 DEF LifetimeTypeOK
    <3>2. QED
      BY <2>1, <3>1, <1>0, <1>5 DEF LifetimeInv, Lifetime!TakeDown
  <2>2. cell' \in [Blocks -> {"raw", "live", "lost"}] /\ Prefix(n)'
    BY <2>0, <1>0, PrefixShrinks
  <2>3. QED
    BY <2>0, <2>2, <1>0, <1>5 DEF Lifetime!TakeDown, Lifetime!tagVars,
       LifetimeIInv, LifetimeTypeOK, LifetimeInv, One, Blocks, Prefix
<1>6. CASE Lifetime!DestroyN
  <2>1. Prefix(N)
    BY <1>0, <1>6 DEF LifetimeInv, Lifetime!DestroyN
  <2>2. cell' \in [Blocks -> {"raw", "live", "lost"}] /\ Prefix(0)'
    BY <2>1, <1>0, <1>6, PrefixGoes DEF Lifetime!DestroyN, Blocks
  <2>3. QED
    BY <2>2, <1>0, <1>6 DEF Lifetime!DestroyN, Lifetime!tagVars,
       LifetimeIInv, LifetimeTypeOK, LifetimeInv, One, Blocks, Prefix
<1>7. CASE Lifetime!CallConstructAll \/ Lifetime!ConstructorThrows
  BY <1>0, <1>7 DEF Lifetime!CallConstructAll, Lifetime!ConstructorThrows, Lifetime!Goto,
     Lifetime!tagVars, LifetimeIInv, LifetimeTypeOK, LifetimeInv, One, Blocks, Prefix
<1>8. CASE Lifetime!BuildOne
  <2>1. Prefix(built) /\ built \in 0..(N - 1) /\ live = built
    BY <1>0, <1>8 DEF LifetimeInv, LifetimeTypeOK, Lifetime!BuildOne
  <2>2. cell' \in [Blocks -> {"raw", "live", "lost"}] /\ \A n : n = built + 1 => Prefix(n)'
    BY <2>1, <1>0, <1>8, PrefixGrows DEF Lifetime!BuildOne
  <2>3. QED
    BY <2>1, <2>2, <1>0, <1>8 DEF Lifetime!BuildOne, Lifetime!tagVars,
       LifetimeIInv, LifetimeTypeOK, LifetimeInv, One, Blocks, Prefix
<1>9. CASE Lifetime!Unwind
  <2>1. PICK n \in 0..(N - 1) : n = built - 1
    BY <1>0, <1>9 DEF LifetimeTypeOK, Lifetime!Unwind, Lifetime!Unwinds
  <2>2. /\ Prefix(n + 1) /\ built' = n /\ live' = n /\ cell' = Lifetime!Destroyed(n)
    <3>1. n + 1 = built /\ live = built /\ Prefix(built)
      BY <2>1, <1>0, <1>9 DEF LifetimeTypeOK, LifetimeInv, Lifetime!Unwind
    <3>2. QED
      BY <2>1, <3>1, <1>9 DEF Lifetime!Unwind
  <2>3. cell' \in [Blocks -> {"raw", "live", "lost"}] /\ Prefix(n)'
    BY <2>2, <1>0, PrefixShrinks
  <2>4. QED
    BY <2>2, <2>3, <1>0, <1>9 DEF Lifetime!Unwind, Lifetime!tagVars,
       LifetimeIInv, LifetimeTypeOK, LifetimeInv, One, Blocks, Prefix
<1>10. CASE Lifetime!Rethrow
  <2>1. live = 0
    BY <1>0, <1>10 DEF LifetimeInv, LifetimeTypeOK, Lifetime!Rethrow, Lifetime!Unwinds
  <2>2. QED
    BY <2>1, <1>0, <1>10 DEF Lifetime!Rethrow, Lifetime!Goto, Lifetime!tagVars,
       LifetimeIInv, LifetimeTypeOK, LifetimeInv, One, Blocks, Prefix
<1>11. CASE Lifetime!AllBuilt
  <2>1. live = N /\ Prefix(N)
    BY <1>0, <1>11 DEF LifetimeInv, Lifetime!AllBuilt
  <2>2. cell' \in [Blocks -> {"raw", "live", "lost"}] /\ Prefix(0)' /\ live' = 0
    BY <2>1, <1>0, <1>11, PrefixGoes DEF Lifetime!AllBuilt, Blocks
  <2>3. QED
    BY <2>2, <1>0, <1>11 DEF Lifetime!AllBuilt, Lifetime!Goto, Lifetime!tagVars,
       LifetimeIInv, LifetimeTypeOK, LifetimeInv, One, Blocks, Prefix
<1>12. ASSUME NEW k \in Lifetime!Kinds, Lifetime!Set(k)
       PROVE  LifetimeIInv'
  BY <1>0, <1>12 DEF Lifetime!Set, Lifetime!Goto, LifetimeIInv, LifetimeTypeOK,
     LifetimeInv, One, Blocks, Prefix
<1>13. CASE Lifetime!Clear \/ Lifetime!Destructor
  <2>1. Prefix(One(kind = "Text")) /\ task = "tagged"
    BY <1>0, <1>13 DEF LifetimeInv, Lifetime!Clear, Lifetime!Destructor
  <2>2. cell' \in [Blocks -> {"raw", "live", "lost"}] /\ Prefix(0)'
    <3>1. CASE kind = "Text"
      <4>1. Prefix(0 + 1) /\ cell' = Lifetime!Destroyed(0)
        BY <2>1, <3>1, <1>13 DEF Lifetime!Clear, Lifetime!Destructor, Lifetime!MustDestroy,
           One
      <4>2. QED
        BY <4>1, <1>0, PrefixShrinks
    <3>2. CASE kind # "Text"
      BY <2>1, <3>2, <1>0, <1>13 DEF Lifetime!Clear, Lifetime!Destructor,
         Lifetime!MustDestroy, One, Prefix, Blocks, LifetimeTypeOK
    <3>3. QED
      BY <3>1, <3>2
  <2>3. QED
    BY <2>1, <2>2, <1>0, <1>13 DEF Lifetime!Clear, Lifetime!Destructor, Lifetime!Goto,
       Lifetime!tagVars, LifetimeIInv, LifetimeTypeOK, LifetimeInv, One, Blocks
<1>14. CASE Lifetime!Write
  <2>1. Prefix(0) /\ task = "tagged"
    BY <1>0, <1>14 DEF LifetimeInv, Lifetime!Write
  <2>2. cell' \in [Blocks -> {"raw", "live", "lost"}] /\ Prefix(One(setting = "Text"))'
    <3>1. CASE setting = "Text"
      <4>1. cell' \in [Blocks -> {"raw", "live", "lost"}] /\ Prefix(1)'
        BY <2>1, <3>1, <1>0, <1>14, PrefixGrows DEF Lifetime!Write
      <4>2. setting' = "Text"
        BY <3>1, <1>14 DEF Lifetime!Write
      <4>3. QED
        BY <4>1, <4>2 DEF Prefix, One
    <3>2. CASE setting # "Text"
      <4>1. 0 \in Blocks /\ setting' # "Text"
        BY <3>2, <1>0, <1>14 DEF Lifetime!Write, Blocks, Lifetime!Cells
      <4>2. cell' = [cell EXCEPT ![0] = IF cell[0] = "raw" THEN cell[0] ELSE "lost"]
        BY <3>2, <1>14 DEF Lifetime!Write
      <4>3. cell' = cell
        <5>1. cell[0] = "raw"
          BY <2>1, <4>1 DEF Prefix
        <5>2. QED
          BY <4>2, <5>1, <1>0 DEF LifetimeTypeOK
      <4>4. QED
        BY <2>1, <4>1, <4>3, <1>0 DEF LifetimeTypeOK, Prefix, One, Blocks
    <3>3. QED
      BY <3>1, <3>2
  <2>3. QED
    BY <2>1, <2>2, <1>0, <1>14 DEF Lifetime!Write, Lifetime!Goto,
       LifetimeIInv, LifetimeTypeOK, LifetimeInv, Blocks
<1>15. CASE Lifetime!Tag
  <2>1. setting = active /\ Prefix(One(setting = "Text")) /\ kind' = setting
    BY <1>0, <1>15 DEF LifetimeInv, Lifetime!Tag
  <2>2. Prefix(One(kind = "Text"))'
    BY <2>1, <1>15 DEF Lifetime!Tag, Prefix, One, Blocks
  <2>3. QED
    BY <2>1, <2>2, <1>0, <1>15 DEF Lifetime!Tag, Lifetime!Goto,
       LifetimeIInv, LifetimeTypeOK, LifetimeInv, Blocks
<1>16. CASE Lifetime!BuildText
  <2>1. cell' \in [Blocks -> {"raw", "live", "lost"}] /\ Prefix(1)'
    <3>1. Prefix(0)
      BY <1>0, <1>16 DEF LifetimeInv, Lifetime!BuildText, One
    <3>2. QED
      BY <3>1, <1>0, <1>16, PrefixGrows DEF Lifetime!BuildText
  <2>2. QED
    BY <2>1, <1>0, <1>16 DEF Lifetime!BuildText, Lifetime!Goto, Lifetime!Kinds,
       LifetimeIInv, LifetimeTypeOK, LifetimeInv, One, Blocks
<1>17. CASE Lifetime!DestroyText
  <2>1. cell' \in [Blocks -> {"raw", "live", "lost"}] /\ Prefix(0)'
    <3>1. Prefix(0 + 1)
      BY <1>0, <1>17 DEF LifetimeInv, Lifetime!DestroyText, One
    <3>2. QED
      BY <3>1, <1>0, <1>17, PrefixShrinks DEF Lifetime!DestroyText
  <2>2. QED
    BY <2>1, <1>0, <1>17 DEF Lifetime!DestroyText, Lifetime!Goto, Lifetime!Kinds,
       LifetimeIInv, LifetimeTypeOK, LifetimeInv, One, Blocks
<1>18. CASE UNCHANGED <<task, pc, cell, built, live, kind, active, setting>>
  BY <1>0, <1>18 DEF LifetimeIInv, LifetimeTypeOK, LifetimeInv, Prefix, Blocks, One
<1>19. CASE Lifetime!Returned
  BY <1>18, <1>19 DEF Lifetime!Returned, Lifetime!lifetimeVars
<1>20. QED
  BY <1>1, <1>2, <1>3, <1>4, <1>5, <1>6, <1>7, <1>8, <1>9, <1>10, <1>11, <1>12, <1>13,
     <1>14, <1>15, <1>16, <1>17, <1>19 DEF Lifetime!Next

LEMMA EveryObjectDiesOnce ==
  ASSUME N \in Nat \ {0}, LifetimeIInv
  PROVE  Lifetime!LivesOnce
<1>0. LifetimeTypeOK /\ LifetimeInv /\ 0 \in Blocks /\ \A c \in Blocks : c \in Nat
  BY DEF LifetimeIInv, Blocks, Lifetime!Cells
<1>1. \A n : Prefix(n) => \A c \in Blocks : cell[c] # "lost" /\ (cell[c] = "live" <=> c < n)
  BY DEF Prefix
<1>2. \A c \in Blocks : cell[c] # "lost"
  <2>1. \E n : Prefix(n)
    <3>1. CASE task \in {"storage", "block", "all", "value"}
      BY <3>1, <1>0 DEF LifetimeInv
    <3>2. CASE task = "tagged"
      BY <3>2, <1>0 DEF LifetimeInv
    <3>3. QED
      BY <3>1, <3>2, <1>0 DEF LifetimeTypeOK
  <2>2. QED
    BY <2>1, <1>1
<1>3. Prefix(0) => Lifetime!Live = {}
  BY <1>0, <1>1 DEF Lifetime!Live, Blocks
<1>4. pc = "returned" => Lifetime!Live = {}
  BY <1>0, <1>3 DEF LifetimeInv, LifetimeTypeOK, One
<1>5. task = "all" => Lifetime!Live = 0..(live - 1) /\ (pc = "start" => Lifetime!Live = {})
  <2> SUFFICES ASSUME task = "all"
               PROVE  Lifetime!Live = 0..(live - 1) /\ (pc = "start" => Lifetime!Live = {})
    OBVIOUS
  <2>1. Prefix(live) /\ live \in Nat /\ live <= N
    BY <1>0 DEF LifetimeInv, LifetimeTypeOK
  <2>2. Lifetime!Live = {c \in Blocks : c < live}
    BY <2>1, <1>1 DEF Lifetime!Live, Blocks
  <2>3. {c \in Blocks : c < live} = 0..(live - 1)
    BY <2>1 DEF Blocks, Lifetime!Cells
  <2>4. QED
    BY <2>2, <2>3, <1>0, <1>3 DEF LifetimeInv
<1>6. task = "tagged" /\ pc = "start" =>
        kind = active /\ Lifetime!Live = IF kind = "Text" THEN {0} ELSE {}
  <2> SUFFICES ASSUME task = "tagged", pc = "start"
               PROVE  kind = active /\ Lifetime!Live = IF kind = "Text" THEN {0} ELSE {}
    OBVIOUS
  <2>1. kind = active /\ Prefix(One(kind = "Text"))
    BY <1>0 DEF LifetimeInv
  <2>2. \A c \in Blocks : c < 1 <=> c = 0
    BY <1>0
  <2>3. Prefix(1) => Lifetime!Live = {0}
    BY <2>2, <1>0, <1>1 DEF Lifetime!Live, Blocks
  <2>4. QED
    BY <2>1, <2>3, <1>3 DEF One
<1>7. QED
  BY <1>2, <1>4, <1>5, <1>6 DEF Lifetime!LivesOnce, Blocks

-----------------------------------------------------------------------------
(* A3, A4 and F2.  A count is what is there to be counted: what is held, the *)
(* pointers of live nodes and those that are being destroyed.                *)

Owned == Owners!Nodes
Drops == [count : {"strong", "weak"}, of : Owned]
Todos == {<< >>} \cup {<<p1>> : p1 \in Drops} \cup {<<p1, p2>> : p1, p2 \in Drops}

OwnersTypeOK ==
  /\ fixed \in BOOLEAN
  /\ opc \in {"make", "link", "called", "widget_left", "number_left", "returned"}
  /\ state \in [Owned -> {"none", "alive", "destroyed", "freed"}]
  /\ strong \in [Owned -> Nat]
  /\ weak \in [Owned -> Nat]
  /\ held \in SUBSET Owned
  /\ other \in [Owned -> Owned \cup {"none"}]
  /\ todo \in Todos

Points(m, n) == state[m] = "alive" /\ other[m] = n
PointersTo(n) == One(Points("a", n)) + One(Points("b", n))
PendingIn(s, r) == One(Len(s) >= 1 /\ s[1] = r) + One(Len(s) >= 2 /\ s[2] = r)
Pending(c, n) == PendingIn(todo, [count |-> c, of |-> n])

CountedInv ==
  \A n \in Owned :
    /\ strong[n] = One(n \in held) + (IF fixed THEN 0 ELSE PointersTo(n)) + Pending("strong", n)
    /\ weak[n] = One(state[n] = "alive") + (IF fixed THEN PointersTo(n) ELSE 0)
                   + Pending("weak", n)

\* The counts say how a node is; one that is not alive points nowhere.  Where a
\* second pointer waits, its node has been destroyed by the first.
StateInv ==
  /\ \A n \in Owned :
       /\ state[n] = "alive" <=> strong[n] > 0
       /\ state[n] \in {"alive", "destroyed"} <=> weak[n] > 0
       /\ other[n] # "none" => state[n] = "alive"
  /\ Len(todo) = 2 =>
       /\ todo[2].count = "weak"
       /\ todo[1].count = "strong" => ~fixed /\ state[todo[2].of] = "destroyed"

PlaceInv ==
  /\ opc \in {"make", "widget_left", "number_left"} =>
       /\ todo = << >>
       /\ \A n \in Owned : other[n] = "none" /\ (n \notin held => state[n] = "none")
  /\ job = "call" /\ opc \in {"make", "widget_left"} => held = {}
  /\ opc = "returned" => todo = << >> /\ held = {}

OwnersIInv == OwnersTypeOK /\ CountedInv /\ StateInv /\ PlaceInv

LEMMA PendingIs ==
  /\ \A r : PendingIn(<< >>, r) = 0
  /\ \A p1, r : PendingIn(<<p1>>, r) = One(p1 = r)
  /\ \A p1, p2, r : PendingIn(<<p1, p2>>, r) = One(p1 = r) + One(p2 = r)
<1>1. \A r : PendingIn(<< >>, r) = 0
  BY DEF PendingIn, One
<1>2. \A p1, r : PendingIn(<<p1>>, r) = One(p1 = r)
  BY DEF PendingIn, One
<1>3. \A p1, p2, r : PendingIn(<<p1, p2>>, r) = One(p1 = r) + One(p2 = r)
  BY DEF PendingIn, One
<1>4. QED
  BY <1>1, <1>2, <1>3

LEMMA NoneLeft == todo = << >> => \A c, n : Pending(c, n) = 0
  BY PendingIs DEF Pending

LEMMA AllPending ==
  ASSUME OwnersTypeOK
  PROVE  /\ \A k, n : Pending(k, n) \in Nat
         /\ \A n : PointersTo(n) \in Nat
BY DEF Pending, PendingIn, PointersTo, One

\* Only the n-th node's pointer changes.
LEMMA PointersMove ==
  ASSUME NEW n \in Owned, NEW x,
         \A m \in Owned : m # n => (Points(m, x)' <=> Points(m, x))
  PROVE  PointersTo(x)' - One(Points(n, x)') = PointersTo(x) - One(Points(n, x))
BY DEF PointersTo, One, Owned, Owners!Nodes

LEMMA OwnersInit ==
  ASSUME Owners!Init
  PROVE  OwnersIInv
<1>1. todo = << >> /\ \A k, n : Pending(k, n) = 0
  BY NoneLeft DEF Owners!Init
<1>2. OwnersTypeOK
  BY DEF Owners!Init, Owners!None, OwnersTypeOK, Owned, Todos
<1>3. \A n \in Owned : PointersTo(n) = 0
  BY DEF Owners!Init, PointersTo, Points, One, Owned, Owners!Nodes
<1>4. CountedInv
  BY <1>1, <1>3 DEF Owners!Init, CountedInv, One, Owned
<1>5. StateInv
  BY <1>1 DEF Owners!Init, StateInv, Owned, Owners!None
<1>6. PlaceInv
  BY <1>1 DEF Owners!Init, PlaceInv, Owned, Owners!None
<1>7. QED
  BY <1>2, <1>4, <1>5, <1>6 DEF OwnersIInv

\* make_shared(): the node was not there, so nobody points at it.
LEMMA MadeKeeps ==
  ASSUME OwnersIInv, NEW n \in Owned, Owners!Made(n), n \notin held,
         opc \in {"make", "widget_left", "number_left"},
         opc' \in {"make", "link", "called", "number_left"},
         job = "call" => opc' # "make",
         UNCHANGED <<job, fixed, other, todo>>
  PROVE  OwnersIInv'
<1>0. OwnersTypeOK /\ CountedInv /\ StateInv /\ PlaceInv
  BY DEF OwnersIInv
<1>1. /\ todo = << >> /\ state[n] = "none"
      /\ \A m \in Owned : other[m] = "none" /\ (m \notin held => state[m] = "none")
  BY <1>0 DEF PlaceInv
<1>2. /\ state'[n] = "alive" /\ strong'[n] = 1 /\ weak'[n] = 1
      /\ \A m \in Owned : m # n =>
           state'[m] = state[m] /\ strong'[m] = strong[m] /\ weak'[m] = weak[m]
      /\ held' = held \cup {n}
  BY <1>0 DEF Owners!Made, OwnersTypeOK
<1>3. OwnersTypeOK'
  BY <1>0 DEF Owners!Made, OwnersTypeOK, Owned
<1>4. \A k, m : Pending(k, m) = 0 /\ Pending(k, m)' = 0
  BY <1>1, PendingIs DEF Pending
<1>5. \A m \in Owned : PointersTo(m) = 0 /\ PointersTo(m)' = 0
  BY <1>1 DEF PointersTo, Points, One, Owned, Owners!Nodes
<1>6. CountedInv'
  BY <1>0, <1>2, <1>4, <1>5 DEF CountedInv, One, Owned
<1>7. StateInv'
  BY <1>0, <1>1, <1>2 DEF StateInv, Owned
<1>8. PlaceInv'
  BY <1>0, <1>1, <1>2 DEF PlaceInv, Owned
<1>9. QED
  BY <1>3, <1>6, <1>7, <1>8 DEF OwnersIInv

LEMMA LinkKeeps ==
  ASSUME OwnersIInv, NEW n \in held, NEW m \in held, Owners!Link(n, m)
  PROVE  OwnersIInv'
<1>0. OwnersTypeOK /\ CountedInv /\ StateInv /\ PlaceInv
  BY DEF OwnersIInv
<1>1. /\ opc = "link" /\ todo = << >>
      /\ other' = [other EXCEPT ![n] = m]
      /\ IF fixed THEN weak' = [weak EXCEPT ![m] = weak[m] + 1] /\ strong' = strong
                  ELSE strong' = [strong EXCEPT ![m] = strong[m] + 1] /\ weak' = weak
      /\ todo' = Owners!Drop(other[n])
      /\ UNCHANGED <<job, fixed, opc, state, held>>
  BY DEF Owners!Link
<1>2. n \in Owned /\ m \in Owned /\ \A k \in held : strong[k] > 0 /\ state[k] = "alive"
  BY <1>0, AllPending DEF OwnersTypeOK, CountedInv, StateInv, One
<1>3. /\ other'[n] = m /\ \A k \in Owned : k # n => other'[k] = other[k]
      /\ other' \in [Owned -> Owned \cup {"none"}]
  BY <1>0, <1>1, <1>2 DEF OwnersTypeOK
<1>4. \A k \in Owned : PointersTo(k)' - One(k = m) = PointersTo(k) - One(other[n] = k)
  <2> SUFFICES ASSUME NEW k \in Owned
               PROVE  PointersTo(k)' - One(k = m) = PointersTo(k) - One(other[n] = k)
    OBVIOUS
  <2>1. \A q \in Owned : q # n => (Points(q, k)' <=> Points(q, k))
    BY <1>1, <1>3 DEF Points
  <2>2. (Points(n, k) <=> other[n] = k) /\ (Points(n, k)' <=> k = m)
    BY <1>1, <1>2, <1>3 DEF Points
  <2>3. One(Points(n, k)) = One(other[n] = k) /\ One(Points(n, k)') = One(k = m)
    BY <2>2 DEF One
  <2>4. PointersTo(k)' - One(Points(n, k)') = PointersTo(k) - One(Points(n, k))
    BY <2>1, <1>2, PointersMove
  <2>5. QED
    BY <2>3, <2>4
<1>5. \A k \in Owned, c \in {"strong", "weak"} :
        /\ Pending(c, k) = 0
        /\ Pending(c, k)' = One(other[n] = k /\ c = IF fixed THEN "weak" ELSE "strong")
  <2>1. \A k, c : Pending(c, k) = 0
    BY <1>1, NoneLeft
  <2>2. CASE other[n] = "none"
    <3>1. todo' = << >>
      BY <2>2, <1>1 DEF Owners!Drop, Owners!None
    <3>2. \A k \in Owned : \A c : Pending(c, k)' = 0 /\ other[n] # k
      BY <2>2, <3>1, PendingIs DEF Pending, Owned, Owners!Nodes
    <3>3. QED
      BY <2>1, <3>2 DEF One
  <2>3. CASE other[n] # "none"
    <3>1. todo' = <<[count |-> IF fixed THEN "weak" ELSE "strong", of |-> other[n]]>>
      BY <2>3, <1>1 DEF Owners!Drop, Owners!None
    <3>2. \A k \in Owned : \A c :
            Pending(c, k)' = One([count |-> IF fixed THEN "weak" ELSE "strong", of |-> other[n]]
                                   = [count |-> c, of |-> k])
      BY <3>1, PendingIs DEF Pending
    <3>3. \A k \in Owned : \A c :
            [count |-> IF fixed THEN "weak" ELSE "strong", of |-> other[n]] = [count |-> c, of |-> k]
              <=> (other[n] = k /\ c = IF fixed THEN "weak" ELSE "strong")
      OBVIOUS
    <3>4. QED
      BY <2>1, <3>2, <3>3 DEF One
  <2>4. QED
    BY <2>2, <2>3
<1>6. OwnersTypeOK'
  <2>1. todo' \in Todos
    <3>1. other[n] \in Owned \cup {"none"}
      BY <1>0, <1>2 DEF OwnersTypeOK
    <3>2. QED
      BY <3>1, <1>1 DEF Owners!Drop, Owners!None, Todos, Drops
  <2>2. strong' \in [Owned -> Nat] /\ weak' \in [Owned -> Nat]
    <3>1. strong[m] + 1 \in Nat /\ weak[m] + 1 \in Nat
      BY <1>0, <1>2 DEF OwnersTypeOK
    <3>2. CASE fixed
      BY <3>1, <3>2, <1>0, <1>1, <1>2 DEF OwnersTypeOK
    <3>3. CASE ~fixed
      BY <3>1, <3>3, <1>0, <1>1, <1>2 DEF OwnersTypeOK
    <3>4. QED
      BY <3>2, <3>3
  <2>3. QED
    BY <2>1, <2>2, <1>0, <1>1, <1>3 DEF OwnersTypeOK, Owned
<1>7. \A k \in Owned :
        /\ strong'[k] = strong[k] + (IF fixed THEN 0 ELSE One(k = m))
        /\ weak'[k] = weak[k] + (IF fixed THEN One(k = m) ELSE 0)
        /\ strong[k] \in Nat /\ weak[k] \in Nat
  BY <1>0, <1>1, <1>2 DEF OwnersTypeOK, One
<1>8. CountedInv'
  <2> SUFFICES ASSUME NEW k \in Owned
               PROVE  /\ strong'[k] = One(k \in held) + (IF fixed THEN 0 ELSE PointersTo(k)')
                                        + Pending("strong", k)'
                      /\ weak'[k] = One(state[k] = "alive") + (IF fixed THEN PointersTo(k)' ELSE 0)
                                      + Pending("weak", k)'
    BY <1>1 DEF CountedInv, Owned
  <2>1. PointersTo(k) \in Nat /\ PointersTo(k)' \in Nat
    BY DEF PointersTo, One
  <2>2. One(other[n] = k) \in Nat /\ One(k = m) \in Nat
    BY DEF One
  <2>3. /\ strong[k] = One(k \in held) + (IF fixed THEN 0 ELSE PointersTo(k)) + 0
        /\ weak[k] = One(state[k] = "alive") + (IF fixed THEN PointersTo(k) ELSE 0) + 0
    BY <1>0, <1>5 DEF CountedInv
  <2>4. One(k \in held) \in Nat /\ One(state[k] = "alive") \in Nat
    BY DEF One
  <2>5. CASE fixed
    <3>1. Pending("strong", k)' = 0 /\ Pending("weak", k)' = One(other[n] = k)
      BY <2>5, <1>5 DEF One
    <3>2. QED
      BY <3>1, <2>1, <2>2, <2>3, <2>4, <2>5, <1>4, <1>7
  <2>6. CASE ~fixed
    <3>1. Pending("weak", k)' = 0 /\ Pending("strong", k)' = One(other[n] = k)
      BY <2>6, <1>5 DEF One
    <3>2. QED
      BY <3>1, <2>1, <2>2, <2>3, <2>4, <2>6, <1>4, <1>7
  <2>7. QED
    BY <2>5, <2>6
<1>9. StateInv'
  <2>1. Len(todo') # 2
    BY <1>1 DEF Owners!Drop
  <2>2. \A k \in Owned :
          /\ state[k] = "alive" <=> strong'[k] > 0
          /\ state[k] \in {"alive", "destroyed"} <=> weak'[k] > 0
          /\ other'[k] # "none" => state[k] = "alive"
    BY <1>0, <1>2, <1>3, <1>7 DEF StateInv, One
  <2>3. QED
    BY <2>1, <2>2, <1>1 DEF StateInv, Owned
<1>10. PlaceInv'
  BY <1>1 DEF PlaceInv
<1>11. QED
  BY <1>6, <1>8, <1>9, <1>10 DEF OwnersIInv

\* The next pointer to be destroyed, and the others.
LEMMA HeadPending ==
  ASSUME OwnersTypeOK, todo # << >>
  PROVE  /\ Head(todo) \in Drops
         /\ Tail(todo) \in Todos /\ Len(Tail(todo)) < 2 /\ Len(Tail(todo)) # 2
         /\ \A r : PendingIn(Tail(todo), r) = PendingIn(todo, r) - One(r = Head(todo))
         /\ Len(todo) = 1 => todo = <<Head(todo)>> /\ Tail(todo) = << >>
         /\ Len(todo) # 1 => /\ Len(todo) = 2 /\ todo[2] \in Drops
                             /\ todo = <<Head(todo), todo[2]>> /\ Tail(todo) = <<todo[2]>>
<1>1. CASE \E r1 \in Drops : todo = <<r1>>
  <2>1. PICK r1 \in Drops : todo = <<r1>>
    BY <1>1
  <2>2. Head(todo) = r1 /\ Tail(todo) = << >> /\ Len(todo) = 1 /\ Len(<< >>) = 0
    BY <2>1
  <2>3. \A r : PendingIn(todo, r) = One(r1 = r) /\ PendingIn(Tail(todo), r) = 0
    BY <2>1, <2>2, PendingIs
  <2>4. QED
    BY <2>1, <2>2, <2>3 DEF Todos, One
<1>2. CASE \E r1, r2 \in Drops : todo = <<r1, r2>>
  <2>1. PICK r1 \in Drops, r2 \in Drops : todo = <<r1, r2>>
    BY <1>2
  <2>2. /\ Head(todo) = r1 /\ Tail(todo) = <<r2>> /\ Len(todo) = 2 /\ todo[2] = r2
        /\ Len(<<r2>>) = 1
    BY <2>1
  <2>3. \A r : /\ PendingIn(todo, r) = One(r1 = r) + One(r2 = r)
               /\ PendingIn(Tail(todo), r) = One(r2 = r)
    BY <2>1, <2>2, PendingIs
  <2>4. QED
    BY <2>1, <2>2, <2>3 DEF Todos, One
<1>3. QED
  BY <1>1, <1>2 DEF OwnersTypeOK, Todos

LEMMA LeaveScopeKeeps ==
  ASSUME OwnersIInv, Owners!LeaveScope
  PROVE  OwnersIInv'
<1>0. OwnersTypeOK /\ CountedInv /\ StateInv /\ PlaceInv
  BY DEF OwnersIInv
<1>1. PICK n \in Owned : /\ n \in held /\ held' = held \ {n}
                         /\ todo' = <<[count |-> "strong", of |-> n]>>
  BY <1>0 DEF Owners!LeaveScope, OwnersTypeOK, Owned, Owners!Nodes
<1>2. /\ opc \in {"link", "called"} /\ todo = << >>
      /\ UNCHANGED <<job, fixed, opc, state, strong, weak, other>>
  BY DEF Owners!LeaveScope
<1>3. OwnersTypeOK'
  BY <1>0, <1>1, <1>2 DEF OwnersTypeOK, Todos, Drops, Owned
<1>4. \A c, k : /\ Pending(c, k) = 0
                /\ Pending(c, k)' = One([count |-> "strong", of |-> n] = [count |-> c, of |-> k])
  BY <1>1, <1>2, PendingIs DEF Pending
<1>5. \A k \in Owned : Pending("strong", k)' = One(k = n) /\ Pending("weak", k)' = 0
  <2>1. \A k : /\ [count |-> "strong", of |-> n] = [count |-> "strong", of |-> k] <=> k = n
               /\ [count |-> "strong", of |-> n] # [count |-> "weak", of |-> k]
    OBVIOUS
  <2>2. QED
    BY <2>1, <1>4 DEF One
<1>6. \A k \in Owned : One(k \in held') = One(k \in held) - One(k = n) /\ PointersTo(k)' = PointersTo(k)
  BY <1>1, <1>2 DEF One, PointersTo, Points
<1>7. CountedInv'
  <2> SUFFICES ASSUME NEW k \in Owned
               PROVE  /\ strong[k] = One(k \in held') + (IF fixed THEN 0 ELSE PointersTo(k))
                                        + Pending("strong", k)'
                      /\ weak[k] = One(state[k] = "alive") + (IF fixed THEN PointersTo(k) ELSE 0)
                                      + Pending("weak", k)'
    BY <1>2, <1>6 DEF CountedInv, Owned
  <2>1. One(k \in held) \in Nat /\ One(k = n) \in Nat /\ PointersTo(k) \in Nat
    BY DEF One, PointersTo
  <2>2. QED
    BY <2>1, <1>0, <1>4, <1>5, <1>6 DEF CountedInv
<1>8. StateInv'
  BY <1>0, <1>1, <1>2 DEF StateInv, Owned
<1>9. PlaceInv'
  BY <1>2 DEF PlaceInv
<1>10. QED
  BY <1>3, <1>7, <1>8, <1>9 DEF OwnersIInv

\* How the pointers that wait are put together.
LEMMA Concatenated ==
  /\ \A p1, p2 : <<p1>> \o <<p2>> = <<p1, p2>>
  /\ \A p1 : << >> \o <<p1>> = <<p1>> /\ <<p1>> \o << >> = <<p1>>
  /\ \A p1, p2 : <<p1, p2>> \o << >> = <<p1, p2>>
<1>1. \A p1, p2 : <<p1>> \o <<p2>> = <<p1, p2>>
  <2> SUFFICES ASSUME NEW p1, NEW p2
               PROVE  <<p1>> \o <<p2>> = <<p1, p2>>
    OBVIOUS
  <2>1. <<p1>> \in Seq({p1, p2}) /\ <<p2>> \in Seq({p1, p2}) /\ <<p1, p2>> \in Seq({p1, p2})
    OBVIOUS
  <2>2. /\ <<p1>> \o <<p2>> \in Seq({p1, p2}) /\ Len(<<p1>> \o <<p2>>) = 2
        /\ (<<p1>> \o <<p2>>)[1] = p1 /\ (<<p1>> \o <<p2>>)[2] = p2
    BY <2>1, ConcatProperties
  <2>3. \A k \in 1..2 : (<<p1>> \o <<p2>>)[k] = <<p1, p2>>[k]
    BY <2>2
  <2>4. Len(<<p1, p2>>) = 2
    OBVIOUS
  <2>5. QED
    BY <2>1, <2>2, <2>3, <2>4, SeqEqual, Zenon
<1>2. \A p1 : << >> \o <<p1>> = <<p1>>
  OBVIOUS
<1>3. \A p1 : <<p1>> \o << >> = <<p1>>
  OBVIOUS
<1>4. \A p1, p2 : <<p1, p2>> \o << >> = <<p1, p2>>
  OBVIOUS
<1>5. QED
  BY <1>1, <1>2, <1>3, <1>4

\* A pointer that is not the last is only counted.
LEMMA DropSharedKeeps ==
  ASSUME OwnersIInv, Owners!DropShared
  PROVE  OwnersIInv'
<1>0. OwnersTypeOK /\ CountedInv /\ StateInv /\ PlaceInv
  BY DEF OwnersIInv
<1>1. PICK n \in Owned : Head(todo) = [count |-> "strong", of |-> n]
  BY <1>0, HeadPending DEF Owners!DropShared, Drops
<1>2. /\ todo # << >>
      /\ strong' = [strong EXCEPT ![n] = strong[n] - 1]
      /\ IF strong[n] = 1
         THEN /\ state' = [state EXCEPT ![n] = "destroyed"]
              /\ other' = [other EXCEPT ![n] = "none"]
              /\ todo' = Owners!Drop(other[n]) \o <<[count |-> "weak", of |-> n]>> \o Tail(todo)
         ELSE todo' = Tail(todo) /\ UNCHANGED <<state, other>>
      /\ UNCHANGED <<job, fixed, opc, weak, held>>
  <2>1. Head(todo).of = n /\ Head(todo).count = "strong"
    BY <1>1
  <2>2. Owners!Last(Head(todo)) <=> strong[n] = 1
    BY <2>1 DEF Owners!Last, Owners!Counted
  <2>3. QED
    BY <2>1, <2>2 DEF Owners!DropShared, Owners!None
<1>3. Pending("strong", n) >= 1 /\ strong[n] >= 1 /\ state[n] = "alive"
  <2>1. PendingIn(todo, Head(todo)) >= 1
    <3>1. PendingIn(Tail(todo), Head(todo)) \in Nat /\ PendingIn(todo, Head(todo)) \in Nat
      BY DEF PendingIn, One
    <3>2. QED
      BY <3>1, <1>0, <1>2, HeadPending DEF One
  <2>2. strong[n] >= Pending("strong", n)
    BY <1>0, AllPending DEF CountedInv, One
  <2>3. Pending("strong", n) \in Nat /\ strong[n] \in Nat
    BY <1>0, AllPending DEF OwnersTypeOK
  <2>4. Pending("strong", n) >= 1
    BY <2>1, <1>1 DEF Pending
  <2>5. strong[n] > 0
    BY <2>2, <2>3, <2>4
  <2>6. QED
    BY <2>3, <2>4, <2>5, <1>0 DEF StateInv
<1>4. /\ \A k \in Owned : strong'[k] = strong[k] - One(k = n) /\ strong[k] \in Nat
      /\ strong' \in [Owned -> Nat]
  BY <1>0, <1>2, <1>3 DEF OwnersTypeOK, One
<1>5. opc \in {"link", "called"}
  BY <1>0, <1>2 DEF PlaceInv, OwnersTypeOK
<1>6. PlaceInv'
  BY <1>2, <1>5 DEF PlaceInv
<1>7. CASE strong[n] # 1
  <2>1. OwnersTypeOK'
    BY <1>0, <1>2, <1>4, <1>7, HeadPending DEF OwnersTypeOK, Owned
  <2>2. \A k : /\ PointersTo(k)' = PointersTo(k)
               /\ \A c : Pending(c, k)' = Pending(c, k) - One([count |-> c, of |-> k] = Head(todo))
    <3>1. todo' = Tail(todo)
      BY <1>2, <1>7
    <3>2. \A r : PendingIn(todo', r) = PendingIn(todo, r) - One(r = Head(todo))
      BY <3>1, <1>0, <1>2, HeadPending
    <3>3. QED
      BY <3>2, <1>2, <1>7 DEF PointersTo, Points, Pending
  <2>3. \A k : /\ Pending("strong", k)' = Pending("strong", k) - One(k = n)
               /\ Pending("weak", k)' = Pending("weak", k)
    <3>1. \A k : /\ [count |-> "strong", of |-> k] = Head(todo) <=> k = n
                 /\ [count |-> "weak", of |-> k] # Head(todo)
      BY <1>1
    <3>2. \A k : Pending("weak", k) \in Nat
      BY <1>0, AllPending
    <3>3. \A k : /\ One([count |-> "strong", of |-> k] = Head(todo)) = One(k = n)
                 /\ One([count |-> "weak", of |-> k] = Head(todo)) = 0
      BY <3>1 DEF One
    <3>4. \A k : /\ Pending("strong", k)' = Pending("strong", k)
                                               - One([count |-> "strong", of |-> k] = Head(todo))
                 /\ Pending("weak", k)' = Pending("weak", k)
                                             - One([count |-> "weak", of |-> k] = Head(todo))
      BY <2>2
    <3> SUFFICES ASSUME NEW k
                 PROVE  /\ Pending("strong", k)' = Pending("strong", k) - One(k = n)
                        /\ Pending("weak", k)' = Pending("weak", k)
      OBVIOUS
    <3>5. Pending("strong", k)' = Pending("strong", k) - One(k = n)
      BY <3>3, <3>4, Zenon
    <3>6. Pending("weak", k)' = Pending("weak", k) - 0 /\ Pending("weak", k) \in Nat
      BY <3>2, <3>3, <3>4, Zenon
    <3>7. QED
      BY <3>5, <3>6
  <2>4. CountedInv'
    <3> SUFFICES ASSUME NEW k \in Owned
                 PROVE  /\ strong'[k] = One(k \in held) + (IF fixed THEN 0 ELSE PointersTo(k))
                                          + Pending("strong", k)'
                        /\ weak[k] = One(state[k] = "alive")
                                       + (IF fixed THEN PointersTo(k) ELSE 0) + Pending("weak", k)'
      BY <1>2, <1>7, <2>2 DEF CountedInv, Owned
    <3>1. /\ One(k \in held) \in Nat /\ One(k = n) \in Nat /\ PointersTo(k) \in Nat
          /\ Pending("strong", k) \in Nat
      BY <1>0, AllPending DEF One
    <3>2. QED
      BY <3>1, <2>3, <1>0, <1>4 DEF CountedInv
  <2>5. StateInv'
    <3>1. Len(todo') # 2
      BY <1>0, <1>2, <1>7, HeadPending
    <3>2. \A k \in Owned : state[k] = "alive" <=> strong'[k] > 0
      BY <1>0, <1>3, <1>4, <1>7 DEF StateInv, One
    <3>3. QED
      BY <3>1, <3>2, <1>0, <1>2, <1>7 DEF StateInv, Owned
  <2>6. QED
    BY <2>1, <2>4, <2>5, <1>6 DEF OwnersIInv
<1>8. CASE strong[n] = 1
  <2> DEFINE d == [count |-> IF fixed THEN "weak" ELSE "strong", of |-> other[n]]
             w == [count |-> "weak", of |-> n]
             points == other[n] # "none"
  <2>1. n \notin held /\ (~fixed => other[n] # n)
    <3>1. PointersTo(n) \in Nat /\ One(n \in held) \in Nat /\ Pending("strong", n) \in Nat
      BY <1>0, AllPending DEF One
    <3>2. One(n \in held) = 0 /\ (~fixed => PointersTo(n) = 0)
      BY <3>1, <1>0, <1>3, <1>8 DEF CountedInv
    <3>3. PointersTo(n) = 0 => ~Points(n, n)
      BY DEF PointersTo, One, Owned, Owners!Nodes
    <3>4. QED
      BY <3>2, <3>3, <1>3 DEF One, Points
  <2>2. /\ state'[n] = "destroyed" /\ other'[n] = "none"
        /\ \A k \in Owned : k # n => state'[k] = state[k] /\ other'[k] = other[k]
        /\ state' \in [Owned -> {"none", "alive", "destroyed", "freed"}]
        /\ other' \in [Owned -> Owned \cup {"none"}]
    BY <1>0, <1>2, <1>8 DEF OwnersTypeOK
  <2>3. w \in Drops /\ (points => d \in Drops)
    BY <1>0 DEF OwnersTypeOK, Drops
  <2>4. \/ points /\ todo = <<Head(todo)>> /\ todo' = <<d, w>>
        \/ ~points /\ todo = <<Head(todo)>> /\ todo' = <<w>>
        \/ ~points /\ Len(todo) = 2 /\ todo = <<Head(todo), todo[2]>> /\ todo' = <<w, todo[2]>>
    <3>1. Owners!Drop(other[n]) = IF points THEN <<d>> ELSE << >>
      BY DEF Owners!Drop, Owners!None
    <3>2. todo' = Owners!Drop(other[n]) \o <<w>> \o Tail(todo)
      BY <1>2, <1>8
    <3> HIDE DEF d, w
    <3>3. CASE Len(todo) = 1
      <4>1. todo = <<Head(todo)>> /\ Tail(todo) = << >>
        BY <3>3, <1>0, <1>2, HeadPending
      <4>2. <<d>> \o <<w>> \o << >> = <<d, w>> /\ << >> \o <<w>> \o << >> = <<w>>
        BY Concatenated
      <4>3. QED
        BY <3>1, <3>2, <4>1, <4>2
    <3>4. CASE Len(todo) # 1
      <4>1. /\ Len(todo) = 2 /\ todo = <<Head(todo), todo[2]>> /\ Tail(todo) = <<todo[2]>>
            /\ todo[2] \in Drops
        BY <3>4, <1>0, <1>2, HeadPending
      <4>2. todo[1].count = "strong"
        <5>1. todo[1] = Head(todo)
          BY <4>1
        <5>2. QED
          BY <5>1, <1>1
      <4>3. ~fixed /\ state[todo[2].of] = "destroyed" /\ todo[2].of \in Owned
        BY <4>1, <4>2, <1>0 DEF StateInv, Drops
      <4>4. other[n] # todo[2].of
        <5>1. ASSUME NEW m \in Owned, state[m] = "destroyed", other[n] = m, ~fixed
              PROVE  FALSE
          <6>1. PointersTo(m) >= 1
            BY <5>1, <1>3 DEF PointersTo, Points, One, Owned, Owners!Nodes
          <6>2. One(m \in held) \in Nat /\ Pending("strong", m) \in Nat /\ PointersTo(m) \in Nat
            BY <1>0, AllPending DEF One
          <6>3. strong[m] > 0
            BY <5>1, <6>1, <6>2, <1>0 DEF CountedInv
          <6>4. QED
            BY <5>1, <6>3, <1>0 DEF StateInv
        <5>2. QED
          BY <4>3, <5>1
      <4>5. ~points
        BY <4>3, <4>4, <2>1, <1>0, <1>3 DEF OwnersTypeOK, Owned, Owners!Nodes
      <4>6. << >> \o <<w>> \o <<todo[2]>> = <<w, todo[2]>>
        BY Concatenated
      <4>7. QED
        BY <3>1, <3>2, <4>1, <4>5, <4>6
    <3>5. QED
      BY <3>3, <3>4
  <2>5. todo' \in Todos
    <3>1. Len(todo) = 2 => todo[2] \in Drops
      BY <1>0, <1>2, HeadPending
    <3> HIDE DEF d, w
    <3>2. QED
      BY <2>3, <2>4, <3>1 DEF Todos
  <2>6. OwnersTypeOK'
    BY <2>2, <2>5, <1>0, <1>2, <1>4 DEF OwnersTypeOK, Owned
  <2>7. \A r : PendingIn(todo', r) = PendingIn(todo, r) - One(r = Head(todo)) + One(r = w)
                                       + One(points /\ r = d)
    <3> HIDE DEF d, w
    <3> SUFFICES ASSUME NEW r
                 PROVE  PendingIn(todo', r) = PendingIn(todo, r) - One(r = Head(todo))
                                                + One(r = w) + One(points /\ r = d)
      OBVIOUS
    <3>1. CASE points /\ todo = <<Head(todo)>> /\ todo' = <<d, w>>
      <4>1. PendingIn(todo, r) = One(Head(todo) = r) /\ PendingIn(todo', r) = One(d = r) + One(w = r)
        BY <3>1, PendingIs
      <4>2. QED
        BY <3>1, <4>1 DEF One
    <3>2. CASE ~points /\ todo = <<Head(todo)>> /\ todo' = <<w>>
      <4>1. PendingIn(todo, r) = One(Head(todo) = r) /\ PendingIn(todo', r) = One(w = r)
        BY <3>2, PendingIs
      <4>2. QED
        BY <3>2, <4>1 DEF One
    <3>3. CASE ~points /\ todo = <<Head(todo), todo[2]>> /\ todo' = <<w, todo[2]>>
      <4>1. /\ PendingIn(todo, r) = One(Head(todo) = r) + One(todo[2] = r)
            /\ PendingIn(todo', r) = One(w = r) + One(todo[2] = r)
        BY <3>3, PendingIs
      <4>2. QED
        BY <3>3, <4>1 DEF One
    <3>4. QED
      BY <2>4, <3>1, <3>2, <3>3
  <2>8. \A k \in Owned :
          /\ Pending("strong", k)' = Pending("strong", k) - One(k = n)
                                       + One(~fixed /\ other[n] = k)
          /\ Pending("weak", k)' = Pending("weak", k) + One(k = n) + One(fixed /\ other[n] = k)
    <3> SUFFICES ASSUME NEW k \in Owned
                 PROVE  /\ Pending("strong", k)' = Pending("strong", k) - One(k = n)
                                                     + One(~fixed /\ other[n] = k)
                        /\ Pending("weak", k)' = Pending("weak", k) + One(k = n)
                                                   + One(fixed /\ other[n] = k)
      OBVIOUS
    <3>1. /\ [count |-> "strong", of |-> k] = Head(todo) <=> k = n
          /\ [count |-> "weak", of |-> k] # Head(todo)
          /\ [count |-> "strong", of |-> k] # w
          /\ [count |-> "weak", of |-> k] = w <=> k = n
      BY <1>1
    <3>2. /\ points /\ [count |-> "strong", of |-> k] = d <=> ~fixed /\ other[n] = k
          /\ points /\ [count |-> "weak", of |-> k] = d <=> fixed /\ other[n] = k
      BY <1>0 DEF OwnersTypeOK, Owned, Owners!Nodes
    <3> HIDE DEF d, w, points
    <3>3. /\ Pending("strong", k)' = Pending("strong", k) - One(k = n) + 0
                                       + One(~fixed /\ other[n] = k)
          /\ Pending("weak", k)' = Pending("weak", k) - 0 + One(k = n) + One(fixed /\ other[n] = k)
      BY <2>7, <3>1, <3>2 DEF Pending, One
    <3>4. Pending("strong", k) \in Nat /\ Pending("weak", k) \in Nat /\ One(k = n) \in Nat
      BY <1>0, AllPending DEF One
    <3>5. QED
      BY <3>3, <3>4
  <2>9. \A k \in Owned : PointersTo(k)' = PointersTo(k) - One(other[n] = k)
    <3> SUFFICES ASSUME NEW k \in Owned
                 PROVE  PointersTo(k)' = PointersTo(k) - One(other[n] = k)
      OBVIOUS
    <3>1. \A q \in Owned : q # n => (Points(q, k)' <=> Points(q, k))
      BY <2>2 DEF Points
    <3>2. One(Points(n, k)) = One(other[n] = k) /\ One(Points(n, k)') = 0
      BY <2>2, <1>3 DEF Points, One
    <3>3. PointersTo(k)' - One(Points(n, k)') = PointersTo(k) - One(Points(n, k))
      BY <3>1, PointersMove
    <3>4. PointersTo(k)' \in Nat /\ PointersTo(k) \in Nat
      BY DEF PointersTo, One
    <3>5. QED
      BY <3>2, <3>3, <3>4
  <2>10. CountedInv'
    <3> SUFFICES ASSUME NEW k \in Owned
                 PROVE  /\ strong'[k] = One(k \in held) + (IF fixed THEN 0 ELSE PointersTo(k)')
                                          + Pending("strong", k)'
                        /\ weak[k] = One(state'[k] = "alive")
                                       + (IF fixed THEN PointersTo(k)' ELSE 0) + Pending("weak", k)'
      BY <1>2 DEF CountedInv, Owned
    <3>1. /\ One(k \in held) \in Nat /\ One(k = n) \in Nat /\ PointersTo(k) \in Nat
          /\ Pending("strong", k) \in Nat /\ Pending("weak", k) \in Nat
          /\ One(other[n] = k) \in Nat /\ One(state[k] = "alive") \in Nat
      BY <1>0, AllPending DEF One
    <3>2. One(state'[k] = "alive") = One(state[k] = "alive") - One(k = n)
      BY <2>2, <1>3 DEF One
    <3>3. CASE fixed
      <4>1. One(fixed /\ other[n] = k) = One(other[n] = k) /\ One(~fixed /\ other[n] = k) = 0
        BY <3>3 DEF One
      <4>2. QED
        BY <3>1, <3>2, <3>3, <4>1, <2>8, <2>9, <1>0, <1>4 DEF CountedInv
    <3>4. CASE ~fixed
      <4>1. One(~fixed /\ other[n] = k) = One(other[n] = k) /\ One(fixed /\ other[n] = k) = 0
        BY <3>4 DEF One
      <4>2. QED
        BY <3>1, <3>2, <3>4, <4>1, <2>8, <2>9, <1>0, <1>4 DEF CountedInv
    <3>5. QED
      BY <3>3, <3>4
  <2>11. StateInv'
    <3>1. \A k \in Owned :
            /\ state'[k] = "alive" <=> strong'[k] > 0
            /\ state'[k] \in {"alive", "destroyed"} <=> weak[k] > 0
            /\ other'[k] # "none" => state'[k] = "alive"
      BY <2>2, <1>0, <1>3, <1>4, <1>8 DEF StateInv, One
    <3>2. Len(todo') = 2 =>
            /\ todo'[2].count = "weak"
            /\ todo'[1].count = "strong" => ~fixed /\ state'[todo'[2].of] = "destroyed"
      <4>1. CASE points /\ todo' = <<d, w>>
        <5>1. todo'[2] = w /\ todo'[1] = d
          BY <4>1
        <5>2. w.count = "weak" /\ w.of = n /\ (d.count = "strong" => ~fixed)
          OBVIOUS
        <5>3. QED
          BY <5>1, <5>2, <2>2
      <4>2. CASE todo' = <<w>>
        BY <4>2
      <4>3. CASE Len(todo) = 2 /\ todo' = <<w, todo[2]>>
        <5>1. todo'[2] = todo[2] /\ todo'[1] = w
          BY <4>3
        <5>2. w.count # "strong" /\ todo[2].count = "weak"
          BY <4>3, <1>0 DEF StateInv
        <5>3. QED
          BY <5>1, <5>2
      <4>4. QED
        BY <2>4, <4>1, <4>2, <4>3
    <3>3. QED
      BY <3>1, <3>2, <1>2 DEF StateInv, Owned
  <2>12. QED
    BY <2>6, <2>10, <2>11, <1>6 DEF OwnersIInv
<1>9. QED
  BY <1>7, <1>8

\* The last of all is the one that finds its node destroyed.
LEMMA DropWeakKeeps ==
  ASSUME OwnersIInv, Owners!DropWeak
  PROVE  OwnersIInv'
<1>0. OwnersTypeOK /\ CountedInv /\ StateInv /\ PlaceInv
  BY DEF OwnersIInv
<1>1. PICK n \in Owned : Head(todo) = [count |-> "weak", of |-> n]
  BY <1>0, HeadPending DEF Owners!DropWeak, Drops
<1>2. /\ todo # << >>
      /\ weak' = [weak EXCEPT ![n] = weak[n] - 1]
      /\ state' = IF weak[n] = 1 THEN [state EXCEPT ![n] = "freed"] ELSE state
      /\ todo' = Tail(todo)
      /\ UNCHANGED <<job, fixed, opc, strong, held, other>>
  <2>1. Head(todo).of = n /\ Head(todo).count = "weak"
    BY <1>1
  <2>2. Owners!Last(Head(todo)) <=> weak[n] = 1
    BY <2>1 DEF Owners!Last, Owners!Counted
  <2>3. QED
    BY <2>1, <2>2 DEF Owners!DropWeak
<1>3. Pending("weak", n) >= 1 /\ weak[n] >= One(state[n] = "alive") + 1
  <2>1. PendingIn(todo, Head(todo)) >= 1
    <3>1. PendingIn(Tail(todo), Head(todo)) \in Nat /\ PendingIn(todo, Head(todo)) \in Nat
      BY DEF PendingIn, One
    <3>2. QED
      BY <3>1, <1>0, <1>2, HeadPending DEF One
  <2>2. Pending("weak", n) >= 1
    BY <2>1, <1>1 DEF Pending
  <2>3. Pending("weak", n) \in Nat /\ weak[n] \in Nat /\ One(state[n] = "alive") \in Nat
        /\ PointersTo(n) \in Nat
    BY <1>0, AllPending DEF OwnersTypeOK, One
  <2>4. weak[n] >= One(state[n] = "alive") + Pending("weak", n)
    BY <2>3, <1>0 DEF CountedInv
  <2>5. QED
    BY <2>2, <2>3, <2>4
<1>4. /\ \A k \in Owned : weak'[k] = weak[k] - One(k = n) /\ weak[k] \in Nat
      /\ weak' \in [Owned -> Nat]
  <2>1. weak[n] \in Nat /\ One(state[n] = "alive") \in Nat
    BY <1>0 DEF OwnersTypeOK, One
  <2>2. weak[n] - 1 \in Nat
    BY <2>1, <1>3
  <2>3. QED
    BY <2>2, <1>0, <1>2 DEF OwnersTypeOK, One
<1>5. weak[n] = 1 => state[n] = "destroyed"
  <2>1. weak[n] = 1 => state[n] # "alive"
    BY <1>3 DEF One
  <2>2. weak[n] > 0
    <3>1. weak[n] \in Nat /\ One(state[n] = "alive") \in Nat
      BY <1>4 DEF One
    <3>2. QED
      BY <3>1, <1>3
  <2>3. QED
    BY <2>1, <2>2, <1>0 DEF StateInv
<1>6. /\ state' \in [Owned -> {"none", "alive", "destroyed", "freed"}]
      /\ \A k \in Owned : /\ k # n \/ weak[n] # 1 => state'[k] = state[k]
                          /\ k = n /\ weak[n] = 1 => state'[k] = "freed"
      /\ \A k \in Owned : state'[k] = "alive" <=> state[k] = "alive"
  BY <1>0, <1>2, <1>5 DEF OwnersTypeOK
<1>7. OwnersTypeOK'
  BY <1>0, <1>2, <1>4, <1>6, HeadPending DEF OwnersTypeOK, Owned
<1>8. \A k \in Owned : PointersTo(k)' = PointersTo(k)
  BY <1>2, <1>6 DEF PointersTo, Points, One, Owned, Owners!Nodes
<1>9. \A k : /\ Pending("strong", k)' = Pending("strong", k)
             /\ Pending("weak", k)' = Pending("weak", k) - One(k = n)
  <2>1. \A r : PendingIn(todo', r) = PendingIn(todo, r) - One(r = Head(todo))
    BY <1>0, <1>2, HeadPending
  <2>2. \A k : /\ [count |-> "weak", of |-> k] = Head(todo) <=> k = n
               /\ [count |-> "strong", of |-> k] # Head(todo)
    BY <1>1
  <2>3. \A k : /\ One([count |-> "weak", of |-> k] = Head(todo)) = One(k = n)
               /\ One([count |-> "strong", of |-> k] = Head(todo)) = 0
    BY <2>2 DEF One
  <2>4. \A k : /\ Pending("strong", k)' = Pending("strong", k)
                                             - One([count |-> "strong", of |-> k] = Head(todo))
               /\ Pending("weak", k)' = Pending("weak", k)
                                           - One([count |-> "weak", of |-> k] = Head(todo))
    BY <2>1 DEF Pending
  <2> SUFFICES ASSUME NEW k
               PROVE  /\ Pending("strong", k)' = Pending("strong", k)
                      /\ Pending("weak", k)' = Pending("weak", k) - One(k = n)
    OBVIOUS
  <2>5. Pending("weak", k)' = Pending("weak", k) - One(k = n)
    BY <2>3, <2>4, Zenon
  <2>6. Pending("strong", k)' = Pending("strong", k) - 0 /\ Pending("strong", k) \in Nat
    BY <2>3, <2>4, <1>0, AllPending, Zenon
  <2>7. QED
    BY <2>5, <2>6
<1>10. CountedInv'
  <2> SUFFICES ASSUME NEW k \in Owned
               PROVE  /\ strong[k] = One(k \in held) + (IF fixed THEN 0 ELSE PointersTo(k))
                                        + Pending("strong", k)
                      /\ weak'[k] = One(state'[k] = "alive") + (IF fixed THEN PointersTo(k) ELSE 0)
                                      + Pending("weak", k)'
    BY <1>2, <1>8, <1>9 DEF CountedInv, Owned
  <2>1. /\ One(state[k] = "alive") \in Nat /\ One(k = n) \in Nat /\ PointersTo(k) \in Nat
        /\ Pending("weak", k) \in Nat
    BY <1>0, AllPending DEF One
  <2>2. One(state'[k] = "alive") = One(state[k] = "alive")
    BY <1>6 DEF One
  <2>3. QED
    BY <2>1, <2>2, <1>0, <1>4, <1>9 DEF CountedInv
<1>11. StateInv'
  <2>1. Len(todo') # 2
    <3>1. Len(Tail(todo)) # 2
      BY <1>0, <1>2, HeadPending
    <3>2. QED
      BY <3>1, <1>2
  <2>2. \A k \in Owned : state'[k] \in {"alive", "destroyed"} <=> weak'[k] > 0
    <3> SUFFICES ASSUME NEW k \in Owned
                 PROVE  state'[k] \in {"alive", "destroyed"} <=> weak'[k] > 0
      OBVIOUS
    <3>1. CASE k = n /\ weak[n] = 1
      <4>1. weak'[k] = 0
        BY <3>1, <1>4 DEF One
      <4>2. QED
        BY <3>1, <4>1, <1>6
    <3>2. CASE k = n /\ weak[n] # 1
      <4>1. weak[n] > 0 /\ weak'[n] > 0
        BY <3>2, <1>3, <1>4 DEF One
      <4>2. QED
        BY <3>2, <4>1, <1>0, <1>6 DEF StateInv
    <3>3. CASE k # n
      <4>1. weak'[k] = weak[k]
        BY <3>3, <1>4 DEF One
      <4>2. QED
        BY <3>3, <4>1, <1>0, <1>6 DEF StateInv
    <3>4. QED
      BY <3>1, <3>2, <3>3
  <2>3. \A k \in Owned : /\ state'[k] = "alive" <=> strong[k] > 0
                         /\ other[k] # "none" => state'[k] = "alive"
    BY <1>0, <1>6 DEF StateInv
  <2>4. QED
    BY <2>1, <2>2, <2>3, <1>2 DEF StateInv, Owned
<1>12. PlaceInv'
  <2>1. opc \in {"link", "called"}
    BY <1>0, <1>2 DEF PlaceInv, OwnersTypeOK
  <2>2. QED
    BY <2>1, <1>2 DEF PlaceInv
<1>13. QED
  BY <1>7, <1>10, <1>11, <1>12 DEF OwnersIInv

LEMMA OwnersStep ==
  ASSUME OwnersIInv, Owners!Next
  PROVE  OwnersIInv'
<1>0. OwnersTypeOK /\ CountedInv /\ StateInv /\ PlaceInv
  BY DEF OwnersIInv
<1>1. ASSUME NEW n \in Owners!Nodes, Owners!MakeNode(n)
      PROVE  OwnersIInv'
  <2>1. n \in Owned /\ n \notin held /\ opc = "make" /\ opc' \in {"make", "link"} /\ job = "pair"
    BY <1>1 DEF Owners!MakeNode, Owned, Owners!Nodes
  <2>2. QED
    BY <2>1, <1>1, MadeKeeps DEF Owners!MakeNode
<1>2. ASSUME NEW n \in held, NEW m \in held, Owners!Link(n, m)
      PROVE  OwnersIInv'
  BY <1>2, LinkKeeps
<1>3. CASE Owners!LeaveScope
  BY <1>3, LeaveScopeKeeps
<1>4. CASE Owners!DropShared
  BY <1>4, DropSharedKeeps
<1>5. CASE Owners!DropWeak
  BY <1>5, DropWeakKeeps
<1>6. CASE Owners!EvaluateWidget
  <2>1. "a" \in Owned /\ Owners!Made("a") /\ opc \in {"make", "widget_left"} /\ job = "call"
        /\ opc' \in {"number_left", "called"}
    BY <1>6 DEF Owners!EvaluateWidget, Owned, Owners!Nodes
  <2>2. "a" \notin held
    BY <2>1, <1>0 DEF PlaceInv
  <2>3. QED
    BY <2>1, <2>2, <1>6, MadeKeeps DEF Owners!EvaluateWidget
<1>7. CASE Owners!EvaluateNumber
  <2>1. /\ UNCHANGED <<job, fixed, state, strong, weak, held, other, todo>>
        /\ opc \in {"make", "number_left"} /\ opc' \in {"called", "widget_left"}
        /\ opc' = "widget_left" => opc = "make"
        /\ job = "call"
    BY <1>7 DEF Owners!EvaluateNumber
  <2>2. OwnersTypeOK' /\ CountedInv' /\ StateInv'
    BY <2>1, <1>0 DEF OwnersTypeOK, CountedInv, StateInv, Owned, PointersTo, Points, Pending
  <2>3. PlaceInv'
    BY <2>1, <1>0 DEF PlaceInv, Owned
  <2>4. QED
    BY <2>2, <2>3 DEF OwnersIInv
<1>8. CASE Owners!Return
  <2>1. /\ UNCHANGED <<job, fixed, state, strong, weak, held, other, todo>>
        /\ todo = << >> /\ held = {} /\ opc' = "returned"
    BY <1>8 DEF Owners!Return
  <2>2. OwnersTypeOK' /\ CountedInv' /\ StateInv'
    BY <2>1, <1>0 DEF OwnersTypeOK, CountedInv, StateInv, Owned, PointersTo, Points, Pending
  <2>3. PlaceInv'
    BY <2>1, <1>0 DEF PlaceInv, Owned
  <2>4. QED
    BY <2>2, <2>3 DEF OwnersIInv
<1>9. CASE Owners!Returned
  BY <1>0, <1>9 DEF Owners!Returned, Owners!ownershipVars, OwnersIInv, OwnersTypeOK,
     CountedInv, StateInv, PlaceInv, Owned, PointersTo, Points, Pending
<1>10. QED
  BY <1>1, <1>2, <1>3, <1>4, <1>5, <1>6, <1>7, <1>8, <1>9 DEF Owners!Next

\* The module of the nodes counts as this one does.
LEMMA CountedAlike == \A S : Owners!Cardinality(S) = Cardinality(S)
BY DEF Owners!Cardinality, Cardinality

\* Where a pointer leads, and what leads to a node, in the terms of the property.
LEMMA PointersCounted ==
  ASSUME OwnersTypeOK, NEW n \in Owned
  PROVE  /\ Cardinality(Owners!PointsAt(n)) = PointersTo(n)
         /\ Cardinality({n} \cap held) = One(n \in held)
         /\ PointersTo(n) > 0 <=> \E m \in Owned : Points(m, n)
<1>1. Owners!PointsAt(n) = {m \in {"a", "b"} : Points(m, n)}
  BY DEF Owners!PointsAt, Owners!Nodes, Points
<1>2. /\ Cardinality({}) = 0
      /\ Cardinality({"a"}) = 1 /\ Cardinality({"b"}) = 1 /\ Cardinality({n}) = 1
      /\ Cardinality({"a", "b"}) = 2
  <2>1. /\ Cardinality({}) = 0
        /\ Cardinality({"a"}) = 1 /\ Cardinality({"b"}) = 1 /\ Cardinality({n}) = 1
        /\ IsFiniteSet({"a"})
    BY FS_EmptySet, FS_Singleton
  <2>2. Cardinality({"a"} \cup {"b"}) = 2
    <3>1. "b" \notin {"a"}
      OBVIOUS
    <3>2. Cardinality({"a"} \cup {"b"}) = Cardinality({"a"}) + 1
      BY <2>1, <3>1, FS_AddElement
    <3>3. QED
      BY <2>1, <3>2
  <2>3. {"a"} \cup {"b"} = {"a", "b"}
    OBVIOUS
  <2>4. QED
    BY <2>1, <2>2, <2>3
<1>3. Cardinality(Owners!PointsAt(n)) = PointersTo(n)
  <2>1. CASE Points("a", n) /\ Points("b", n)
    <3>1. Owners!PointsAt(n) = {"a", "b"}
      BY <2>1, <1>1
    <3>2. PointersTo(n) = 2
      BY <2>1 DEF PointersTo, One
    <3>3. QED
      BY <3>1, <3>2, <1>2
  <2>2. CASE Points("a", n) /\ ~Points("b", n)
    <3>1. Owners!PointsAt(n) = {"a"}
      BY <2>2, <1>1
    <3>2. PointersTo(n) = 1
      BY <2>2 DEF PointersTo, One
    <3>3. QED
      BY <3>1, <3>2, <1>2
  <2>3. CASE ~Points("a", n) /\ Points("b", n)
    <3>1. Owners!PointsAt(n) = {"b"}
      BY <2>3, <1>1
    <3>2. PointersTo(n) = 1
      BY <2>3 DEF PointersTo, One
    <3>3. QED
      BY <3>1, <3>2, <1>2
  <2>4. CASE ~Points("a", n) /\ ~Points("b", n)
    <3>1. Owners!PointsAt(n) = {}
      BY <2>4, <1>1
    <3>2. PointersTo(n) = 0
      BY <2>4 DEF PointersTo, One
    <3>3. QED
      BY <3>1, <3>2, <1>2
  <2>5. QED
    BY <2>1, <2>2, <2>3, <2>4
<1>4. Cardinality({n} \cap held) = One(n \in held)
  <2>1. CASE n \in held
    <3>1. {n} \cap held = {n}
      BY <2>1
    <3>2. QED
      BY <3>1, <2>1, <1>2 DEF One
  <2>2. CASE n \notin held
    <3>1. {n} \cap held = {}
      BY <2>2
    <3>2. QED
      BY <3>1, <2>2, <1>2 DEF One
  <2>3. QED
    BY <2>1, <2>2
<1>5. PointersTo(n) > 0 <=> \E m \in Owned : Points(m, n)
  <2>1. (\E m \in Owned : Points(m, n)) <=> Points("a", n) \/ Points("b", n)
    BY DEF Owned, Owners!Nodes
  <2>2. PointersTo(n) > 0 <=> Points("a", n) \/ Points("b", n)
    BY DEF PointersTo, One
  <2>3. QED
    BY <2>1, <2>2
<1>6. QED
  BY <1>3, <1>4, <1>5

\* What is alive when all has been let go is held by a live node, and there are
\* two of them.
LEMMA OnlyCyclesLeak ==
  ASSUME OwnersIInv
  PROVE  Owners!LeakIffCycle
<1>0. OwnersTypeOK /\ CountedInv /\ StateInv /\ PlaceInv
  BY DEF OwnersIInv
<1>1. \A n \in Owned :
        /\ strong[n] \in Nat /\ weak[n] \in Nat /\ PointersTo(n) \in Nat
        /\ Pending("strong", n) \in Nat /\ Pending("weak", n) \in Nat
        /\ One(n \in held) \in Nat /\ One(state[n] = "alive") \in Nat
  BY <1>0, AllPending DEF OwnersTypeOK, One
<1>2. \A n \in held : state[n] = "alive"
  <2> SUFFICES ASSUME NEW n \in held
               PROVE  state[n] = "alive"
    OBVIOUS
  <2>1. n \in Owned /\ One(n \in held) = 1
    BY <1>0 DEF OwnersTypeOK, One
  <2>2. strong[n] > 0
    BY <2>1, <1>0, <1>1 DEF CountedInv
  <2>3. QED
    BY <2>1, <2>2, <1>0 DEF StateInv
<1>3. \A m, n \in Owned : Points(m, n) =>
        state[n] \in IF fixed THEN {"alive", "destroyed"} ELSE {"alive"}
  <2> SUFFICES ASSUME NEW m \in Owned, NEW n \in Owned, Points(m, n)
               PROVE  state[n] \in IF fixed THEN {"alive", "destroyed"} ELSE {"alive"}
    OBVIOUS
  <2>1. PointersTo(n) > 0
    BY <1>0, PointersCounted
  <2>2. IF fixed THEN weak[n] > 0 ELSE strong[n] > 0
    BY <2>1, <1>0, <1>1 DEF CountedInv
  <2>3. QED
    BY <2>2, <1>0 DEF StateInv
<1>4. \A n \in Owners!Nodes : state[n] = "alive" /\ other[n] # Owners!None =>
        state[other[n]] \in IF fixed THEN {"alive", "destroyed"} ELSE {"alive"}
  <2> SUFFICES ASSUME NEW n \in Owned, state[n] = "alive", other[n] # "none"
               PROVE  state[other[n]] \in IF fixed THEN {"alive", "destroyed"} ELSE {"alive"}
    BY DEF Owned, Owners!None
  <2>1. other[n] \in Owned /\ Points(n, other[n])
    BY <1>0 DEF OwnersTypeOK, Points
  <2>2. QED
    BY <2>1, <1>3
<1>5. todo = << >> => \A n \in Owned :
        /\ strong[n] = One(n \in held) + (IF fixed THEN 0 ELSE PointersTo(n))
        /\ weak[n] = One(state[n] = "alive") + (IF fixed THEN PointersTo(n) ELSE 0)
  <2> SUFFICES ASSUME todo = << >>, NEW n \in Owned
               PROVE  /\ strong[n] = One(n \in held) + (IF fixed THEN 0 ELSE PointersTo(n))
                      /\ weak[n] = One(state[n] = "alive") + (IF fixed THEN PointersTo(n) ELSE 0)
    OBVIOUS
  <2>1. Pending("strong", n) = 0 /\ Pending("weak", n) = 0
    BY NoneLeft
  <2>2. QED
    BY <2>1, <1>0, <1>1 DEF CountedInv
<1>6. todo = << >> => \A n \in Owners!Nodes :
        strong[n] = Cardinality({n} \cap held)
                      + IF fixed THEN 0 ELSE Cardinality(Owners!PointsAt(n))
  BY <1>0, <1>5, PointersCounted DEF Owned
<1>7. ASSUME opc = "returned", NEW n \in Owned
      PROVE  /\ state[n] = "alive" <=> Owners!InCycle(n)
             /\ state[n] \in {"none", "alive", "freed"}
  <2>1. todo = << >> /\ held = {}
    BY <1>0, <1>7 DEF PlaceInv
  <2>2. \A k \in Owned : /\ strong[k] = IF fixed THEN 0 ELSE PointersTo(k)
                         /\ weak[k] = One(state[k] = "alive") + (IF fixed THEN PointersTo(k) ELSE 0)
    <3>1. \A k \in Owned : One(k \in held) = 0
      BY <2>1 DEF One
    <3>2. QED
      BY <3>1, <2>1, <1>1, <1>5
  <2>3. \A k \in Owned : PointersTo(k) > 0 <=> \E m \in Owned : Points(m, k)
    BY <1>0, PointersCounted
  <2>4. \A k \in Owned : state[k] = "alive" <=> ~fixed /\ \E m \in Owned : Points(m, k)
    <3> SUFFICES ASSUME NEW k \in Owned
                 PROVE  state[k] = "alive" <=> ~fixed /\ \E m \in Owned : Points(m, k)
      OBVIOUS
    <3>1. state[k] = "alive" <=> strong[k] > 0
      BY <1>0 DEF StateInv
    <3>2. strong[k] > 0 <=> ~fixed /\ PointersTo(k) > 0
      BY <2>2
    <3>3. QED
      BY <3>1, <3>2, <2>3
  <2>5. state[n] # "destroyed"
    <3>1. PointersTo(n) = 0 \/ ~fixed
      <4>1. fixed => ~\E m \in Owned : Points(m, n)
        BY <2>4 DEF Points
      <4>2. QED
        BY <4>1, <2>3, <1>1
    <3>2. state[n] = "destroyed" => weak[n] = 0
      BY <3>1, <2>2 DEF One
    <3>3. QED
      BY <3>2, <1>0 DEF StateInv
  <2>6. Owners!InCycle(n) <=>
          ~fixed /\ (other[n] = n \/ (other[n] # "none" /\ other[other[n]] = n))
    BY DEF Owners!InCycle, Owners!None
  <2>7. ASSUME Owners!InCycle(n)
        PROVE  state[n] = "alive"
    BY <2>6, <2>7, <1>0 DEF StateInv, Owned, Owners!Nodes
  <2>8. ASSUME state[n] = "alive"
        PROVE  Owners!InCycle(n)
    <3>1. PICK m \in Owned : Points(m, n)
      BY <2>4, <2>8
    <3>2. CASE m = n
      BY <3>1, <3>2, <2>4, <2>6, <2>8 DEF Points
    <3>3. CASE m # n
      <4>1. state[m] = "alive" /\ other[m] = n
        BY <3>1 DEF Points
      <4>2. PICK k \in Owned : Points(k, m)
        BY <4>1, <2>4
      <4>3. k # m
        BY <4>1, <4>2, <3>3 DEF Points
      <4>4. k = n
        BY <4>3, <3>3 DEF Owned, Owners!Nodes
      <4>5. other[n] = m /\ m # "none"
        BY <4>2, <4>4 DEF Points, Owned, Owners!Nodes
      <4>6. QED
        BY <4>1, <4>5, <2>4, <2>6, <2>8
    <3>4. QED
      BY <3>2, <3>3
  <2>9. QED
    BY <2>5, <2>7, <2>8, <1>0 DEF OwnersTypeOK
<1>8. opc = "returned" =>
        \A n \in Owners!Nodes : /\ state[n] = "alive" <=> Owners!InCycle(n)
                                /\ state[n] \in {"none", "alive", "freed"}
  BY <1>7 DEF Owned
<1>9. QED
  BY <1>2, <1>4, <1>6, <1>8, CountedAlike DEF Owners!LeakIffCycle
-----------------------------------------------------------------------------
(* K3, K4 and the others that run programs.                                  *)

Keeps == Compiled!KeepsOutput
Writing == Compiled!Writers
Texts == {"number", "error:", "other", "asm", ">:", "insn", "blank", "match"}

SnippetTypeOK ==
  /\ function \in Compiled!Functions
  /\ spc \in {"main", "mkstemps", "write", "system", "wait", "unlink", "unlink_output",
              "readlink", "popen", "fopen", "fgets", "close", "pclose"}
  /\ bin \in BOOLEAN
  /\ child \in {"none", "started", "running", "writing", "done"}
  /\ stream \in [open : BOOLEAN, lines : Seq(Texts)]
  /\ output \in Seq(Texts)
  /\ body \in BOOLEAN
  /\ counted \in Int

\* Where a call is tells which function it is of, and what there is of it.
CallInv ==
  /\ spc \in {"mkstemps", "write", "unlink"} => function \in Writing
  /\ spc \in {"system", "wait"} => function \in Keeps \cup {"compile_seconds"}
  /\ spc = "unlink_output" => function \in Keeps
  /\ spc = "readlink" => function \in Compiled!ReadsItself
  /\ spc = "popen" => function \notin {"compile_seconds", "read_value"}
  /\ spc = "fopen" => function = "read_value"
  /\ spc \in {"fgets", "close", "pclose"} => function # "compile_seconds"

FilesInv ==
  /\ spc \in {"main", "mkstemps", "unlink_output", "readlink", "fopen"} => src = "none"
  /\ function \notin Writing => src = "none"
  /\ function \in Writing /\ spc \in {"system", "wait", "popen", "fgets", "close", "pclose"} =>
       src = "whole"
  /\ function \notin Keeps \/ spc \in {"main", "mkstemps", "write", "system"} => ~bin
  /\ function \in Keeps /\ spc = "wait" => (bin <=> verdict = "compiled")
  /\ function \in Keeps /\ spc \in {"popen", "fgets", "close", "pclose"} =>
       bin /\ verdict = "compiled"

ChildInv ==
  /\ spc \notin {"wait", "fgets", "close", "pclose"} => child = "none"
  /\ stream.open <=> spc \in {"fgets", "close"}
  /\ ~stream.open => stream.lines = << >>
  /\ spc \in {"fgets", "close", "pclose"} => (child = "none" <=> function = "read_value")
  /\ spc = "wait" =>
       /\ child \in {"started", "running", "done"}
       /\ child = "done" => verdict = IF status = "ok" THEN "compiled" ELSE "refused"
       /\ child # "done" => verdict = "none"
  /\ spc \in {"mkstemps", "write", "system"} => verdict = "none"

\* The lines that wait are the last that were printed.
Taken == Len(output) - Len(stream.lines)

LinesInv ==
  /\ Len(stream.lines) <= Len(output)
  /\ \A k \in 1..Len(stream.lines) : stream.lines[k] = output[Taken + k]
  /\ \A k \in 1..Len(output) : output[k] \in Compiled!Lines[function]
  /\ spc \in {"mkstemps", "write", "system", "wait", "readlink", "fopen"} => output = << >>

\* What is counted in the lines s, one by one and up to the n-th.
InFunction(s, k) ==
  /\ s[k] = "insn"
  /\ \E j \in 1..(k - 1) : s[j] = ">:"
  /\ \A j, l \in 1..(k - 1) : j < l => ~(s[j] = ">:" /\ s[l] = "blank")
CountsIn(f, s, k) ==
  \/ f = "publish" /\ s[k] = "asm"
  \/ f = "symbols_matching" /\ s[k] = "match"
  \/ f = "show" /\ InFunction(s, k)
Tally(f, s, n) == Cardinality({k \in 1..n : CountsIn(f, s, k)})
Named(s, n) == \E k \in 1..n : s[k] = ">:"
Over(s, n) == \E j, l \in 1..n : j < l /\ s[j] = ">:" /\ s[l] = "blank"
Holds(s, n, text) == \E k \in 1..n : s[k] = text

AllTaken == stream.lines = << >> /\ child \in {"none", "done"}

\* What is reported so far is what has been read so far.
KeptInv ==
  function \in Keeps \cup {"compile_seconds"} /\ counted # -1 =>
    verdict = "compiled" /\ (function \in Keeps => output # << >>)
MessagesInv ==
  function = "compile_snippet" =>
    /\ counted \in {0, 1}
    /\ counted = 0 => Holds(output, Len(output), "error:") \/ (verdict = "none" /\ child = "none")
    /\ spc \in {"mkstemps", "write", "popen"} => counted = 0 /\ output = << >> /\ verdict = "none"
    /\ counted = 1 => ~Holds(output, Taken, "error:")
    /\ verdict = "compiled" => ~Holds(output, Len(output), "error:")
    /\ verdict # "none" => child \in {"done", "none"}
    /\ spc = "close" => AllTaken
ValueInv ==
  function = "read_value" =>
    /\ spc \in {"fopen", "fgets"} => counted = 0 /\ ~Holds(output, Taken, "match")
    /\ spc \notin {"fopen", "fgets"} => counted = One(Holds(output, Len(output), "match"))
TallyInv ==
  function \in {"publish", "symbols_matching"} =>
    counted = Tally(function, output, Taken) /\ (spc = "close" => AllTaken)
ShowInv ==
  function = "show" =>
    /\ spc = "fgets" => /\ counted = Tally(function, output, Taken)
                        /\ ~Over(output, Taken) /\ (body <=> Named(output, Taken))
    /\ spc # "fgets" => counted = Tally(function, output, Len(output))
    /\ spc = "close" => AllTaken \/ Over(output, Len(output))
    /\ spc \in {"readlink", "popen"} => ~body /\ output = << >>

SnippetIInv ==
  /\ SnippetTypeOK /\ CallInv /\ FilesInv /\ ChildInv /\ LinesInv
  /\ KeptInv /\ MessagesInv /\ ValueInv /\ TallyInv /\ ShowInv

-----------------------------------------------------------------------------
LEMMA TallyIs ==
  ASSUME NEW f, NEW s, NEW n \in Nat
  PROVE  /\ Tally(f, s, 0) = 0
         /\ Tally(f, s, n) \in Nat
         /\ Tally(f, s, n + 1) = Tally(f, s, n) + One(CountsIn(f, s, n + 1))
<1> DEFINE T(m) == {k \in 1..m : CountsIn(f, s, k)}
<1>1. T(0) = {} /\ Cardinality({}) = 0
  BY FS_EmptySet
<1>2. IsFiniteSet(1..n)
  BY FS_Interval
<1>3. T(n) \subseteq 1..n
  OBVIOUS
<1>4. IsFiniteSet(T(n))
  BY <1>2, <1>3, FS_Subset
<1>5. Cardinality(T(n)) \in Nat
  BY <1>4, FS_CardinalityType
<1>6. T(n + 1) = IF CountsIn(f, s, n + 1) THEN T(n) \cup {n + 1} ELSE T(n)
  BY DEF CountsIn
<1>7. n + 1 \notin T(n)
  OBVIOUS
<1> HIDE DEF T
<1>8. Cardinality(T(n) \cup {n + 1}) = Cardinality(T(n)) + 1
  BY <1>4, <1>7, FS_AddElement
<1>9. Cardinality(T(n + 1)) = Cardinality(T(n)) + One(CountsIn(f, s, n + 1))
  BY <1>5, <1>6, <1>8 DEF One
<1>10. QED
  BY <1>1, <1>5, <1>9 DEF Tally, T

\* Only the lines up to the n-th matter.
LEMMA TallyOf ==
  ASSUME NEW f, NEW s, NEW t, NEW n \in Nat, \A k \in 1..n : s[k] = t[k]
  PROVE  /\ Tally(f, s, n) = Tally(f, t, n)
         /\ Over(s, n) <=> Over(t, n)
         /\ Named(s, n) <=> Named(t, n)
         /\ \A text : Holds(s, n, text) <=> Holds(t, n, text)
<1>1. \A k \in 1..n : InFunction(s, k) <=> InFunction(t, k)
  <2> SUFFICES ASSUME NEW k \in 1..n
               PROVE  InFunction(s, k) <=> InFunction(t, k)
    OBVIOUS
  <2>1. s[k] = t[k] /\ \A j \in 1..(k - 1) : j \in 1..n /\ s[j] = t[j]
    OBVIOUS
  <2>2. QED
    BY <2>1 DEF InFunction
<1>2. \A k \in 1..n : CountsIn(f, s, k) <=> CountsIn(f, t, k)
  BY <1>1 DEF CountsIn
<1>3. {k \in 1..n : CountsIn(f, s, k)} = {k \in 1..n : CountsIn(f, t, k)}
  BY <1>2
<1>4. QED
  BY <1>3 DEF Tally, Over, Named, Holds

\* After the empty line nothing counts.
LEMMA OverIsOver ==
  ASSUME NEW s, NEW m \in Nat, NEW n \in Nat, m <= n, Over(s, m)
  PROVE  Over(s, n) /\ Tally("show", s, n) = Tally("show", s, m)
<1>1. Over(s, n)
  BY DEF Over
<1>2. \A k \in 1..n : k > m => ~InFunction(s, k)
  <2> SUFFICES ASSUME NEW k \in 1..n, k > m
               PROVE  ~InFunction(s, k)
    OBVIOUS
  <2>1. \A j \in 1..m : j \in 1..(k - 1)
    OBVIOUS
  <2>2. QED
    BY <2>1 DEF InFunction, Over
<1>3. {k \in 1..n : CountsIn("show", s, k)} = {k \in 1..m : CountsIn("show", s, k)}
  BY <1>2 DEF CountsIn
<1>4. QED
  BY <1>1, <1>3 DEF Tally

LEMMA SnippetInit ==
  ASSUME Compiled!Init
  PROVE  SnippetIInv
<1>1. /\ function = "text_bytes" /\ spc = "main" /\ src = "none" /\ bin = FALSE
      /\ child = "none" /\ stream = [open |-> FALSE, lines |-> << >>] /\ output = << >>
      /\ body = FALSE /\ counted = -1
  BY DEF Compiled!Init, Compiled!Unopened
<1>2. SnippetTypeOK
  <2>1. << >> \in Seq(Texts)
    OBVIOUS
  <2>2. stream \in [open : BOOLEAN, lines : Seq(Texts)]
    BY <2>1, <1>1
  <2>3. output \in Seq(Texts)
    BY <2>1, <1>1
  <2>4. function \in Compiled!Functions /\ bin \in BOOLEAN /\ body \in BOOLEAN
    BY <1>1 DEF Compiled!Functions, Compiled!Writers, Compiled!KeepsOutput
  <2>5. counted \in Int
    BY <1>1
  <2>6. spc = "main" /\ child = "none"
    BY <1>1
  <2>7. QED
    BY <2>2, <2>3, <2>4, <2>6, <2>5 DEF SnippetTypeOK
<1>3. CallInv /\ FilesInv /\ ChildInv
  BY <1>1 DEF CallInv, FilesInv, ChildInv, Writing, Keeps, Compiled!Writers,
     Compiled!KeepsOutput
<1>4. LinesInv
  BY <1>1 DEF LinesInv, Taken
<1>5. KeptInv /\ MessagesInv /\ ValueInv /\ TallyInv /\ ShowInv
  BY <1>1 DEF KeptInv, MessagesInv, ValueInv, TallyInv, ShowInv
<1>6. QED
  BY <1>2, <1>3, <1>4, <1>5 DEF SnippetIInv

\* The actions that neither read nor print.
LEMMA NothingRead ==
  ASSUME SnippetIInv,
         \/ Compiled!MkStemps \/ Compiled!Write \/ Compiled!System \/ Compiled!Wait
         \/ Compiled!Unlink \/ Compiled!UnlinkOutput \/ Compiled!Readlink
         \/ Compiled!ChildStarts \/ Compiled!ChildWrites
  PROVE  SnippetIInv'
<1>0. /\ SnippetTypeOK /\ CallInv /\ FilesInv /\ ChildInv /\ LinesInv
      /\ KeptInv /\ MessagesInv /\ ValueInv /\ TallyInv /\ ShowInv
  BY DEF SnippetIInv
<1>1. UNCHANGED <<function, verdict, status, stream, output, body>>
  BY DEF Compiled!MkStemps, Compiled!Write, Compiled!System, Compiled!Wait, Compiled!Unlink,
     Compiled!UnlinkOutput, Compiled!Readlink, Compiled!ChildStarts, Compiled!ChildWrites,
     Compiled!process, Compiled!reading
<1>2. SnippetTypeOK' /\ CallInv' /\ FilesInv' /\ ChildInv'
  <2>1. CASE Compiled!MkStemps
    BY <2>1, <1>0 DEF Compiled!MkStemps, Compiled!process, Compiled!reading,
       SnippetTypeOK, CallInv, FilesInv, ChildInv, Keeps, Writing, Compiled!Writers,
       Compiled!KeepsOutput, Compiled!ReadsItself, Compiled!Functions
  <2>2. CASE Compiled!Write
    BY <2>2, <1>0 DEF Compiled!Write, Compiled!process, Compiled!reading,
       SnippetTypeOK, CallInv, FilesInv, ChildInv, Keeps, Writing, Compiled!Writers,
       Compiled!KeepsOutput, Compiled!ReadsItself, Compiled!Functions
  <2>3. CASE Compiled!System
    BY <2>3, <1>0 DEF Compiled!System, Compiled!files, Compiled!reading,
       SnippetTypeOK, CallInv, FilesInv, ChildInv, Keeps, Writing, Compiled!Writers,
       Compiled!KeepsOutput, Compiled!ReadsItself, Compiled!Functions
  <2>4. CASE Compiled!Wait
    BY <2>4, <1>0 DEF Compiled!Wait, Compiled!Waited, Compiled!Reaped, Compiled!files,
       Compiled!reading, SnippetTypeOK, CallInv, FilesInv, ChildInv, Keeps, Writing,
       Compiled!Writers, Compiled!KeepsOutput, Compiled!ReadsItself, Compiled!Functions
  <2>5. CASE Compiled!Unlink
    BY <2>5, <1>0 DEF Compiled!Unlink, Compiled!process, Compiled!reading,
       SnippetTypeOK, CallInv, FilesInv, ChildInv, Keeps, Writing, Compiled!Writers,
       Compiled!KeepsOutput, Compiled!ReadsItself, Compiled!Functions
  <2>6. CASE Compiled!UnlinkOutput
    BY <2>6, <1>0 DEF Compiled!UnlinkOutput, Compiled!process, Compiled!reading,
       SnippetTypeOK, CallInv, FilesInv, ChildInv, Keeps, Writing, Compiled!Writers,
       Compiled!KeepsOutput, Compiled!ReadsItself, Compiled!Functions
  <2>7. CASE Compiled!Readlink
    BY <2>7, <1>0 DEF Compiled!Readlink, Compiled!files, Compiled!process, Compiled!reading,
       SnippetTypeOK, CallInv, FilesInv, ChildInv, Keeps, Writing, Compiled!Writers,
       Compiled!KeepsOutput, Compiled!ReadsItself, Compiled!Functions
  <2>8. CASE Compiled!ChildStarts \/ Compiled!ChildWrites
    BY <2>8, <1>0 DEF Compiled!ChildStarts, Compiled!ChildWrites, Compiled!files,
       Compiled!reading, SnippetTypeOK, CallInv, FilesInv, ChildInv, Keeps, Writing,
       Compiled!Writers, Compiled!KeepsOutput, Compiled!ReadsItself, Compiled!Functions
  <2>9. QED
    BY <2>1, <2>2, <2>3, <2>4, <2>5, <2>6, <2>7, <2>8
<1>3. LinesInv'
  <2>1. spc' \in {"mkstemps", "write", "system", "wait", "readlink", "fopen"} => output = << >>
    BY <1>0 DEF Compiled!MkStemps, Compiled!Write, Compiled!System, Compiled!Wait,
       Compiled!Unlink, Compiled!UnlinkOutput, Compiled!Readlink, Compiled!ChildStarts,
       Compiled!ChildWrites, LinesInv
  <2>2. QED
    BY <2>1, <1>0, <1>1 DEF LinesInv, Taken
<1>4. KeptInv' /\ MessagesInv' /\ ValueInv' /\ TallyInv' /\ ShowInv'
  <2>1. CASE Compiled!Wait
    <3>1. function \in Keeps \cup {"compile_seconds"} /\ child = "done" /\ spc = "wait"
          /\ verdict = IF status = "ok" THEN "compiled" ELSE "refused"
      BY <2>1, <1>0 DEF CallInv, ChildInv, Compiled!Wait, Compiled!Waited
    <3>2. counted' = IF status = "ok" /\ function = "compile_seconds" THEN 1 ELSE counted
      BY <2>1 DEF Compiled!Wait
    <3>3. KeptInv'
      BY <3>1, <3>2, <1>0, <1>1 DEF KeptInv, Keeps, Compiled!KeepsOutput
    <3>4. QED
      BY <3>1, <3>3, <1>1 DEF MessagesInv, ValueInv, TallyInv, ShowInv, Keeps,
         Compiled!KeepsOutput
  <2>2. CASE ~Compiled!Wait
    <3>1. counted' = counted
      BY <2>2 DEF Compiled!MkStemps, Compiled!Write, Compiled!System, Compiled!Unlink,
         Compiled!UnlinkOutput, Compiled!Readlink, Compiled!ChildStarts, Compiled!ChildWrites
    <3>2. KeptInv'
      BY <3>1, <1>0, <1>1 DEF KeptInv
    <3>3. Taken' = Taken
      BY <1>1 DEF Taken
    <3>4. /\ spc \notin {"fopen", "fgets", "close"} <=> spc' \notin {"fopen", "fgets", "close"}
          /\ spc \in {"fopen", "fgets", "close"} => spc' = spc
      BY <2>2 DEF Compiled!MkStemps, Compiled!Write, Compiled!System, Compiled!Unlink,
         Compiled!UnlinkOutput, Compiled!Readlink, Compiled!ChildStarts, Compiled!ChildWrites
    <3>5. AllTaken /\ spc' = "close" => AllTaken'
      BY <2>2, <1>1 DEF AllTaken, Compiled!MkStemps, Compiled!Write, Compiled!System,
         Compiled!Unlink, Compiled!UnlinkOutput, Compiled!Readlink, Compiled!ChildStarts,
         Compiled!ChildWrites
    <3>6. MessagesInv'
      <4>1. function = "compile_snippet" /\ verdict # "none" => child' \in {"done", "none"}
        BY <2>2, <1>0, <1>1 DEF MessagesInv, CallInv, Keeps, Compiled!KeepsOutput,
           Compiled!MkStemps, Compiled!Write,
           Compiled!System, Compiled!Unlink, Compiled!UnlinkOutput, Compiled!Readlink,
           Compiled!ChildStarts, Compiled!ChildWrites, Compiled!process
      <4>2. function = "compile_snippet" /\ spc' \in {"mkstemps", "write", "popen"} =>
              spc \in {"mkstemps", "write", "popen"}
        BY <2>2, <1>0 DEF CallInv, Compiled!MkStemps, Compiled!Write, Compiled!System,
           Compiled!Unlink, Compiled!UnlinkOutput, Compiled!Readlink, Compiled!ChildStarts,
           Compiled!ChildWrites, Compiled!ReadsItself
      <4>3. function = "compile_snippet" /\ child = "none" => child' = "none"
        BY <2>2, <1>0 DEF CallInv, Keeps, Compiled!KeepsOutput, Compiled!MkStemps,
           Compiled!Write, Compiled!System, Compiled!Unlink, Compiled!UnlinkOutput,
           Compiled!Readlink, Compiled!ChildStarts, Compiled!ChildWrites, Compiled!process
      <4>4. QED
        BY <4>1, <4>2, <4>3, <3>1, <3>3, <3>4, <3>5, <1>0, <1>1 DEF MessagesInv
    <3>7. ValueInv' /\ TallyInv'
      BY <3>1, <3>3, <3>4, <3>5, <1>0, <1>1 DEF ValueInv, TallyInv
    <3>8. ShowInv'
      <4>1. function = "show" /\ spc' \in {"readlink", "popen"} => spc \in {"readlink", "popen"}
        BY <2>2, <1>0 DEF CallInv, Writing, Compiled!Writers, Compiled!KeepsOutput,
           Compiled!MkStemps, Compiled!Write, Compiled!System, Compiled!Unlink,
           Compiled!UnlinkOutput, Compiled!Readlink, Compiled!ChildStarts,
           Compiled!ChildWrites
      <4>2. QED
        BY <4>1, <3>1, <3>3, <3>4, <3>5, <1>0, <1>1 DEF ShowInv
    <3>9. QED
      BY <3>2, <3>6, <3>7, <3>8
  <2>3. QED
    BY <2>1, <2>2
<1>5. QED
  BY <1>2, <1>3, <1>4 DEF SnippetIInv

LEMMA FunctionCallKeeps ==
  ASSUME SnippetIInv, NEW f \in Compiled!Functions, Compiled!Call(f)
  PROVE  SnippetIInv'
<1>0. SnippetTypeOK /\ FilesInv /\ ChildInv
  BY DEF SnippetIInv
<1>1. /\ spc = "main" /\ function' = f /\ verdict' = "none" /\ output' = << >> /\ body' = FALSE
      /\ counted' = IF f \in Keeps \cup {"compile_seconds"} THEN -1 ELSE 0
      /\ UNCHANGED <<src, bin, child, status, stream>>
  BY DEF Compiled!Call, Compiled!files, Keeps
<1>2. /\ f \in Writing => spc' = "mkstemps"
      /\ f \in Compiled!ReadsItself => spc' = "readlink"
      /\ f = "read_value" => spc' = "fopen"
      /\ f \in Writing \/ f \in Compiled!ReadsItself \/ f = "read_value"
  BY DEF Compiled!Call, Compiled!Functions, Compiled!Writers, Compiled!KeepsOutput,
     Compiled!ReadsItself, Writing
<1>3. /\ src = "none" /\ ~bin /\ child = "none" /\ ~stream.open /\ stream.lines = << >>
  BY <1>0, <1>1 DEF FilesInv, ChildInv
<1>4. SnippetTypeOK'
  <2>1. << >> \in Seq(Texts)
    OBVIOUS
  <2>2. output' \in Seq(Texts)
    BY <2>1, <1>1
  <2>3. /\ function' \in Compiled!Functions /\ bin' \in BOOLEAN /\ body' \in BOOLEAN
        /\ child' = "none" /\ stream' = stream
    BY <1>0, <1>1, <1>3 DEF SnippetTypeOK
  <2>4. counted' \in Int
    BY <1>1
  <2>5. spc' \in {"mkstemps", "readlink", "fopen"}
    BY <1>2
  <2>6. QED
    BY <2>2, <2>3, <2>4, <2>5, <1>0 DEF SnippetTypeOK
<1>5. CallInv' /\ FilesInv' /\ ChildInv'
  BY <1>1, <1>2, <1>3 DEF CallInv, FilesInv, ChildInv, Keeps, Writing, Compiled!Writers,
     Compiled!KeepsOutput, Compiled!ReadsItself
<1>6. LinesInv' /\ Taken' = 0 /\ Len(output') = 0
  BY <1>1, <1>3 DEF LinesInv, Taken
<1>7. Tally(function', output', 0) = 0
  BY TallyIs
<1>8. KeptInv' /\ MessagesInv' /\ ValueInv'
  <2>1. KeptInv'
    BY <1>1 DEF KeptInv
  <2>2. MessagesInv'
    BY <1>1, <1>2, <1>3, <1>6 DEF MessagesInv, Keeps, Writing, Compiled!Writers,
       Compiled!KeepsOutput
  <2>3. ValueInv'
    <3>1. \A t : ~Holds(output', 0, t)
      BY DEF Holds
    <3>2. QED
      BY <3>1, <1>1, <1>2, <1>6 DEF ValueInv, Keeps, Compiled!KeepsOutput
  <2>4. QED
    BY <2>1, <2>2, <2>3
<1>9. TallyInv' /\ ShowInv'
  BY <1>1, <1>2, <1>6, <1>7 DEF TallyInv, ShowInv, Keeps, Writing, Compiled!Writers,
     Compiled!KeepsOutput, Compiled!ReadsItself
<1>10. QED
  BY <1>4, <1>5, <1>6, <1>8, <1>9 DEF SnippetIInv

\* A new stream has no lines, and the one before had none left.
LEMMA PopenKeeps ==
  ASSUME SnippetIInv, Compiled!Popen
  PROVE  SnippetIInv'
<1>0. /\ SnippetTypeOK /\ CallInv /\ FilesInv /\ ChildInv /\ LinesInv
      /\ KeptInv /\ MessagesInv /\ ValueInv /\ TallyInv /\ ShowInv
  BY DEF SnippetIInv
<1>1. /\ spc = "popen" /\ UNCHANGED <<function, src, bin, status, verdict, output, body>>
      /\ counted' = IF function = "compile_snippet" THEN 1 ELSE counted
  BY DEF Compiled!Popen, Compiled!files
<1>2. /\ child = "none" /\ ~stream.open /\ stream.lines = << >>
      /\ function \notin {"compile_seconds", "read_value"}
  BY <1>0, <1>1 DEF ChildInv, CallInv
<1>3. \/ child' = "started" /\ stream' = [open |-> TRUE, lines |-> << >>] /\ spc' = "fgets"
      \/ /\ child' = "none" /\ stream' = stream
         /\ spc' \in {"popen", "unlink", "main"}
         /\ spc' = "popen" => function = "publish"
         /\ spc' = "main" <=> function \notin Writing
  BY <1>2 DEF Compiled!Popen, Compiled!AfterStream, Writing, Compiled!Writers
<1>4. stream'.lines = << >> /\ (stream'.open <=> spc' = "fgets")
  BY <1>2, <1>3
<1>5. SnippetTypeOK'
  <2>1. << >> \in Seq(Texts)
    OBVIOUS
  <2>2. stream' \in [open : BOOLEAN, lines : Seq(Texts)]
    <3>1. [open |-> TRUE, lines |-> << >>] \in [open : BOOLEAN, lines : Seq(Texts)]
      BY <2>1
    <3>2. QED
      BY <3>1, <1>0, <1>3 DEF SnippetTypeOK
  <2>3. QED
    BY <2>2, <1>0, <1>1, <1>3 DEF SnippetTypeOK
<1>6. CallInv' /\ FilesInv' /\ ChildInv'
  BY <1>0, <1>1, <1>2, <1>3, <1>4 DEF CallInv, FilesInv, ChildInv, Keeps, Writing,
     Compiled!Writers, Compiled!KeepsOutput, Compiled!ReadsItself
<1>7. LinesInv' /\ Taken' = Taken /\ Taken = Len(output) /\ Len(output) \in Nat
  <2>1. Len(output) \in Nat
    BY <1>0 DEF SnippetTypeOK
  <2>2. Len(stream.lines) = 0 /\ Len(stream'.lines) = 0
    BY <1>2, <1>4
  <2>3. Taken' = Taken /\ Taken = Len(output)
    BY <1>1, <2>1, <2>2 DEF Taken
  <2>4. /\ \A k \in 1..Len(output) : output[k] \in Compiled!Lines[function]
        /\ spc \in {"mkstemps", "write", "system", "wait", "readlink", "fopen"} => output = << >>
    BY <1>0 DEF LinesInv
  <2>5. spc' \notin {"mkstemps", "write", "system", "wait", "readlink", "fopen"}
    BY <1>3
  <2>6. LinesInv'
    BY <1>1, <2>1, <2>2, <2>4, <2>5 DEF LinesInv
  <2>7. QED
    BY <2>1, <2>3, <2>6
<1>8. KeptInv'
  BY <1>0, <1>1 DEF KeptInv, Keeps, Compiled!KeepsOutput
<1>9. MessagesInv'
  <2>1. Len(<< >>) = 0 /\ \A t : ~Holds(<< >>, 0, t)
    BY DEF Holds
  <2>2. QED
    BY <2>1, <1>0, <1>1, <1>2, <1>3, <1>7 DEF MessagesInv, Writing, Compiled!Writers
<1>10. ValueInv' /\ TallyInv'
  BY <1>0, <1>1, <1>2, <1>3, <1>7 DEF ValueInv, TallyInv, Writing, Compiled!Writers
<1>11. ShowInv'
  <2>1. Len(<< >>) = 0 /\ ~Over(<< >>, 0) /\ ~Named(<< >>, 0)
    BY DEF Over, Named
  <2>2. QED
    BY <2>1, <1>0, <1>1, <1>3, <1>7 DEF ShowInv
<1>12. QED
  BY <1>5, <1>6, <1>7, <1>8, <1>9, <1>10, <1>11 DEF SnippetIInv

LEMMA FopenKeeps ==
  ASSUME SnippetIInv, Compiled!Fopen
  PROVE  SnippetIInv'
<1>0. /\ SnippetTypeOK /\ CallInv /\ FilesInv /\ ChildInv /\ LinesInv /\ ValueInv
  BY DEF SnippetIInv
<1>1. /\ spc = "fopen" /\ UNCHANGED <<function, src, bin, child, status, verdict, body, counted>>
      /\ \/ /\ output' \in Compiled!Contents /\ stream' = [open |-> TRUE, lines |-> output']
            /\ spc' = "fgets"
         \/ UNCHANGED <<output, stream>> /\ spc' = "main"
  BY DEF Compiled!Fopen, Compiled!files, Compiled!process
<1>2. /\ function = "read_value" /\ src = "none" /\ ~bin /\ child = "none" /\ counted = 0
      /\ output = << >> /\ ~stream.open /\ stream.lines = << >>
  BY <1>0, <1>1 DEF CallInv, FilesInv, ChildInv, ValueInv, LinesInv, Keeps,
     Compiled!KeepsOutput
<1>3. \A s \in Compiled!Contents : /\ s \in Seq(Texts)
                                   /\ \A k \in 1..Len(s) : s[k] \in Compiled!Lines["read_value"]
  <2>1. Compiled!Lines["read_value"] = {"match", "other"} /\ Compiled!Lines.read_value = {"match", "other"}
    BY DEF Compiled!Lines
  <2>2. SUFFICES ASSUME NEW s \in Compiled!Contents
                 PROVE  /\ s \in Seq(Texts)
                        /\ \A k \in 1..Len(s) : s[k] \in {"match", "other"}
    BY <2>1
  <2>3. PICK n \in 0..MaxLines : s \in [1..n -> {"match", "other"}]
    BY <2>1 DEF Compiled!Contents
  <2>4. s \in Seq({"match", "other"}) /\ {"match", "other"} \subseteq Texts
    BY <2>3 DEF Texts
  <2>5. QED
    BY <2>4
<1>4. SnippetTypeOK'
  <2>1. output' \in Seq(Texts)
    BY <1>0, <1>1, <1>3 DEF SnippetTypeOK
  <2>2. stream' \in [open : BOOLEAN, lines : Seq(Texts)]
    <3>1. [open |-> TRUE, lines |-> output'] \in [open : BOOLEAN, lines : Seq(Texts)]
      BY <2>1
    <3>2. QED
      BY <3>1, <1>0, <1>1 DEF SnippetTypeOK
  <2>3. QED
    BY <2>1, <2>2, <1>0, <1>1 DEF SnippetTypeOK
<1>5. CallInv' /\ FilesInv' /\ ChildInv'
  BY <1>1, <1>2 DEF CallInv, FilesInv, ChildInv, Keeps, Writing, Compiled!Writers,
     Compiled!KeepsOutput, Compiled!ReadsItself
<1>6. LinesInv' /\ Taken' = 0
  <2>1. Len(output') \in Nat /\ stream'.lines = output'
    BY <1>1, <1>2, <1>4 DEF SnippetTypeOK
  <2>2. Taken' = 0 /\ Len(stream'.lines) <= Len(output')
    BY <2>1 DEF Taken
  <2>3. \A k \in 1..Len(output') : output'[k] \in Compiled!Lines[function']
    <3>1. CASE output' \in Compiled!Contents
      BY <3>1, <1>1, <1>2, <1>3
    <3>2. CASE output' = output
      BY <3>2, <1>0, <1>1 DEF LinesInv
    <3>3. QED
      BY <3>1, <3>2, <1>1
  <2>4. QED
    BY <2>1, <2>2, <2>3, <1>1 DEF LinesInv
<1>7. KeptInv' /\ MessagesInv' /\ TallyInv' /\ ShowInv'
  BY <1>1, <1>2 DEF KeptInv, MessagesInv, TallyInv, ShowInv, Keeps, Compiled!KeepsOutput
<1>8. ValueInv'
  BY <1>1, <1>2, <1>6 DEF ValueInv, Holds, One
<1>9. QED
  BY <1>4, <1>5, <1>6, <1>7, <1>8 DEF SnippetIInv

LEMMA EndOfFileKeeps ==
  ASSUME SnippetIInv, Compiled!EndOfFile
  PROVE  SnippetIInv'
<1>0. /\ SnippetTypeOK /\ CallInv /\ FilesInv /\ ChildInv /\ LinesInv
      /\ KeptInv /\ MessagesInv /\ ValueInv /\ TallyInv /\ ShowInv
  BY DEF SnippetIInv
<1>1. /\ spc = "fgets" /\ stream.lines = << >> /\ child \in {"none", "done"} /\ spc' = "close"
      /\ UNCHANGED <<function, src, bin, child, status, verdict, stream, output, body, counted>>
  BY DEF Compiled!EndOfFile, Compiled!files, Compiled!process, Compiled!reading
<1>2. SnippetTypeOK' /\ CallInv' /\ FilesInv' /\ ChildInv'
  BY <1>0, <1>1 DEF SnippetTypeOK, CallInv, FilesInv, ChildInv
<1>3. LinesInv' /\ Taken' = Taken /\ Taken = Len(output) /\ AllTaken'
  <2>1. Taken' = Taken /\ AllTaken'
    BY <1>1 DEF Taken, AllTaken
  <2>2. Len(output) \in Nat /\ Len(<< >>) = 0
    BY <1>0 DEF SnippetTypeOK
  <2>3. Taken = Len(output)
    BY <2>2, <1>1 DEF Taken
  <2>4. LinesInv'
    BY <2>1, <1>0, <1>1 DEF LinesInv
  <2>5. QED
    BY <2>1, <2>3, <2>4
<1>4. KeptInv' /\ MessagesInv' /\ TallyInv' /\ ShowInv'
  BY <1>0, <1>1, <1>3 DEF KeptInv, MessagesInv, TallyInv, ShowInv
<1>5. ValueInv'
  BY <1>0, <1>1, <1>3 DEF ValueInv, One
<1>6. QED
  BY <1>2, <1>3, <1>4, <1>5 DEF SnippetIInv

LEMMA CloseKeeps ==
  ASSUME SnippetIInv, Compiled!Close
  PROVE  SnippetIInv'
<1>0. /\ SnippetTypeOK /\ CallInv /\ FilesInv /\ ChildInv /\ LinesInv
      /\ KeptInv /\ MessagesInv /\ ValueInv /\ TallyInv /\ ShowInv
  BY DEF SnippetIInv
<1>1. /\ spc = "close" /\ stream' = [open |-> FALSE, lines |-> << >>] /\ spc' = "pclose"
      /\ UNCHANGED <<function, src, bin, child, status, verdict, output, body, counted>>
  BY DEF Compiled!Close, Compiled!StreamClosed, Compiled!Unopened, Compiled!files,
     Compiled!process
<1>2. stream'.lines = << >> /\ stream'.open = FALSE
  BY <1>1
<1>3. SnippetTypeOK'
  <2>1. << >> \in Seq(Texts)
    OBVIOUS
  <2>2. stream' \in [open : BOOLEAN, lines : Seq(Texts)]
    BY <2>1, <1>1
  <2>3. QED
    BY <2>2, <1>0, <1>1 DEF SnippetTypeOK
<1>4. CallInv' /\ FilesInv' /\ ChildInv'
  BY <1>0, <1>1, <1>2 DEF CallInv, FilesInv, ChildInv
<1>5. LinesInv' /\ Taken' = Len(output) /\ (AllTaken => Taken = Len(output))
  BY <1>0, <1>1, <1>2 DEF LinesInv, Taken, SnippetTypeOK, AllTaken
<1>6. KeptInv' /\ MessagesInv' /\ ValueInv' /\ TallyInv' /\ ShowInv'
  BY <1>0, <1>1, <1>5 DEF KeptInv, MessagesInv, ValueInv, TallyInv, ShowInv
<1>7. QED
  BY <1>3, <1>4, <1>5, <1>6 DEF SnippetIInv

LEMMA PcloseKeeps ==
  ASSUME SnippetIInv, Compiled!Pclose
  PROVE  SnippetIInv'
<1>0. /\ SnippetTypeOK /\ CallInv /\ FilesInv /\ ChildInv /\ LinesInv
      /\ KeptInv /\ MessagesInv /\ ValueInv /\ TallyInv /\ ShowInv
  BY DEF SnippetIInv
<1>1. /\ spc = "pclose" /\ child \in {"none", "done"} /\ child' = "none"
      /\ UNCHANGED <<function, src, bin, status, verdict, stream, output, body, counted>>
  BY DEF Compiled!Pclose, Compiled!Waited, Compiled!Reaped, Compiled!files
<1>2. /\ spc' \in {"popen", "unlink", "main"}
      /\ spc' = "popen" => function = "publish"
      /\ spc' = "main" <=> function \notin Writing
  BY DEF Compiled!Pclose, Compiled!AfterStream, Writing, Compiled!Writers
<1>3. SnippetTypeOK'
  BY <1>0, <1>1, <1>2 DEF SnippetTypeOK
<1>4. CallInv' /\ FilesInv' /\ ChildInv'
  BY <1>0, <1>1, <1>2 DEF CallInv, FilesInv, ChildInv, Keeps, Writing, Compiled!Writers,
     Compiled!KeepsOutput, Compiled!ReadsItself
<1>5. LinesInv' /\ Taken' = Taken
  BY <1>0, <1>1, <1>2 DEF LinesInv, Taken
<1>6. KeptInv' /\ MessagesInv' /\ ValueInv' /\ TallyInv' /\ ShowInv'
  BY <1>0, <1>1, <1>2, <1>5 DEF KeptInv, MessagesInv, ValueInv, TallyInv, ShowInv, Writing,
     Compiled!Writers
<1>7. QED
  BY <1>3, <1>4, <1>5, <1>6 DEF SnippetIInv

\* One line more has been read.
LEMMA FgetsKeeps ==
  ASSUME SnippetIInv, Compiled!Fgets
  PROVE  SnippetIInv'
<1>0. /\ SnippetTypeOK /\ CallInv /\ FilesInv /\ ChildInv /\ LinesInv
      /\ KeptInv /\ MessagesInv /\ ValueInv /\ TallyInv /\ ShowInv
  BY DEF SnippetIInv
<1>1. /\ spc = "fgets" /\ stream.lines # << >>
      /\ counted' = Compiled!Counted(Head(stream.lines))
      /\ body' = (body \/ Head(stream.lines) = ">:")
      /\ spc' = IF Compiled!Breaks(Head(stream.lines)) THEN "close" ELSE "fgets"
      /\ stream' = [stream EXCEPT !.lines = Tail(stream.lines)]
      /\ UNCHANGED <<function, src, bin, child, status, verdict, output>>
  BY DEF Compiled!Fgets, Compiled!files, Compiled!process
<1>2. PICK n \in Nat : n = Taken
  <2>1. Len(output) \in Nat /\ Len(stream.lines) \in Nat /\ Len(stream.lines) <= Len(output)
    BY <1>0 DEF SnippetTypeOK, LinesInv
  <2>2. Taken \in Nat
    BY <2>1 DEF Taken
  <2>3. QED
    BY <2>2, Zenon
<1>3. /\ stream.lines \in Seq(Texts) /\ output \in Seq(Texts) /\ stream.open
      /\ Len(stream.lines) \in Nat \ {0} /\ Len(output) \in Nat
      /\ n + 1 \in 1..Len(output)
      /\ stream' \in [open : BOOLEAN, lines : Seq(Texts)]
      /\ stream'.lines = Tail(stream.lines) /\ stream'.open
  <2>1. stream.lines \in Seq(Texts) /\ output \in Seq(Texts) /\ stream.open
    BY <1>0, <1>1 DEF SnippetTypeOK, ChildInv
  <2>2. Len(stream.lines) \in Nat \ {0} /\ Len(output) \in Nat /\ Tail(stream.lines) \in Seq(Texts)
    BY <2>1, <1>1
  <2>3. n + 1 \in 1..Len(output)
    BY <2>2, <1>0, <1>2 DEF LinesInv, Taken
  <2>4. QED
    BY <2>1, <2>2, <2>3, <1>0, <1>1 DEF SnippetTypeOK
<1>4. Head(stream.lines) = output[n + 1] /\ output[n + 1] \in Compiled!Lines[function]
  <2>1. Head(stream.lines) = stream.lines[1]
    BY <1>3
  <2>2. stream.lines[1] = output[n + 1]
    BY <1>0, <1>2, <1>3 DEF LinesInv
  <2>3. QED
    BY <2>1, <2>2, <1>0, <1>3 DEF LinesInv
<1>5. /\ spc' \in {"close", "fgets"}
      /\ spc' = "close" <=> \/ function \in Keeps
                            \/ function = "read_value" /\ output[n + 1] = "match"
                            \/ function = "show" /\ body /\ output[n + 1] = "blank"
      /\ body' = (body \/ output[n + 1] = ">:")
      /\ counted' \in Int
  <2>1. counted \in Int
    BY <1>0 DEF SnippetTypeOK
  <2>2. Compiled!Counted(Head(stream.lines)) \in Int
    BY <2>1 DEF Compiled!Counted
  <2>3. QED
    BY <2>2, <1>1, <1>4 DEF Compiled!Breaks, Keeps
<1>6. SnippetTypeOK'
  BY <1>0, <1>1, <1>3, <1>5 DEF SnippetTypeOK
<1>7. CallInv' /\ FilesInv' /\ ChildInv'
  BY <1>0, <1>1, <1>3, <1>5 DEF CallInv, FilesInv, ChildInv
<1>8. LinesInv' /\ Taken' = n + 1
  <2>1. Len(Tail(stream.lines)) = Len(stream.lines) - 1
        /\ \A k \in 1..Len(Tail(stream.lines)) : Tail(stream.lines)[k] = stream.lines[k + 1]
    BY <1>3
  <2>2. Taken' = n + 1
    BY <2>1, <1>1, <1>2, <1>3 DEF Taken
  <2>3. ASSUME NEW k \in 1..Len(Tail(stream.lines))
        PROVE  Tail(stream.lines)[k] = output[n + 1 + k]
    <3>1. k + 1 \in 1..Len(stream.lines) /\ n + (k + 1) = n + 1 + k
      BY <2>1, <1>3
    <3>2. stream.lines[k + 1] = output[n + (k + 1)]
      BY <3>1, <1>0, <1>2 DEF LinesInv
    <3>3. QED
      BY <2>1, <3>1, <3>2
  <2>4. Len(Tail(stream.lines)) <= Len(output)
    BY <2>1, <1>0, <1>3 DEF LinesInv
  <2>5. QED
    BY <2>2, <2>3, <2>4, <1>0, <1>1, <1>3, <1>5 DEF LinesInv
<1>9. \A text : Holds(output, n + 1, text) <=> Holds(output, n, text) \/ output[n + 1] = text
  <2>1. \A k : k \in 1..(n + 1) <=> k \in 1..n \/ k = n + 1
    OBVIOUS
  <2>2. QED
    BY <2>1 DEF Holds
<1>10. output # << >> /\ \A text : output[n + 1] = text => Holds(output, Len(output), text)
  BY <1>3 DEF Holds
<1>11. KeptInv'
  BY <1>0, <1>1, <1>10 DEF KeptInv, FilesInv, CallInv, Keeps, Writing, Compiled!Writers
<1>12. MessagesInv'
  <2> SUFFICES ASSUME function = "compile_snippet"
               PROVE  MessagesInv'
    BY <1>1 DEF MessagesInv
  <2>1. output[n + 1] \in {"error:", "other"}
    BY <1>4 DEF Compiled!Lines
  <2>2. counted' = IF output[n + 1] = "error:" THEN 0 ELSE counted
    BY <2>1, <1>1, <1>4 DEF Compiled!Counted
  <2>3. spc' = "fgets"
    BY <1>5 DEF Keeps, Compiled!KeepsOutput
  <2>4. QED
    BY <2>1, <2>2, <2>3, <1>0, <1>1, <1>2, <1>8, <1>9, <1>10 DEF MessagesInv
<1>13. ValueInv'
  <2> SUFFICES ASSUME function = "read_value"
               PROVE  ValueInv'
    BY <1>1 DEF ValueInv
  <2>1. output[n + 1] \in {"match", "other"}
    BY <1>4 DEF Compiled!Lines
  <2>2. counted = 0 /\ ~Holds(output, n, "match")
    BY <1>0, <1>1, <1>2 DEF ValueInv
  <2>3. counted' = IF output[n + 1] = "match" THEN 1 ELSE 0
    BY <2>1, <2>2, <1>1, <1>4 DEF Compiled!Counted
  <2>4. spc' = IF output[n + 1] = "match" THEN "close" ELSE "fgets"
    BY <1>5 DEF Keeps, Compiled!KeepsOutput
  <2>5. QED
    BY <2>1, <2>2, <2>3, <2>4, <1>1, <1>8, <1>9, <1>10 DEF ValueInv, One
<1>14. /\ Tally(function, output, n + 1) = Tally(function, output, n)
                                            + One(CountsIn(function, output, n + 1))
       /\ Tally(function, output, n) \in Nat
  BY TallyIs
<1>15. TallyInv'
  <2> SUFFICES ASSUME function \in {"publish", "symbols_matching"}
               PROVE  TallyInv'
    BY <1>1 DEF TallyInv
  <2>1. CountsIn(function, output, n + 1) <=> output[n + 1] \in {"asm", "match"}
    BY <1>4 DEF CountsIn, Compiled!Lines
  <2>2. counted' = counted + One(output[n + 1] \in {"asm", "match"})
    <3>1. output[n + 1] \in {"asm", "match", "other"} /\ counted \in Int
      BY <1>0, <1>4 DEF Compiled!Lines, SnippetTypeOK
    <3>2. QED
      BY <3>1, <1>1, <1>4 DEF Compiled!Counted, One
  <2>3. One(CountsIn(function, output, n + 1)) = One(output[n + 1] \in {"asm", "match"})
    BY <2>1 DEF One
  <2>4. spc' = "fgets"
    BY <1>5 DEF Keeps, Compiled!KeepsOutput
  <2>5. counted = Tally(function, output, n)
    BY <1>0, <1>2 DEF TallyInv
  <2>6. counted' = Tally(function, output, n + 1)
    BY <2>2, <2>3, <2>5, <1>14, Zenon
  <2>7. QED
    BY <2>4, <2>6, <1>1, <1>8 DEF TallyInv
<1>16. ShowInv'
  <2> SUFFICES ASSUME function = "show"
               PROVE  ShowInv'
    BY <1>1 DEF ShowInv
  <2>1. output[n + 1] \in {">:", "insn", "blank"} /\ counted \in Int
    BY <1>0, <1>4 DEF Compiled!Lines, SnippetTypeOK
  <2>2. /\ counted = Tally("show", output, n) /\ ~Over(output, n)
        /\ body <=> Named(output, n)
    BY <1>0, <1>1, <1>2 DEF ShowInv
  <2>3. InFunction(output, n + 1) <=> output[n + 1] = "insn" /\ body
    <3>1. n + 1 - 1 = n
      OBVIOUS
    <3>2. QED
      BY <2>2, <3>1 DEF InFunction, Over, Named
  <2>4. counted' = counted + One(output[n + 1] = "insn" /\ body)
    BY <2>1, <1>1, <1>4 DEF Compiled!Counted, One
  <2>5. One(CountsIn("show", output, n + 1)) = One(output[n + 1] = "insn" /\ body)
    BY <2>3 DEF CountsIn, One
  <2>6. counted' = Tally("show", output, n + 1)
    BY <2>2, <2>4, <2>5, <1>14, Zenon
  <2>7. Named(output, n + 1) <=> Named(output, n) \/ output[n + 1] = ">:"
    BY <1>9 DEF Named, Holds
  <2>8. Over(output, n + 1) <=> Over(output, n) \/ (Named(output, n) /\ output[n + 1] = "blank")
    BY DEF Over, Named
  <2>9. CASE spc' = "fgets"
    BY <2>2, <2>6, <2>7, <2>8, <2>9, <1>1, <1>5, <1>8 DEF ShowInv
  <2>10. CASE spc' # "fgets"
    <3>1. spc' = "close" /\ body /\ output[n + 1] = "blank"
      BY <2>10, <1>5 DEF Keeps, Compiled!KeepsOutput
    <3>2. Over(output, n + 1)
      BY <3>1, <2>2, <2>8
    <3>3. Over(output, Len(output)) /\ Tally("show", output, Len(output)) = Tally("show", output, n + 1)
      BY <3>2, <1>3, OverIsOver
    <3>4. QED
      BY <3>1, <3>3, <2>6, <1>1 DEF ShowInv
  <2>11. QED
    BY <2>9, <2>10
<1>17. QED
  BY <1>6, <1>7, <1>8, <1>11, <1>12, <1>13, <1>15, <1>16 DEF SnippetIInv

\* Whoever reads has not seen the line that is printed; whoever has stopped early
\* does not count it.
LEMMA PrintsKeeps ==
  ASSUME SnippetIInv, Compiled!ChildPrints
  PROVE  SnippetIInv'
<1>0. /\ SnippetTypeOK /\ CallInv /\ FilesInv /\ ChildInv /\ LinesInv
      /\ KeptInv /\ MessagesInv /\ ValueInv /\ TallyInv /\ ShowInv
  BY DEF SnippetIInv
<1>1. PICK line \in Compiled!Lines[function] :
        /\ stream' = [stream EXCEPT !.lines = Append(stream.lines, line)]
        /\ output' = Append(output, line)
  BY DEF Compiled!ChildPrints
<1>2. /\ child = "writing" /\ stream.open /\ child' = "running"
      /\ UNCHANGED <<function, spc, src, bin, status, verdict, body, counted>>
  BY DEF Compiled!ChildPrints, Compiled!files
<1>3. line \in Texts
  BY <1>0 DEF SnippetTypeOK, Compiled!Functions, Compiled!Writers, Compiled!KeepsOutput,
     Compiled!ReadsItself, Compiled!Lines, Texts
<1>4. /\ stream.lines \in Seq(Texts) /\ output \in Seq(Texts)
      /\ Len(stream.lines) \in Nat /\ Len(output) \in Nat /\ Len(stream.lines) <= Len(output)
      /\ Taken \in 0..Len(output)
  <2>1. stream.lines \in Seq(Texts) /\ output \in Seq(Texts) /\ Len(stream.lines) <= Len(output)
    BY <1>0 DEF SnippetTypeOK, LinesInv
  <2>2. Len(stream.lines) \in Nat /\ Len(output) \in Nat
    BY <2>1
  <2>3. QED
    BY <2>1, <2>2 DEF Taken
<1>5. /\ Append(output, line) \in Seq(Texts) /\ Append(stream.lines, line) \in Seq(Texts)
      /\ Len(Append(output, line)) = Len(output) + 1
      /\ Len(Append(stream.lines, line)) = Len(stream.lines) + 1
      /\ \A k \in 1..Len(output) : Append(output, line)[k] = output[k]
      /\ \A k \in 1..Len(stream.lines) : Append(stream.lines, line)[k] = stream.lines[k]
      /\ Append(output, line)[Len(output) + 1] = line
      /\ Append(stream.lines, line)[Len(stream.lines) + 1] = line
  BY <1>3, <1>4
<1>6. stream' \in [open : BOOLEAN, lines : Seq(Texts)] /\ stream'.open
      /\ stream'.lines = Append(stream.lines, line)
  BY <1>0, <1>1, <1>2, <1>5 DEF SnippetTypeOK
<1>7. SnippetTypeOK'
  <2>1. output' \in Seq(Texts)
    BY <1>1, <1>5
  <2>2. QED
    BY <2>1, <1>0, <1>2, <1>6 DEF SnippetTypeOK
<1>8. CallInv' /\ FilesInv' /\ ChildInv'
  BY <1>0, <1>2, <1>6 DEF CallInv, FilesInv, ChildInv
<1>9. Taken' = Taken /\ Len(output') = Len(output) + 1
  BY <1>1, <1>4, <1>5, <1>6 DEF Taken
<1>10. LinesInv'
  <2>1. ASSUME NEW k \in 1..Len(stream'.lines)
        PROVE  stream'.lines[k] = output'[Taken + k]
    <3>1. CASE k \in 1..Len(stream.lines)
      <4>1. Taken + k \in 1..Len(output)
        BY <3>1, <1>4 DEF Taken
      <4>2. QED
        BY <3>1, <4>1, <1>0, <1>1, <1>5, <1>6 DEF LinesInv
    <3>2. CASE k = Len(stream.lines) + 1
      <4>1. Taken + k = Len(output) + 1
        <5>1. \A x, y \in Nat : (x - y) + (y + 1) = x + 1
          OBVIOUS
        <5>2. Taken + k = (Len(output) - Len(stream.lines)) + (Len(stream.lines) + 1)
          BY <3>2 DEF Taken
        <5>3. QED
          BY <5>1, <5>2, <1>4
      <4>2. QED
        BY <3>2, <4>1, <1>1, <1>5, <1>6
    <3>3. QED
      BY <2>1, <3>1, <3>2, <1>4, <1>5, <1>6
  <2>2. \A k \in 1..Len(output') : output'[k] \in Compiled!Lines[function]
    <3>1. \A k \in 1..(Len(output) + 1) : k \in 1..Len(output) \/ k = Len(output) + 1
      BY <1>4
    <3>2. QED
      BY <3>1, <1>0, <1>1, <1>5, <1>9 DEF LinesInv
  <2>3. Len(stream'.lines) <= Len(output')
    BY <1>4, <1>5, <1>6, <1>9
  <2>4. spc \in {"fgets", "close"}
    BY <1>0, <1>2 DEF ChildInv
  <2>5. QED
    BY <2>1, <2>2, <2>3, <2>4, <1>2, <1>9 DEF LinesInv
<1>11. ASSUME NEW n \in 0..Len(output)
       PROVE  /\ Tally(function, output', n) = Tally(function, output, n)
              /\ Over(output', n) <=> Over(output, n)
              /\ Named(output', n) <=> Named(output, n)
              /\ \A text : Holds(output', n, text) <=> Holds(output, n, text)
  <2>1. n \in Nat /\ \A k \in 1..n : output'[k] = output[k]
    BY <1>1, <1>4, <1>5, <1>11
  <2>2. QED
    BY <2>1, TallyOf
<1>12. ~AllTaken /\ ~AllTaken'
  BY <1>2 DEF AllTaken
<1>13. KeptInv'
  <2>1. output' # << >>
    BY <1>1, <1>4, <1>5
  <2>2. QED
    BY <2>1, <1>0, <1>2 DEF KeptInv
<1>14. MessagesInv'
  <2>1. Holds(output', Taken, "error:") <=> Holds(output, Taken, "error:")
    BY <1>4, <1>11
  <2>2. Holds(output, Len(output), "error:") => Holds(output', Len(output'), "error:")
    BY <1>1, <1>4, <1>5, <1>9 DEF Holds
  <2>3. spc \in {"fgets", "close"}
    BY <1>0, <1>2 DEF ChildInv
  <2>4. QED
    BY <2>1, <2>2, <2>3, <1>0, <1>2, <1>9, <1>12 DEF MessagesInv
<1>15. ValueInv'
  BY <1>0, <1>2 DEF ValueInv, ChildInv
<1>16. TallyInv'
  <2>1. Tally(function, output', Taken) = Tally(function, output, Taken)
    BY <1>4, <1>11
  <2>2. QED
    BY <2>1, <1>0, <1>2, <1>9, <1>12 DEF TallyInv
<1>17. ShowInv'
  <2> SUFFICES ASSUME function = "show"
               PROVE  ShowInv'
    BY <1>2 DEF ShowInv
  <2>1. spc \in {"fgets", "close"}
    BY <1>0, <1>2 DEF ChildInv
  <2>2. CASE spc = "fgets"
    <3>1. /\ Tally(function, output', Taken) = Tally(function, output, Taken)
          /\ Over(output', Taken) <=> Over(output, Taken)
          /\ Named(output', Taken) <=> Named(output, Taken)
      BY <1>4, <1>11
    <3>2. QED
      BY <2>2, <3>1, <1>0, <1>2, <1>9 DEF ShowInv
  <2>3. CASE spc = "close"
    <3>1. counted = Tally("show", output, Len(output)) /\ Over(output, Len(output))
      BY <2>3, <1>0, <1>12 DEF ShowInv
    <3>2. /\ Tally("show", output', Len(output)) = Tally("show", output, Len(output))
          /\ Over(output', Len(output))
      BY <3>1, <1>4, <1>11
    <3>3. /\ Tally("show", output', Len(output')) = Tally("show", output', Len(output))
          /\ Over(output', Len(output'))
      BY <3>2, <1>4, <1>9, OverIsOver
    <3>4. QED
      BY <2>3, <3>1, <3>2, <3>3, <1>2 DEF ShowInv
  <2>4. QED
    BY <2>1, <2>2, <2>3
<1>18. QED
  BY <1>7, <1>8, <1>10, <1>13, <1>14, <1>15, <1>16, <1>17 DEF SnippetIInv

\* A compiler that has printed an error does not end well.
LEMMA EndsKeeps ==
  ASSUME SnippetIInv, Compiled!ChildEnds \/ Compiled!BrokenPipe
  PROVE  SnippetIInv'
<1>0. /\ SnippetTypeOK /\ CallInv /\ FilesInv /\ ChildInv /\ LinesInv
      /\ KeptInv /\ MessagesInv /\ ValueInv /\ TallyInv /\ ShowInv
  BY DEF SnippetIInv
<1>1. PICK with \in {"ok", "failed"} : /\ Compiled!Ends(with)
                                       /\ Holds(output, Len(output), "error:") => with = "failed"
  <2>1. Compiled!Contains(output, "error:") <=> Holds(output, Len(output), "error:")
    BY DEF Compiled!Contains, Holds
  <2>2. QED
    BY <2>1 DEF Compiled!ChildEnds, Compiled!BrokenPipe
<1>2. /\ child' = "done" /\ status' = with /\ child \in {"running", "writing"}
      /\ child = "writing" => ~stream.open
      /\ UNCHANGED <<function, spc, src, stream, output, body, counted>>
      /\ IF verdict = "none" /\ function \in Writing
         THEN /\ verdict' = IF with = "ok" THEN "compiled" ELSE "refused"
              /\ bin' = (bin \/ (function \in Keeps /\ with = "ok"))
         ELSE UNCHANGED <<verdict, bin>>
  BY <1>1 DEF Compiled!Ends, Compiled!ChildEnds, Compiled!BrokenPipe, Compiled!reading,
     Writing, Keeps
<1>3. spc \in {"wait", "fgets", "close", "pclose"}
  BY <1>0, <1>2 DEF ChildInv
<1>4. SnippetTypeOK'
  BY <1>0, <1>2 DEF SnippetTypeOK
<1>5. CallInv' /\ FilesInv' /\ ChildInv'
  BY <1>0, <1>2, <1>3 DEF CallInv, FilesInv, ChildInv, Writing, Keeps, Compiled!Writers,
     Compiled!KeepsOutput
<1>6. LinesInv' /\ Taken' = Taken
  BY <1>0, <1>2 DEF LinesInv, Taken
<1>7. AllTaken => AllTaken'
  BY <1>2 DEF AllTaken
<1>8. KeptInv'
  BY <1>0, <1>2 DEF KeptInv
<1>9. MessagesInv'
  <2> SUFFICES ASSUME function = "compile_snippet"
               PROVE  MessagesInv'
    BY <1>2 DEF MessagesInv
  <2>1. verdict = "none"
    BY <1>0, <1>2 DEF MessagesInv
  <2>2. /\ verdict' # "none" => child' = "done"
        /\ verdict' = "compiled" => ~Holds(output, Len(output), "error:")
    BY <2>1, <1>1, <1>2 DEF Writing, Compiled!Writers
  <2>3. spc \notin {"mkstemps", "write", "popen"}
    BY <1>3
  <2>4. counted = 0 => Holds(output, Len(output), "error:")
    BY <2>1, <1>0, <1>2 DEF MessagesInv
  <2>5. QED
    BY <2>2, <2>3, <2>4, <1>0, <1>2, <1>6, <1>7 DEF MessagesInv
<1>10. ValueInv' /\ TallyInv' /\ ShowInv'
  BY <1>0, <1>2, <1>6, <1>7 DEF ValueInv, TallyInv, ShowInv
<1>11. QED
  BY <1>4, <1>5, <1>6, <1>8, <1>9, <1>10 DEF SnippetIInv

LEMMA SnippetRests ==
  ASSUME SnippetIInv, UNCHANGED snippetVars
  PROVE  SnippetIInv'
BY DEF snippetVars, SnippetIInv, SnippetTypeOK, CallInv, FilesInv, ChildInv, LinesInv, KeptInv,
   MessagesInv, ValueInv, TallyInv, ShowInv, Taken, AllTaken

LEMMA SnippetStep ==
  ASSUME SnippetIInv, Compiled!Next
  PROVE  SnippetIInv'
<1>1. CASE Compiled!Done
  <2>1. UNCHANGED snippetVars
    BY <1>1 DEF Compiled!Done, Compiled!snippetVars, Compiled!files, Compiled!process,
       Compiled!reading, snippetVars
  <2>2. QED
    BY <2>1, SnippetRests
<1>2. QED
  BY <1>1, FunctionCallKeeps, NothingRead, PopenKeeps, FopenKeeps, FgetsKeeps, EndOfFileKeeps,
     CloseKeeps, PcloseKeeps, PrintsKeeps, EndsKeeps DEF Compiled!Next, Compiled!Child

LEMMA CountedAlikeThere == \A S : Compiled!Cardinality(S) = Cardinality(S)
BY DEF Compiled!Cardinality, Cardinality

LEMMA SnippetsClean ==
  ASSUME SnippetIInv
  PROVE  Compiled!NothingLeftBehind
<1>0. /\ SnippetTypeOK /\ CallInv /\ FilesInv /\ ChildInv /\ LinesInv
      /\ KeptInv /\ MessagesInv /\ ValueInv /\ TallyInv /\ ShowInv
  BY DEF SnippetIInv
<1>1. spc = "main" => /\ src = "none" /\ ~bin /\ child = "none"
                      /\ stream = [open |-> FALSE, lines |-> << >>]
  <2>1. spc = "main" => src = "none" /\ ~bin /\ child = "none" /\ ~stream.open /\ stream.lines = << >>
    BY <1>0 DEF FilesInv, ChildInv
  <2>2. stream = [open |-> stream.open, lines |-> stream.lines] /\ stream.open \in BOOLEAN
    BY <1>0 DEF SnippetTypeOK
  <2>3. QED
    BY <2>1, <2>2
<1>2. child \in {"started", "running", "writing"} /\ function \in Writing =>
        IF function \in Keeps /\ verdict # "none" THEN bin ELSE src = "whole"
  BY <1>0 DEF ChildInv, FilesInv
<1>3. ASSUME spc = "main"
      PROVE  Compiled!Reported
  <2>1. Len(output) \in Nat /\ DOMAIN output = 1..Len(output)
    BY <1>0 DEF SnippetTypeOK
  <2>2. stream.lines = << >> /\ Taken = Len(output)
    <3>1. stream.lines = << >>
      BY <1>0, <1>3 DEF ChildInv
    <3>2. QED
      BY <3>1, <2>1 DEF Taken
  <2>3. \A text : Compiled!Contains(output, text) <=> Holds(output, Len(output), text)
    BY DEF Compiled!Contains, Holds
  <2>4. CASE function \in Keeps \cup {"compile_seconds"}
    BY <2>4, <1>0 DEF Compiled!Reported, KeptInv, Keeps, Compiled!KeepsOutput
  <2>5. CASE function = "compile_snippet"
    <3>1. /\ counted = 0 => verdict # "compiled"
          /\ counted = 1 => ~Holds(output, Len(output), "error:")
      BY <2>2, <2>5, <1>0 DEF MessagesInv
    <3>2. QED
      BY <2>3, <2>5, <3>1 DEF Compiled!Reported, Compiled!KeepsOutput
  <2>6. CASE function \in {"publish", "symbols_matching"}
    <3>1. counted = Tally(function, output, Len(output))
      BY <2>2, <2>6, <1>0 DEF TallyInv
    <3>2. \A k : CountsIn(function, output, k) <=>
                   output[k] = IF function = "publish" THEN "asm" ELSE "match"
      BY <2>6 DEF CountsIn
    <3>3. \A text : Compiled!Occurrences(text) = Cardinality({k \in 1..Len(output) : output[k] = text})
      BY <2>1, CountedAlikeThere DEF Compiled!Occurrences
    <3>4. {k \in 1..Len(output) : CountsIn(function, output, k)}
            = {k \in 1..Len(output) : output[k] = IF function = "publish" THEN "asm" ELSE "match"}
      BY <3>2
    <3>5. counted = Compiled!Occurrences(IF function = "publish" THEN "asm" ELSE "match")
      BY <3>1, <3>3, <3>4 DEF Tally
    <3>6. QED
      BY <2>6, <3>5 DEF Compiled!Reported, Compiled!KeepsOutput
  <2>7. CASE function = "read_value"
    <3>1. counted = One(Holds(output, Len(output), "match"))
      BY <2>7, <1>0, <1>3 DEF ValueInv
    <3>2. QED
      BY <2>3, <2>7, <3>1 DEF Compiled!Reported, Compiled!KeepsOutput, One
  <2>8. CASE function = "show"
    <3>1. counted = Tally("show", output, Len(output))
      BY <2>8, <1>0, <1>3 DEF ShowInv
    <3>2. \A k : CountsIn("show", output, k) <=> Compiled!OfFunction(k)
      BY DEF CountsIn, InFunction, Compiled!OfFunction
    <3>3. {k \in 1..Len(output) : CountsIn("show", output, k)}
            = {k \in 1..Len(output) : Compiled!OfFunction(k)}
      BY <3>2
    <3>4. counted = Compiled!OneFunction
      BY <2>1, <3>1, <3>3, CountedAlikeThere DEF Tally, Compiled!OneFunction
    <3>5. QED
      BY <2>8, <3>4 DEF Compiled!Reported, Compiled!KeepsOutput
  <2>9. QED
    BY <2>4, <2>5, <2>6, <2>7, <2>8, <1>0 DEF SnippetTypeOK, Compiled!Functions,
       Compiled!Writers, Compiled!ReadsItself, Keeps
<1>4. QED
  BY <1>1, <1>2, <1>3 DEF Compiled!NothingLeftBehind, Compiled!Unopened, Writing, Keeps
-----------------------------------------------------------------------------
(* What is not picked stays as it is.                                        *)

ProgramsIInv == LifetimeIInv /\ OwnersIInv /\ SnippetIInv

\* The inductive invariant: the three that are proved about, each beside the others.
THEOREM ProgramsInductive == ExercisesSpec => []ProgramsIInv
<1>0. N \in Nat \ {0}
  BY ExercisesAssumption DEF ExercisesAssumption
<1>1. ExercisesInit => ProgramsIInv
  BY <1>0, LifetimeInit, OwnersInit, SnippetInit DEF ExercisesInit, ProgramsIInv
<1>2. ProgramsIInv /\ [ExercisesNext]_exerciseVars => ProgramsIInv'
  <2> SUFFICES ASSUME ProgramsIInv, [ExercisesNext]_exerciseVars
               PROVE  ProgramsIInv'
    OBVIOUS
  <2>0. LifetimeIInv /\ OwnersIInv /\ SnippetIInv
    BY DEF ProgramsIInv
  <2>1. UNCHANGED lifetimeVars => LifetimeIInv'
    BY <2>0 DEF lifetimeVars, LifetimeIInv, LifetimeTypeOK, LifetimeInv, Prefix, Blocks, One
  <2>2. UNCHANGED ownershipVars => OwnersIInv'
    BY <2>0 DEF ownershipVars, OwnersIInv, OwnersTypeOK, CountedInv, StateInv, PlaceInv,
       Owned, PointersTo, Points, Pending
  <2>3. UNCHANGED snippetVars => SnippetIInv'
    BY <2>0, SnippetRests
  <2>4. CASE Lifetimes
    <3>1. LifetimeIInv'
      BY <2>0, <2>4, <1>0, LifetimeStep DEF Lifetimes
    <3>2. UNCHANGED ownershipVars /\ UNCHANGED snippetVars
      BY <2>4 DEF Lifetimes
    <3>3. QED
      BY <3>1, <3>2, <2>2, <2>3 DEF ProgramsIInv
  <2>5. CASE Owns
    <3>1. OwnersIInv'
      BY <2>0, <2>5, OwnersStep DEF Owns
    <3>2. UNCHANGED lifetimeVars /\ UNCHANGED snippetVars
      BY <2>5 DEF Owns
    <3>3. QED
      BY <3>1, <3>2, <2>1, <2>3 DEF ProgramsIInv
  <2>6. CASE Compiles
    <3>1. SnippetIInv'
      BY <2>0, <2>6, SnippetStep DEF Compiles
    <3>2. UNCHANGED lifetimeVars /\ UNCHANGED ownershipVars
      BY <2>6 DEF Compiles
    <3>3. QED
      BY <3>1, <3>2, <2>1, <2>2 DEF ProgramsIInv
  <2>7. CASE Computes \/ UNCHANGED exerciseVars
    <3>1. UNCHANGED lifetimeVars /\ UNCHANGED ownershipVars /\ UNCHANGED snippetVars
      BY <2>7 DEF Computes, exerciseVars
    <3>2. QED
      BY <3>1, <2>1, <2>2, <2>3 DEF ProgramsIInv
  <2>8. QED
    BY <2>4, <2>5, <2>6, <2>7 DEF ExercisesNext
<1>3. QED
  BY <1>1, <1>2, PTL DEF ExercisesSpec

\* Every object that H1 and H2 build by hand is destroyed, once, also when the
\* constructor of a later one throws, and the tag of a Tagged is never wrong about
\* what it holds.
THEOREM NoObjectForgotten == ExercisesSpec => []LivesOnce
<1>0. N \in Nat \ {0}
  BY ExercisesAssumption DEF ExercisesAssumption
<1>1. ProgramsIInv => LivesOnce
  BY <1>0, EveryObjectDiesOnce DEF ProgramsIInv, LivesOnce
<1>2. QED
  BY <1>1, ProgramsInductive, PTL

\* However often the pointers of the two nodes are turned round, what is left when
\* the scope has ended is the nodes that hold each other or themselves, with
\* weak_ptr nothing; and a Widget never, whichever argument threw.
THEOREM NothingLeaksButCycles == ExercisesSpec => []LeakIffCycle
<1>1. ProgramsIInv => LeakIffCycle
  BY OnlyCyclesLeak DEF ProgramsIInv, LeakIffCycle
<1>2. QED
  BY <1>1, ProgramsInductive, PTL

\* Whatever fails on the way, a call of K3, K4, J1, J2 or I5 leaves no file, process
\* or stream behind, no compiler lacks its source, and what is reported is
\* what was printed, for any number of calls and lines.
THEOREM CallsCleanUp == ExercisesSpec => []NothingLeftBehind
<1>1. ProgramsIInv => NothingLeftBehind
  BY SnippetsClean DEF ProgramsIInv, NothingLeftBehind
<1>2. QED
  BY <1>1, ProgramsInductive, PTL

\* A program that has no room in the pipe is one that the function reads from, and
\* then there are lines to be read, in a pipe of any size; and a pipe is closed before
\* its program is waited for.
THEOREM PipesNeverBlock == ExercisesSpec => []NeverBothWait
<1>1. PipeSize \in Nat \ {0}
  BY ExercisesAssumption DEF ExercisesAssumption
<1>2. ASSUME SnippetIInv, Compiled!FunctionWaits, Compiled!ChildWaits
      PROVE  FALSE
  <2>1. stream.open <=> spc \in {"fgets", "close"}
    BY <1>2 DEF SnippetIInv, ChildInv
  <2>2. spc = "fgets" /\ stream.lines = << >> /\ Len(stream.lines) >= PipeSize
    BY <1>2, <2>1 DEF Compiled!FunctionWaits, Compiled!ChildWaits
  <2>3. QED
    BY <1>1, <2>2
<1>3. ProgramsIInv => NeverBothWait
  BY <1>2 DEF ProgramsIInv, NeverBothWait, Compiled!NeverBothWait
<1>4. QED
  BY <1>3, ProgramsInductive, PTL
-----------------------------------------------------------------------------
(* The algorithms of the worksheets.  A loop is a function of the rounds that  *)
(* have been made, which is unique because two of them agree round by round,   *)
(* and exists because its closed form is one.                                  *)

\* Induction over rounds.
LEMMA RoundByRound ==
  ASSUME NEW n \in Nat, NEW S, 0 \in S, \A k \in 1..n : k - 1 \in S => k \in S
  PROVE  \A k \in 0..n : k \in S
<1> DEFINE T == {k \in 0..n : k \notin S}
           R == OpToRel(<, Nat)
<1> SUFFICES ASSUME T # {} PROVE FALSE
  OBVIOUS
<1>0. T \subseteq Nat
  OBVIOUS
<1>1. IsWellFoundedOn(R, Nat)
  BY NatLessThanWellFounded
<1>2. \A x, y \in Nat : <<x, y>> \in R <=> x < y
  BY DEF OpToRel
<1> HIDE DEF R
<1>3. PICK k \in T : \A y \in T : ~ (<<y, k>> \in R)
  <2> HIDE DEF T
  <2>1. QED
    BY <1>0, <1>1, WFMin
<1>4. k \in 1..n /\ k \notin S
  OBVIOUS
<1>5. k - 1 \in T /\ k - 1 \in Nat /\ k \in Nat /\ k - 1 < k
  BY <1>4
<1> HIDE DEF T
<1>6. QED
  BY <1>2, <1>3, <1>5

\* Two functions of the rounds 0..n that begin alike, and go on alike, are alike.
Rounds(f, n) == f = [k \in 0..n |-> f[k]]

LEMMA SameRounds ==
  ASSUME NEW n \in Nat, NEW f, NEW g, Rounds(f, n), Rounds(g, n), f[0] = g[0],
         \A k \in 1..n : f[k - 1] = g[k - 1] => f[k] = g[k]
  PROVE  f = g
<1> DEFINE S == {k \in 0..n : f[k] = g[k]}
<1>1. 0 \in S /\ \A k \in 1..n : k - 1 \in S => k \in S
  OBVIOUS
<1> HIDE DEF S
<1>2. \A k \in 0..n : k \in S
  BY <1>1, RoundByRound
<1>3. \A k \in 0..n : f[k] = g[k]
  BY <1>2 DEF S
<1>4. QED
  BY <1>3 DEF Rounds

LEMMA Remainder ==
  ASSUME NEW q \in Nat, NEW m \in Nat \ {0}, NEW r \in 0..(m - 1)
  PROVE  (q * m + r) % m = r
<1>1. q + 1 \in Nat \ {0} /\ q \in 0..((q + 1) - 1)
  OBVIOUS
<1>2. QED
  BY <1>1, Numbering

\* K3: j is the remainder of the round.
LEMMA CyclicIndex ==
  ASSUME NEW s \in Nat \ {0}, NEW n \in Nat
  PROVE  Algorithm!append_bytes(s, n) = [k \in 1..n |-> (k - 1) % s]
<1> DEFINE Turns(f) == f = [k \in 0..n |-> IF k = 0 THEN 0
                                          ELSE IF f[k - 1] + 1 = s THEN 0 ELSE f[k - 1] + 1]
           g == [k \in 0..n |-> k % s]
           j == CHOOSE f : Turns(f)
<1>1. ASSUME NEW k \in 1..n
      PROVE  k % s = IF ((k - 1) % s) + 1 = s THEN 0 ELSE ((k - 1) % s) + 1
  <2> DEFINE q == (k - 1) \div s
             r == (k - 1) % s
  <2>1. q \in Nat /\ r \in 0..(s - 1) /\ k - 1 = q * s + r
    <3>1. k - 1 \in Nat /\ k - 1 \in 0..((k * s) - 1) /\ k \in Nat \ {0}
      <4>1. k * s >= k
        OBVIOUS
      <4>2. QED
        BY <4>1
    <3>2. QED
      BY <3>1, Numbering
  <2>2. q + 1 \in Nat /\ k = q * s + r + 1
    BY <2>1
  <2>3. r = (k - 1) % s
    OBVIOUS
  <2> HIDE DEF q, r
  <2>4. CASE r + 1 = s
    <3>1. (q + 1) * s = q * s + s
      BY <2>1
    <3>2. k = (q + 1) * s + 0 /\ q + 1 \in Nat /\ 0 \in 0..(s - 1)
      BY <2>1, <2>2, <2>4, <3>1
    <3>3. k % s = 0
      BY <3>2, Remainder
    <3>4. QED
      BY <2>3, <2>4, <3>3
  <2>5. CASE r + 1 # s
    <3>1. k = q * s + (r + 1) /\ r + 1 \in 0..(s - 1)
      BY <2>1, <2>2, <2>5
    <3>2. k % s = r + 1
      BY <2>1, <3>1, Remainder
    <3>3. QED
      BY <2>3, <2>5, <3>2
  <2>6. QED
    BY <2>4, <2>5
<1>2. Rounds(g, n)
  BY DEF Rounds
<1>3. g[0] = 0 /\ \A k \in 1..n : g[k] = IF g[k - 1] + 1 = s THEN 0 ELSE g[k - 1] + 1
  <2>1. g[0] = 0
    OBVIOUS
  <2>2. ASSUME NEW k \in 1..n PROVE g[k] = IF g[k - 1] + 1 = s THEN 0 ELSE g[k - 1] + 1
    <3>1. k - 1 \in 0..n /\ k \in 0..n
      OBVIOUS
    <3>2. QED
      BY <1>1, <3>1
  <2>3. QED
    BY <2>1, <2>2
<1> HIDE DEF g
<1>4. Turns(g)
  <2>1. \A k \in 0..n : g[k] = IF k = 0 THEN 0 ELSE IF g[k - 1] + 1 = s THEN 0 ELSE g[k - 1] + 1
    BY <1>3
  <2>2. QED
    BY <1>2, <2>1 DEF Rounds
<1>5. Turns(j)
  BY <1>4
<1> HIDE DEF j
<1>6. j = g
  <2>1. Rounds(j, n)
    BY <1>5 DEF Rounds
  <2>2. \A k \in 0..n : j[k] = IF k = 0 THEN 0 ELSE IF j[k - 1] + 1 = s THEN 0 ELSE j[k - 1] + 1
    BY <1>5
  <2>3. j[0] = 0 /\ \A k \in 1..n : j[k] = IF j[k - 1] + 1 = s THEN 0 ELSE j[k - 1] + 1
    BY <2>2
  <2>4. QED
    BY <1>2, <1>3, <2>1, <2>3, SameRounds
<1>7. Algorithm!append_bytes(s, n) = [k \in 1..n |-> j[k - 1]]
  BY DEF Algorithm!append_bytes, j
<1>8. \A k \in 1..n : k - 1 \in 0..n /\ g[k - 1] = (k - 1) % s
  BY DEF g
<1>9. QED
  BY <1>6, <1>7, <1>8

\* K2: the relations are those of the order by major and minor, for versions of
\* one digit.
LEMMA Comparisons ==
  ASSUME NEW x \in Algorithm!Versions, NEW y \in Algorithm!Versions
  PROVE  LET lt == Algorithm!Before(x, y)
             gt == Algorithm!Before(y, x)
         IN Algorithm!Compared(x, y) =
              [eq |-> ~lt /\ ~gt, lt |-> lt, ne |-> lt \/ gt,
               gt |-> gt, le |-> ~gt, ge |-> ~lt]
<1>1. x.major \in 0..2 /\ x.minor \in 0..2 /\ y.major \in 0..2 /\ y.minor \in 0..2
  BY DEF Algorithm!Versions
<1>2. Algorithm!Less(x, y) = Algorithm!Before(x, y)
  BY <1>1 DEF Algorithm!Less, Algorithm!Before
<1>3. Algorithm!Less(y, x) = Algorithm!Before(y, x)
  BY <1>1 DEF Algorithm!Less, Algorithm!Before
<1>4. Algorithm!Equal(x, y) = (~Algorithm!Before(x, y) /\ ~Algorithm!Before(y, x))
  BY <1>1 DEF Algorithm!Equal, Algorithm!Before
<1>5. (~Algorithm!Equal(x, y)) = (Algorithm!Before(x, y) \/ Algorithm!Before(y, x))
  BY <1>1 DEF Algorithm!Equal, Algorithm!Before
<1>6. QED
  BY <1>2, <1>3, <1>4, <1>5 DEF Algorithm!Compared

\* C4: there is no number before 0.
LEMMA BeforeZero ==
  ASSUME NEW n \in Algorithm!Words
  PROVE  Algorithm!SizeMinusOne(n) = IF n = 0 THEN Algorithm!Modulus - 1 ELSE n - 1
<1>1. Algorithm!Modulus \in Int
  BY ExercisesAssumption DEF Algorithm!Modulus
<1>2. n \in Nat /\ n < Algorithm!Modulus /\ Algorithm!Modulus \in Nat \ {0}
  BY <1>1 DEF Algorithm!Words
<1> DEFINE m == Algorithm!Modulus
<1> HIDE DEF m
<1>3. m \in Nat \ {0} /\ n \in Nat /\ n < m
  BY <1>2 DEF m
<1>4. CASE n = 0
  <2>1. (-1) % m = m - 1
    BY <1>3
  <2>2. QED
    BY <1>4, <2>1 DEF m, Algorithm!SizeMinusOne
<1>5. CASE n # 0
  <2>1. n - 1 = 0 * m + (n - 1) /\ n - 1 \in 0..(m - 1)
    BY <1>3, <1>5
  <2>2. (n - 1) % m = n - 1
    BY <1>3, <2>1, Remainder
  <2>3. QED
    BY <1>5, <2>2 DEF m, Algorithm!SizeMinusOne
<1>6. QED
  BY <1>4, <1>5

\* B1, F2: the capacity when k elements have been added, and the moves or copies
\* that making room for them has cost.
Room(k) ==
  IF k <= 2 THEN k ELSE IF k <= 4 THEN 4 ELSE IF k <= 8 THEN 8 ELSE IF k <= 16 THEN 16 ELSE 32
Cost(k) == IF k = 0 THEN 0 ELSE Room(k) - 1

LEMMA RoomIs ==
  ASSUME NEW k \in 1..17
  PROVE  Algorithm!CapacityFor(k) = Room(k)
<1> DEFINE powers == {2^e : e \in 0..5}
<1>1. powers = {1, 2, 4, 8, 16, 32}
  <2>1. 2^0 = 1 /\ 2^1 = 2 /\ 2^2 = 4 /\ 2^3 = 8 /\ 2^4 = 16 /\ 2^5 = 32
    OBVIOUS
  <2>2. 0..5 = {0, 1, 2, 3, 4, 5}
    OBVIOUS
  <2>3. powers = {2^0, 2^1, 2^2, 2^3, 2^4, 2^5}
    <3>1. powers = {2^e : e \in {0, 1, 2, 3, 4, 5}}
      BY <2>2
    <3>2. QED
      BY <3>1, Zenon
  <2>4. QED
    BY <2>1, <2>3
<1> HIDE DEF powers
<1>2. /\ Room(k) \in {q \in powers : q >= k}
      /\ \A q \in {q \in powers : q >= k} : Room(k) <= q
  BY <1>1 DEF Room
<1>3. \A q \in {q \in powers : q >= k} :
        (\A r \in {q2 \in powers : q2 >= k} : q <= r) => q = Room(k)
  <2>1. \A q \in powers : q \in Int
    BY <1>1
  <2>2. QED
    BY <1>2, <2>1
<1>4. QED
  BY <1>2, <1>3 DEF Algorithm!CapacityFor, Algorithm!Min, powers

LEMMA Growth ==
  ASSUME NEW n \in 0..17, NEW m \in BOOLEAN, NEW q \in BOOLEAN
  PROVE  Algorithm!Adding(n, m, q) =
           IF m THEN <<0, Cost(n) + (IF q THEN n ELSE 0)>>
           ELSE <<Cost(n), IF q THEN n ELSE 0>>
<1> DEFINE Adds1(f) ==
             f = [k \in 0..n |->
                    IF k = 0 THEN [size |-> 0, capacity |-> 0, copies |-> 0, moves |-> 0]
                    ELSE Algorithm!Grown(f[k - 1], m, q)]
           In(k) == IF q THEN k ELSE 0
           g == [k \in 0..n |->
                   [size |-> k, capacity |-> Room(k),
                    copies |-> IF m THEN 0 ELSE Cost(k),
                    moves |-> (IF m THEN Cost(k) ELSE 0) + In(k)]]
           h == CHOOSE f : Adds1(f)
<1>1. Rounds(g, n)
  BY DEF Rounds
<1>2. g[0] = [size |-> 0, capacity |-> 0, copies |-> 0, moves |-> 0]
  BY DEF Room, Cost
<1>3. ASSUME NEW k \in 1..n
      PROVE  g[k] = Algorithm!Grown(g[k - 1], m, q)
  <2> DEFINE o == g[k - 1]
  <2>1. k - 1 \in 0..n /\ k \in 0..n /\ k \in 1..17
    OBVIOUS
  <2>2. /\ o.size = k - 1 /\ o.capacity = Room(k - 1)
        /\ o.copies = (IF m THEN 0 ELSE Cost(k - 1))
        /\ o.moves = (IF m THEN Cost(k - 1) ELSE 0) + In(k - 1)
    BY <2>1
  <2>3. g[k] = [size |-> k, capacity |-> Room(k), copies |-> IF m THEN 0 ELSE Cost(k),
                moves |-> (IF m THEN Cost(k) ELSE 0) + In(k)]
    BY <2>1
  <2>4. /\ (k - 1) + 1 = k
        /\ Room(k) = IF k - 1 # Room(k - 1) THEN Room(k - 1)
                     ELSE IF k - 1 = 0 THEN 1 ELSE 2 * (k - 1)
        /\ Cost(k) = Cost(k - 1) + IF k - 1 = Room(k - 1) THEN k - 1 ELSE 0
        /\ Cost(k) \in Int /\ Cost(k - 1) \in Int
    BY <2>1 DEF Room, Cost
  <2>5. In(k) = In(k - 1) + (IF q THEN 1 ELSE 0) /\ In(k) \in Int /\ In(k - 1) \in Int
    BY <2>1
  <2> HIDE DEF o, g, In
  <2>6. Algorithm!Grown(o, m, q) =
          [size |-> k, capacity |-> Room(k), copies |-> IF m THEN 0 ELSE Cost(k),
           moves |-> (IF m THEN Cost(k) ELSE 0) + In(k)]
    <3>1. CASE k - 1 = Room(k - 1)
      BY <2>2, <2>4, <2>5, <3>1 DEF Algorithm!Grown
    <3>2. CASE k - 1 # Room(k - 1)
      BY <2>2, <2>4, <2>5, <3>2 DEF Algorithm!Grown
    <3>3. QED
      BY <3>1, <3>2
  <2>7. QED
    BY <2>3, <2>6 DEF o
<1> HIDE DEF g, h
<1>4. Adds1(g)
  <2>1. \A k \in 0..n : g[k] = IF k = 0 THEN [size |-> 0, capacity |-> 0, copies |-> 0, moves |-> 0]
                               ELSE Algorithm!Grown(g[k - 1], m, q)
    BY <1>2, <1>3
  <2>2. QED
    BY <1>1, <2>1 DEF Rounds
<1>5. Adds1(h)
  BY <1>4 DEF h
<1>6. h = g
  <2>1. Rounds(h, n)
    BY <1>5 DEF Rounds
  <2>2. \A k \in 0..n : h[k] = IF k = 0 THEN [size |-> 0, capacity |-> 0, copies |-> 0, moves |-> 0]
                               ELSE Algorithm!Grown(h[k - 1], m, q)
    BY <1>5
  <2>3. h[0] = g[0] /\ \A k \in 1..n : h[k] = Algorithm!Grown(h[k - 1], m, q)
    BY <1>2, <2>2
  <2>4. QED
    BY <1>1, <1>3, <2>1, <2>3, SameRounds
<1>7. Algorithm!Adding(n, m, q) = <<h[n].copies, h[n].moves>>
  BY DEF Algorithm!Adding, h
<1>8. g[n].copies = (IF m THEN 0 ELSE Cost(n)) /\ g[n].moves = (IF m THEN Cost(n) ELSE 0) + In(n)
  BY DEF g
<1>9. Cost(n) \in Int /\ In(n) \in Int
  BY DEF Cost, Room
<1> HIDE DEF In
<1>10. Algorithm!Adding(n, m, q) = IF m THEN <<0, Cost(n) + In(n)>> ELSE <<Cost(n), In(n)>>
  BY <1>6, <1>7, <1>8, <1>9
<1>11. QED
  BY <1>10 DEF In

\* A1, F2: what is written over the buffer is the last text as far as it fits, and
\* ends where its first NUL is.
LEMMA LastTextShown ==
  ASSUME NEW n \in Nat \ {0}, NEW text \in Seq({1, 2}), NEW last \in Seq({1, 2})
  PROVE  LET fits == IF Len(last) < n THEN Len(last) ELSE n - 1
         IN Algorithm!Moved(n, text, last) = <<<<"moved-from">>, SubSeq(last, 1, fits)>>
<1> DEFINE fits == IF Len(last) < n THEN Len(last) ELSE n - 1
           Holds1(data) == data \in Seq({0, 1, 2}) /\ Len(data) = n
           full == [k \in 1..n |-> IF k <= fits THEN last[k] ELSE 0]
<1>1. ASSUME NEW data, Holds1(data), NEW t \in Seq({1, 2})
      PROVE  /\ Holds1(Algorithm!set(data, t))
             /\ Algorithm!set(data, t) =
                  [k \in 1..n |-> IF k < n /\ k <= Len(t) THEN t[k] ELSE 0]
  <2>1. DOMAIN data = 1..n /\ Len(data) = n
    BY <1>1
  <2>2. Len(t) \in Nat /\ \A k \in 1..Len(t) : t[k] \in {1, 2}
    OBVIOUS
  <2>3. Algorithm!strncpy(data, t, n - 1) =
          [k \in 1..n |-> IF k > n - 1 THEN data[k] ELSE IF k <= Len(t) THEN t[k] ELSE 0]
    BY <2>1 DEF Algorithm!strncpy
  <2>4. Algorithm!set(data, t) =
          [k \in 1..n |-> IF k < n /\ k <= Len(t) THEN t[k] ELSE 0]
    BY <2>1, <2>3 DEF Algorithm!set
  <2>5. [k \in 1..n |-> IF k < n /\ k <= Len(t) THEN t[k] ELSE 0] \in [1..n -> {0, 1, 2}]
    BY <2>2
  <2>6. QED
    BY <2>4, <2>5
<1>2. Holds1(Algorithm!Buffer(n))
  BY DEF Algorithm!Buffer
<1> DEFINE data == Algorithm!set(Algorithm!set(Algorithm!Buffer(n), text), last)
<1>3. data = [k \in 1..n |-> IF k < n /\ k <= Len(last) THEN last[k] ELSE 0]
  <2> HIDE DEF Holds1
  <2>1. Holds1(Algorithm!set(Algorithm!Buffer(n), text))
    BY <1>1, <1>2
  <2>2. QED
    BY <1>1, <2>1
<1> HIDE DEF data
<1>4. /\ fits \in 0..(n - 1) /\ fits <= Len(last)
      /\ \A k \in 1..n : k <= fits <=> k < n /\ k <= Len(last)
  BY DEF fits
<1> HIDE DEF fits
<1>5. data = full
  BY <1>3, <1>4
<1>6. Len(data) = n /\ data # << >> /\ DOMAIN data = 1..n
  BY <1>5
<1>7. \A k \in 1..n : data[k] = 0 <=> k > fits
  <2>1. \A k \in 1..fits : last[k] \in {1, 2}
    BY <1>4
  <2>2. QED
    BY <1>4, <1>5, <2>1
<1> DEFINE I == {k \in 1..Len(data) : data[k] = 0}
<1>8. I # {} /\ Algorithm!Min(I) = fits + 1
  <2>1. I = (fits + 1)..n /\ fits + 1 \in I
    BY <1>4, <1>6, <1>7
  <2> HIDE DEF I
  <2>2. Algorithm!Min(I) = fits + 1
    BY <1>4, <2>1 DEF Algorithm!Min
  <2>3. QED
    BY <2>1, <2>2
<1>9. SubSeq(data, 1, fits) = SubSeq(last, 1, fits)
  <2>1. \A k \in 1..fits : data[k] = last[k]
    BY <1>4, <1>5
  <2>2. SubSeq(data, 1, fits) = [k \in 1..fits |-> data[k]]
    BY <1>4, <1>6
  <2>3. SubSeq(last, 1, fits) = [k \in 1..fits |-> last[k]]
    BY <1>4
  <2>4. QED
    BY <2>1, <2>2, <2>3
<1>10. Algorithm!show(data) = SubSeq(last, 1, fits)
  <2>1. Algorithm!show(data) = SubSeq(data, 1, Algorithm!Min(I) - 1)
    BY <1>6, <1>8 DEF Algorithm!show, Algorithm!Null, Algorithm!SelectInSeq
  <2> HIDE DEF I
  <2>2. Algorithm!Min(I) - 1 = fits
    BY <1>4, <1>8
  <2>3. QED
    BY <1>9, <2>1, <2>2
<1>11. Algorithm!show(Algorithm!Null) = <<"moved-from">>
  BY DEF Algorithm!show, Algorithm!Null
<1>12. Algorithm!Moved(n, text, last) = <<<<"moved-from">>, SubSeq(last, 1, fits)>>
  BY <1>10, <1>11 DEF Algorithm!Moved, data
<1>13. QED
  BY <1>12 DEF fits

-----------------------------------------------------------------------------
(* The folds of the community modules are one recursive function over the       *)
(* subsets of what is folded.                                                   *)

\* Two functions of subsets that agree on a set if they agree on what is left of
\* it without some element, agree.
GoAlike(f, g, S) ==
  /\ f[{}] = g[{}]
  /\ \A T \in SUBSET S : T # {} =>
       \E x \in T : f[T \ {x}] = g[T \ {x}] => f[T] = g[T]

LEMMA SameFolds ==
  ASSUME NEW S, IsFiniteSet(S), NEW f, NEW g, GoAlike(f, g, S)
  PROVE  \A T \in SUBSET S : f[T] = g[T]
<1> DEFINE n == Cardinality(S)
           P == {k \in 0..n : \A T \in SUBSET S : Cardinality(T) = k => f[T] = g[T]}
<1>0. Cardinality({}) = 0
  BY FS_EmptySet
<1>1. n \in Nat
  BY FS_CardinalityType
<1>2. \A T \in SUBSET S : IsFiniteSet(T) /\ Cardinality(T) \in Nat /\ Cardinality(T) <= n
  BY FS_Subset, FS_CardinalityType
<1> HIDE DEF n
<1>3. 0 \in P
  <2>1. \A T \in SUBSET S : Cardinality(T) = 0 => T = {}
    BY <1>2, FS_EmptySet
  <2>2. \A T \in SUBSET S : Cardinality(T) = 0 => f[T] = g[T]
    BY <2>1 DEF GoAlike
  <2>3. 0 \in 0..n
    BY <1>1
  <2>4. QED
    BY <2>2, <2>3
<1>4. ASSUME NEW k \in 1..n, k - 1 \in P
      PROVE  k \in P
  <2>1. ASSUME NEW T \in SUBSET S, Cardinality(T) = k
        PROVE  f[T] = g[T]
    <3>0. Cardinality(T) # 0
      BY <2>1, <1>1
    <3>1. T # {}
      BY <1>0, <3>0, Zenon
    <3>2. PICK x \in T : f[T \ {x}] = g[T \ {x}] => f[T] = g[T]
      BY <3>1 DEF GoAlike
    <3>3. Cardinality(T \ {x}) = k - 1 /\ T \ {x} \in SUBSET S
      BY <1>2, <2>1, FS_RemoveElement
    <3>4. QED
      BY <1>4, <3>2, <3>3
  <2>2. k \in 0..n
    BY <1>1
  <2>3. QED
    BY <2>1, <2>2
<1> HIDE DEF P
<1>5. \A k \in 0..n : k \in P
  BY <1>1, <1>3, <1>4, RoundByRound
<1>6. ASSUME NEW T \in SUBSET S
      PROVE  f[T] = g[T]
  <2>1. Cardinality(T) \in 0..n
    BY <1>1, <1>2
  <2>2. QED
    BY <1>5, <2>1 DEF P
<1>7. QED
  BY <1>6

\* There is such a function for any way to pick the elements.  G[x] is what the
\* element x makes of the value so far.
Folds(f, S, start, pick, G) ==
  \A T \in SUBSET S :
    f[T] = IF T = {} THEN start ELSE G[pick[T]][f[T \ {pick[T]}]]

Picks(pick, S) == \A T \in SUBSET S : T # {} => pick[T] \in T
Acts(G, S, V) == G \in [S -> [V -> V]]

LEMMA FoldExists ==
  ASSUME NEW S, IsFiniteSet(S), NEW V, NEW start \in V,
         NEW pick, Picks(pick, S), NEW G, Acts(G, S, V)
  PROVE  \E f \in [SUBSET S -> V] : Folds(f, S, start, pick, G)
<1> DEFINE n == Cardinality(S)
           Small(k) == {T \in SUBSET S : Cardinality(T) <= k}
           FoldsTo(f, k) == \A T \in Small(k) :
             f[T] = IF T = {} THEN start ELSE G[pick[T]][f[T \ {pick[T]}]]
           P == {k \in 0..n : \E f \in [SUBSET S -> V] : FoldsTo(f, k)}
<1>0. Cardinality({}) = 0
  BY FS_EmptySet
<1>1. n \in Nat
  BY FS_CardinalityType
<1>2. \A T \in SUBSET S : IsFiniteSet(T) /\ Cardinality(T) \in Nat /\ Cardinality(T) <= n
  BY FS_Subset, FS_CardinalityType
<1> HIDE DEF n
<1>3. 0 \in P
  <2>1. \A T \in SUBSET S : Cardinality(T) <= 0 => T = {}
    BY <1>2, FS_EmptySet
  <2>2. FoldsTo([T \in SUBSET S |-> start], 0)
    BY <2>1
  <2>3. [T \in SUBSET S |-> start] \in [SUBSET S -> V] /\ 0 \in 0..n
    BY <1>1
  <2> HIDE DEF FoldsTo
  <2>4. QED
    BY <2>2, <2>3
<1>4. ASSUME NEW k \in 1..n, k - 1 \in P
      PROVE  k \in P
  <2>1. PICK f \in [SUBSET S -> V] : FoldsTo(f, k - 1)
    BY <1>4
  <2> DEFINE g == [T \in SUBSET S |-> IF T = {} THEN start ELSE G[pick[T]][f[T \ {pick[T]}]]]
  <2>2. g \in [SUBSET S -> V]
    <3>1. ASSUME NEW T \in SUBSET S, T # {}
          PROVE  G[pick[T]][f[T \ {pick[T]}]] \in V
      <4>1. pick[T] \in S /\ T \ {pick[T]} \in SUBSET S
        BY <3>1 DEF Picks
      <4>2. G[pick[T]] \in [V -> V]
        BY <4>1 DEF Acts
      <4>3. QED
        BY <4>1, <4>2
    <3>2. QED
      BY <3>1
  <2>3. \A T \in Small(k - 1) : g[T] = f[T]
    BY <2>1
  <2>4. ASSUME NEW T \in Small(k), T # {}
        PROVE  T \ {pick[T]} \in Small(k - 1)
    <3>1. pick[T] \in T
      BY <2>4 DEF Picks
    <3>2. Cardinality(T \ {pick[T]}) = Cardinality(T) - 1
      BY <1>2, <3>1, FS_RemoveElement
    <3>3. QED
      BY <1>2, <3>2
  <2>5. FoldsTo(g, k)
    BY <2>3, <2>4
  <2>6. k \in 0..n
    BY <1>1
  <2> HIDE DEF g, FoldsTo
  <2>7. QED
    BY <2>2, <2>5, <2>6
<1> HIDE DEF P
<1>5. n \in P
  BY <1>1, <1>3, <1>4, RoundByRound
<1>6. PICK f \in [SUBSET S -> V] : FoldsTo(f, n)
  BY <1>5 DEF P
<1>7. QED
  BY <1>2, <1>6 DEF Folds

LEMMA UpToIsFinite == \A n \in Nat : IsFiniteSet(1..n)
  BY FS_Interval

LEMMA Extremes ==
  ASSUME NEW n \in Nat, NEW T \in SUBSET (0..n), T # {}
  PROVE  /\ Algorithm!Min(T) \in T /\ \A y \in T : Algorithm!Min(T) <= y
         /\ Algorithm!Max(T) \in T /\ \A y \in T : Algorithm!Max(T) >= y
<1> DEFINE R == OpToRel(<, Nat)
<1>1. IsWellFoundedOn(R, Nat)
  BY NatLessThanWellFounded
<1>2. \A x, y \in Nat : <<x, y>> \in R <=> x < y
  BY DEF OpToRel
<1> HIDE DEF R
<1>3. \E x \in T : \A y \in T : x <= y
  <2>0. T \subseteq Nat
    OBVIOUS
  <2>1. PICK x \in T : \A y \in T : ~(<<y, x>> \in R)
    BY <1>1, <2>0, WFMin
  <2>2. \A y \in T : x \in Nat /\ y \in Nat /\ ~(y < x)
    BY <1>2, <2>0, <2>1
  <2>3. QED
    BY <2>2
<1>4. \E x \in T : \A y \in T : x >= y
  <2> DEFINE U == {k \in 0..n : n - k \in T}
  <2>0. U \subseteq Nat
    OBVIOUS
  <2>1. U # {}
    <3>1. PICK y \in T : TRUE
      OBVIOUS
    <3>2. n - y \in 0..n /\ n - (n - y) = y
      OBVIOUS
    <3>3. n - y \in U
      BY <3>2
    <3> HIDE DEF U
    <3>4. QED
      BY <3>3
  <2> HIDE DEF U
  <2>2. PICK x \in U : \A y \in U : ~(<<y, x>> \in R)
    BY <1>1, <2>0, <2>1, WFMin
  <2>3. \A y \in U : x \in Nat /\ y \in Nat /\ ~(y < x)
    BY <1>2, <2>0, <2>2
  <2>4. n - x \in T
    BY DEF U
  <2>5. ASSUME NEW y \in T
        PROVE  n - x >= y
    <3>1. n - y \in 0..n /\ n - (n - y) = y
      OBVIOUS
    <3>2. n - y \in U
      BY <3>1 DEF U
    <3>3. x \in Nat /\ ~(n - y < x)
      BY <2>3, <3>2
    <3>4. QED
      BY <3>3
  <2>6. QED
    BY <2>4, <2>5
<1>5. QED
  BY <1>3, <1>4 DEF Algorithm!Min, Algorithm!Max

\* FoldLeft and FoldRight of 1..n, and their values g on the way.
Steps(G, n, V) == G \in [1..n -> [V -> V]]

LeftFold(f, g, n, V, start, G) ==
  /\ f \in [SUBSET (1..n) -> V] /\ g \in [0..n -> V]
  /\ \A T \in SUBSET (1..n) :
       f[T] = IF T = {} THEN start ELSE G[Algorithm!Max(T)][f[T \ {Algorithm!Max(T)}]]
  /\ g[0] = start /\ \A k \in 1..n : g[k] = G[k][g[k - 1]]
  /\ f[1..n] = g[n]

RightFold(f, g, n, V, start, G) ==
  /\ f \in [SUBSET (1..n) -> V] /\ g \in [1..(n + 1) -> V]
  /\ \A T \in SUBSET (1..n) :
       f[T] = IF T = {} THEN start ELSE G[Algorithm!Min(T)][f[T \ {Algorithm!Min(T)}]]
  /\ g[n + 1] = start /\ \A k \in 1..n : g[k] = G[k][g[k + 1]]
  /\ f[1..n] = g[1]

LEMMA FromTheLeft ==
  ASSUME NEW n \in Nat, NEW V, NEW start \in V, NEW G, Steps(G, n, V)
  PROVE  \E f, g : LeftFold(f, g, n, V, start, G)
<1> DEFINE S == 1..n
           pick == [T \in SUBSET S |-> Algorithm!Max(T)]
<1>1. IsFiniteSet(S)
  BY FS_Interval
<1>2. Picks(pick, S)
  <2>1. \A T \in SUBSET S : T \in SUBSET (0..n)
    OBVIOUS
  <2>2. QED
    BY <2>1, Extremes DEF Picks
<1>3. S = 1..n
  OBVIOUS
<1> DEFINE H == G
<1>4. Acts(H, S, V)
  BY DEF Steps, Acts
<1>5. \A T \in SUBSET S : pick[T] = Algorithm!Max(T)
  OBVIOUS
<1> HIDE DEF pick, S, H
<1>6. PICK f \in [SUBSET S -> V] : Folds(f, S, start, pick, H)
  BY <1>1, <1>2, <1>4, FoldExists
<1> DEFINE g == [k \in 0..n |-> f[1..k]]
<1>7. \A k \in 0..n : 1..k \in SUBSET S
  BY <1>3
<1>8. g \in [0..n -> V] /\ f[1..n] = g[n]
  <2>1. ASSUME NEW k \in 0..n PROVE f[1..k] \in V
    <3>1. 1..k \in SUBSET S
      BY <1>7
    <3> HIDE DEF g
    <3>2. QED
      BY <3>1, Zenon
  <2>2. n \in 0..n
    OBVIOUS
  <2>3. QED
    BY <2>1, <2>2
<1>9. g[0] = start
  <2>1. 1..0 = {}
    BY <1>3
  <2>2. f[{}] = start
    BY <1>6 DEF Folds
  <2>3. g[0] = f[1..0]
    OBVIOUS
  <2>4. QED
    BY <2>1, <2>2, <2>3, Zenon
<1>10. ASSUME NEW k \in 1..n
      PROVE  g[k] = G[k][g[k - 1]]
  <2>1. k \in 1..k /\ 1..k \in SUBSET S /\ (1..k) \ {k} = 1..(k - 1) /\ k - 1 \in 0..n
    BY <1>3
  <2>2. Algorithm!Max(1..k) = k
    <3>1. 1..k \in SUBSET (0..n) /\ 1..k # {}
      <4>1. \A y \in 1..k : y \in 0..n
        OBVIOUS
      <4>2. QED
        BY <2>1, <4>1
    <3>2. Algorithm!Max(1..k) \in 1..k /\ Algorithm!Max(1..k) >= k
      BY <2>1, <3>1, Extremes
    <3>3. QED
      BY <3>2
  <2>3. pick[1..k] = k
    BY <1>5, <2>1, <2>2
  <2>4. f[1..k] = G[k][f[1..(k - 1)]]
    BY <1>6, <2>1, <2>3 DEF Folds, H
  <2>5. QED
    BY <2>1, <2>4
<1>11. \A T \in SUBSET S :
         f[T] = IF T = {} THEN start ELSE G[Algorithm!Max(T)][f[T \ {Algorithm!Max(T)}]]
  BY <1>5, <1>6 DEF Folds, H
<1> HIDE DEF g
<1>12. LeftFold(f, g, n, V, start, G)
  BY <1>3, <1>8, <1>9, <1>10, <1>11 DEF LeftFold
<1>13. QED
  BY <1>12

LEMMA FromTheRight ==
  ASSUME NEW n \in Nat, NEW V, NEW start \in V, NEW G, Steps(G, n, V)
  PROVE  \E f, g : RightFold(f, g, n, V, start, G)
<1> DEFINE S == 1..n
           pick == [T \in SUBSET S |-> Algorithm!Min(T)]
<1>1. IsFiniteSet(S)
  BY FS_Interval
<1>2. Picks(pick, S)
  <2>1. \A T \in SUBSET S : T \in SUBSET (0..n)
    OBVIOUS
  <2>2. QED
    BY <2>1, Extremes DEF Picks
<1>3. S = 1..n
  OBVIOUS
<1> DEFINE H == G
<1>4. Acts(H, S, V)
  BY DEF Steps, Acts
<1>5. \A T \in SUBSET S : pick[T] = Algorithm!Min(T)
  OBVIOUS
<1> HIDE DEF pick, S, H
<1>6. PICK f \in [SUBSET S -> V] : Folds(f, S, start, pick, H)
  BY <1>1, <1>2, <1>4, FoldExists
<1> DEFINE g == [k \in 1..(n + 1) |-> f[k..n]]
<1>7. \A k \in 1..(n + 1) : k..n \in SUBSET S
  BY <1>3
<1>8. g \in [1..(n + 1) -> V] /\ f[1..n] = g[1]
  <2>1. ASSUME NEW k \in 1..(n + 1) PROVE f[k..n] \in V
    <3>1. k..n \in SUBSET S
      BY <1>7
    <3> HIDE DEF g
    <3>2. QED
      BY <3>1, Zenon
  <2>2. 1 \in 1..(n + 1)
    OBVIOUS
  <2>3. QED
    BY <2>1, <2>2
<1>9. g[n + 1] = start
  <2>1. (n + 1)..n = {}
    BY <1>3
  <2>2. f[{}] = start
    BY <1>6 DEF Folds
  <2>3. g[n + 1] = f[(n + 1)..n]
    OBVIOUS
  <2>4. QED
    BY <2>1, <2>2, <2>3, Zenon
<1>10. ASSUME NEW k \in 1..n
      PROVE  g[k] = G[k][g[k + 1]]
  <2>1. k \in k..n /\ k..n \in SUBSET S /\ (k..n) \ {k} = (k + 1)..n /\ k + 1 \in 1..(n + 1)
    BY <1>3
  <2>2. Algorithm!Min(k..n) = k
    <3>1. k..n \in SUBSET (0..n) /\ k..n # {}
      <4>1. \A y \in k..n : y \in 0..n
        OBVIOUS
      <4>2. QED
        BY <2>1, <4>1
    <3>2. Algorithm!Min(k..n) \in k..n /\ Algorithm!Min(k..n) <= k
      BY <2>1, <3>1, Extremes
    <3>3. QED
      BY <3>2
  <2>3. pick[k..n] = k
    BY <1>5, <2>1, <2>2
  <2>4. f[k..n] = G[k][f[(k + 1)..n]]
    BY <1>6, <2>1, <2>3 DEF Folds, H
  <2>5. QED
    BY <2>1, <2>4
<1>11. \A T \in SUBSET S :
         f[T] = IF T = {} THEN start ELSE G[Algorithm!Min(T)][f[T \ {Algorithm!Min(T)}]]
  BY <1>5, <1>6 DEF Folds, H
<1> HIDE DEF g
<1>12. RightFold(f, g, n, V, start, G)
  BY <1>3, <1>8, <1>9, <1>10, <1>11 DEF RightFold
<1>13. QED
  BY <1>12

\* Whatever goes on as f does, where it has a value of V, is f.
GoesOnLeft(j, n, V, start, G) ==
  /\ j[{}] = start
  /\ \A T \in SUBSET (1..n) : T # {} /\ j[T \ {Algorithm!Max(T)}] \in V =>
       j[T] = G[Algorithm!Max(T)][j[T \ {Algorithm!Max(T)}]]

LEMMA LeftFoldIs ==
  ASSUME NEW n \in Nat, NEW V, NEW start, NEW G,
         NEW f, NEW g, LeftFold(f, g, n, V, start, G),
         NEW j, GoesOnLeft(j, n, V, start, G)
  PROVE  j[1..n] = g[n]
<1> DEFINE D == 1..n
<1>1. /\ f \in [SUBSET D -> V] /\ f[D] = g[n] /\ f[{}] = start
      /\ \A T \in SUBSET D : T # {} =>
           f[T] = G[Algorithm!Max(T)][f[T \ {Algorithm!Max(T)}]]
  BY DEF LeftFold
<1>2. ASSUME NEW T \in SUBSET D, T # {}
      PROVE  \E x \in T : j[T \ {x}] = f[T \ {x}] => j[T] = f[T]
  <2>1. T \in SUBSET (0..n)
    OBVIOUS
  <2>2. Algorithm!Max(T) \in T
    BY <1>2, <2>1, Extremes
  <2>3. f[T \ {Algorithm!Max(T)}] \in V
    BY <1>1
  <2>4. QED
    BY <1>1, <1>2, <2>2, <2>3 DEF GoesOnLeft
<1>3. GoAlike(j, f, D)
  BY <1>1, <1>2 DEF GoAlike, GoesOnLeft
<1>4. IsFiniteSet(D)
  BY UpToIsFinite
<1> HIDE DEF D
<1>5. \A T \in SUBSET D : j[T] = f[T]
  BY <1>3, <1>4, SameFolds
<1>6. j[D] = g[n]
  BY <1>1, <1>5
<1>7. QED
  BY <1>6 DEF D

GoesOnRight(j, n, V, start, G) ==
  /\ j[{}] = start
  /\ \A T \in SUBSET (1..n) : T # {} /\ j[T \ {Algorithm!Min(T)}] \in V =>
       j[T] = G[Algorithm!Min(T)][j[T \ {Algorithm!Min(T)}]]

LEMMA RightFoldIs ==
  ASSUME NEW n \in Nat, NEW V, NEW start, NEW G,
         NEW f, NEW g, RightFold(f, g, n, V, start, G),
         NEW j, GoesOnRight(j, n, V, start, G)
  PROVE  j[1..n] = g[1]
<1> DEFINE D == 1..n
<1>1. /\ f \in [SUBSET D -> V] /\ f[D] = g[1] /\ f[{}] = start
      /\ \A T \in SUBSET D : T # {} =>
           f[T] = G[Algorithm!Min(T)][f[T \ {Algorithm!Min(T)}]]
  BY DEF RightFold
<1>2. ASSUME NEW T \in SUBSET D, T # {}
      PROVE  \E x \in T : j[T \ {x}] = f[T \ {x}] => j[T] = f[T]
  <2>1. T \in SUBSET (0..n)
    OBVIOUS
  <2>2. Algorithm!Min(T) \in T
    BY <1>2, <2>1, Extremes
  <2>3. f[T \ {Algorithm!Min(T)}] \in V
    BY <1>1
  <2>4. QED
    BY <1>1, <1>2, <2>2, <2>3 DEF GoesOnRight
<1>3. GoAlike(j, f, D)
  BY <1>1, <1>2 DEF GoAlike, GoesOnRight
<1>4. IsFiniteSet(D)
  BY UpToIsFinite
<1> HIDE DEF D
<1>5. \A T \in SUBSET D : j[T] = f[T]
  BY <1>3, <1>4, SameFolds
<1>6. j[D] = g[1]
  BY <1>1, <1>5
<1>7. QED
  BY <1>6 DEF D

\* If the order makes no difference, there is a function that may pick any element.
Commutes(G, S, V) ==
  /\ G \in [S -> [V -> V]]
  /\ \A x, y \in S, u \in V : G[x][G[y][u]] = G[y][G[x][u]]

AnyFold(f, S, start, G) ==
  f[{}] = start /\ \A T \in SUBSET S : \A x \in T : f[T] = G[x][f[T \ {x}]]

LEMMA AnyOrder ==
  ASSUME NEW n \in Nat, NEW S, S = 0..(n - 1), NEW V, NEW start \in V,
         NEW G, Commutes(G, S, V)
  PROVE  \E f \in [SUBSET S -> V] : AnyFold(f, S, start, G)
<1>0. /\ G \in [0..(n - 1) -> [V -> V]]
      /\ \A x, y \in 0..(n - 1), u \in V : G[x][G[y][u]] = G[y][G[x][u]]
  BY DEF Commutes
<1> DEFINE Any(f, k) ==
             /\ f \in [SUBSET (0..(k - 1)) -> V]
             /\ f[{}] = start
             /\ \A T \in SUBSET (0..(k - 1)) : \A x \in T : f[T] = G[x][f[T \ {x}]]
           P == {k \in 0..n : \E f : Any(f, k)}
<1>1. 0 \in P
  <2> DEFINE f == [T \in SUBSET {} |-> start]
  <2>1. 0..(0 - 1) = {}
    OBVIOUS
  <2>2. /\ f \in [SUBSET {} -> V] /\ f[{}] = start
        /\ \A T \in SUBSET {} : \A x \in T : f[T] = G[x][f[T \ {x}]]
    OBVIOUS
  <2> HIDE DEF f
  <2>3. Any(f, 0)
    BY <2>1, <2>2
  <2> HIDE DEF Any
  <2>4. QED
    BY <2>3
<1>2. ASSUME NEW k \in 1..n, k - 1 \in P
      PROVE  k \in P
  <2>1. PICK f : Any(f, k - 1)
    BY <1>2
  <2> DEFINE m == k - 1
             Old == 0..(m - 1)
             New == 0..m
             g == [T \in SUBSET New |-> IF m \in T THEN G[m][f[T \ {m}]] ELSE f[T]]
  <2>2. /\ m \in 0..(n - 1) /\ Old = New \ {m} /\ m \in New /\ New = 0..(k - 1)
        /\ New \subseteq 0..(n - 1)
    OBVIOUS
  <2> HIDE DEF m, Old, New
  <2>3. /\ f \in [SUBSET Old -> V]
        /\ f[{}] = start
        /\ \A T \in SUBSET Old : \A x \in T : f[T] = G[x][f[T \ {x}]]
    BY <2>1 DEF m, Old
  <2>4. \A T \in SUBSET New : T \ {m} \in SUBSET Old
    BY <2>2
  <2>5. \A T \in SUBSET New : f[T \ {m}] \in V /\ (m \notin T => T \in SUBSET Old /\ f[T] \in V)
    <3>1. \A T \in SUBSET New : m \notin T => T \ {m} = T
      OBVIOUS
    <3>2. \A T \in SUBSET Old : f[T] \in V
      BY <2>3
    <3>3. QED
      BY <2>4, <3>1, <3>2
  <2>6. g \in [SUBSET New -> V]
    <3>1. G[m] \in [V -> V]
      BY <1>0, <2>2
    <3>2. \A T \in SUBSET New : G[m][f[T \ {m}]] \in V
      BY <2>5, <3>1
    <3>3. QED
      BY <2>5, <3>2
  <2>7. g[{}] = start
    BY <2>3
  <2>8. ASSUME NEW T \in SUBSET New, NEW x \in T
        PROVE  g[T] = G[x][g[T \ {x}]]
    <3>1. T \ {x} \in SUBSET New
      OBVIOUS
    <3>2. CASE m \notin T
      <4>1. m \notin T \ {x} /\ T \in SUBSET Old
        BY <2>5, <3>2
      <4>2. g[T] = f[T] /\ g[T \ {x}] = f[T \ {x}]
        BY <3>1, <3>2, <4>1
      <4>3. QED
        BY <2>3, <4>1, <4>2
    <3>3. CASE m \in T /\ x = m
      <4>1. m \notin T \ {x}
        BY <3>3
      <4>2. g[T] = G[m][f[T \ {m}]] /\ g[T \ {x}] = f[T \ {m}]
        BY <3>1, <3>3, <4>1
      <4>3. QED
        BY <3>3, <4>2
    <3>4. CASE m \in T /\ x # m
      <4> DEFINE rest == (T \ {m}) \ {x}
      <4>1. m \in T \ {x} /\ (T \ {x}) \ {m} = rest /\ x \in T \ {m}
        BY <3>4
      <4>2. T \ {m} \in SUBSET Old /\ rest \in SUBSET Old
        BY <2>4
      <4> HIDE DEF rest
      <4>3. g[T] = G[m][f[T \ {m}]] /\ g[T \ {x}] = G[m][f[rest]]
        BY <3>1, <3>4, <4>1
      <4>4. f[T \ {m}] = G[x][f[rest]]
        BY <2>3, <4>1, <4>2 DEF rest
      <4>5. f[rest] \in V /\ x \in 0..(n - 1)
        BY <2>2, <2>3, <4>2
      <4>6. G[m][G[x][f[rest]]] = G[x][G[m][f[rest]]]
        BY <1>0, <2>2, <4>5
      <4>7. QED
        BY <4>3, <4>4, <4>6
    <3>5. QED
      BY <3>2, <3>3, <3>4
  <2> HIDE DEF g
  <2>9. Any(g, k)
    BY <2>2, <2>6, <2>7, <2>8
  <2> HIDE DEF Any
  <2>10. QED
    BY <2>9
<1> HIDE DEF P
<1>3. n \in P
  <2>1. \A k \in 0..n : k \in P
    BY <1>1, <1>2, RoundByRound
  <2>2. QED
    BY <2>1
<1>4. PICK f : Any(f, n)
  BY <1>3 DEF P
<1>5. QED
  BY <1>4 DEF AnyFold

\* What SumFunction() adds up.
IsPrefixSum(g, d, n) == g[0] = 0 /\ \A k \in 1..n : g[k] = g[k - 1] + d[k]

LEMMA SumIs ==
  ASSUME NEW n \in Nat, NEW d \in [1..n -> Int]
  PROVE  \E g \in [0..n -> Int] :
           IsPrefixSum(g, d, n) /\ Algorithm!SumFunction(d) = g[n]
<1> DEFINE S == 0..n
           G == [x \in S |-> [u \in Int |-> IF x = 0 THEN u ELSE d[x] + u]]
<1>1. \A x \in S, u \in Int : G[x][u] = (IF x = 0 THEN u ELSE d[x] + u) /\ G[x][u] \in Int
  OBVIOUS
<1>2. \A x \in 1..n, u \in Int : G[x][u] = d[x] + u
  BY <1>1
<1>3. G \in [S -> [Int -> Int]]
  BY <1>1
<1>4. \A x, y \in S, u \in Int : G[x][G[y][u]] = G[y][G[x][u]]
  <2> SUFFICES ASSUME NEW x \in S, NEW y \in S, NEW u \in Int
               PROVE  G[x][G[y][u]] = G[y][G[x][u]]
    OBVIOUS
  <2>1. (x # 0 => d[x] \in Int) /\ (y # 0 => d[y] \in Int)
    OBVIOUS
  <2> HIDE DEF G
  <2>2. G[x][u] \in Int /\ G[y][u] \in Int
    BY <1>1
  <2>3. /\ G[x][G[y][u]] = IF x = 0 THEN G[y][u] ELSE d[x] + G[y][u]
        /\ G[y][G[x][u]] = IF y = 0 THEN G[x][u] ELSE d[y] + G[x][u]
        /\ G[x][u] = IF x = 0 THEN u ELSE d[x] + u
        /\ G[y][u] = IF y = 0 THEN u ELSE d[y] + u
    BY <1>1, <2>2
  <2>4. QED
    BY <2>1, <2>3
<1> HIDE DEF G
<1>5. \E f \in [SUBSET S -> Int] : AnyFold(f, S, 0, G)
  <2> DEFINE m == n + 1
             V == Int
  <2>1. m \in Nat /\ S = 0..(m - 1) /\ 0 \in V
    OBVIOUS
  <2> HIDE DEF m, S
  <2>2. Commutes(G, S, V)
    BY <1>3, <1>4 DEF Commutes
  <2> HIDE DEF V
  <2>3. \E f \in [SUBSET S -> V] : AnyFold(f, S, 0, G)
    BY <2>1, <2>2, AnyOrder
  <2>4. QED
    BY <2>3 DEF V
<1>6. PICK f \in [SUBSET S -> Int] :
        f[{}] = 0 /\ \A T \in SUBSET S : \A x \in T : f[T] = G[x][f[T \ {x}]]
  BY <1>5 DEF AnyFold
<1>7. ASSUME NEW T \in SUBSET (1..n), NEW x \in T
      PROVE  f[T] = d[x] + f[T \ {x}] /\ f[T \ {x}] \in Int
  <2>1. T \in SUBSET S /\ T \ {x} \in SUBSET S /\ x \in 1..n
    OBVIOUS
  <2>2. f[T \ {x}] \in Int
    BY <2>1
  <2>3. f[T] = G[x][f[T \ {x}]]
    BY <1>6, <2>1
  <2>4. QED
    BY <1>2, <2>1, <2>2, <2>3
<1> DEFINE Some(s) == CHOOSE x \in s : TRUE
           Iter(h) == h = [s \in SUBSET (DOMAIN d) |->
                             IF s = {} THEN 0 ELSE d[Some(s)] + h[s \ {Some(s)}]]
           j == CHOOSE h : Iter(h)
           f1 == [T \in SUBSET (1..n) |-> f[T]]
<1>8. \A T : T # {} => Some(T) \in T
  OBVIOUS
<1> HIDE DEF Some
<1>9. f[{}] = 0 /\ \A T \in SUBSET (1..n) : T # {} => f[T] = d[Some(T)] + f[T \ {Some(T)}]
  BY <1>6, <1>7, <1>8
<1>10. j[1..n] = f[1..n]
  <2>1. Iter(f1)
    <3>1. \A T \in SUBSET (1..n) : f1[T] = f[T] /\ f1[T \ {Some(T)}] = f[T \ {Some(T)}]
      OBVIOUS
    <3>2. \A T \in SUBSET (1..n) : f1[T] = IF T = {} THEN 0 ELSE d[Some(T)] + f1[T \ {Some(T)}]
      BY <1>9, <3>1
    <3>3. DOMAIN d = 1..n /\ f1 = [T \in SUBSET (1..n) |-> f1[T]]
      OBVIOUS
    <3> HIDE DEF f1
    <3>4. QED
      BY <3>2, <3>3
  <2>2. Iter(j)
    BY <2>1
  <2> HIDE DEF j
  <2>3. /\ j[{}] = 0
        /\ \A T \in SUBSET (1..n) : T # {} => j[T] = d[Some(T)] + j[T \ {Some(T)}]
    BY <2>2
  <2>4. \A T \in SUBSET (1..n) : T # {} =>
          \E x \in T : j[T \ {x}] = f[T \ {x}] => j[T] = f[T]
    BY <1>8, <1>9, <2>3
  <2>5. IsFiniteSet(1..n)
    BY FS_Interval
  <2>6. j[{}] = f[{}]
    BY <1>9, <2>3
  <2> DEFINE D == 1..n
             f0 == f
  <2>7. GoAlike(j, f0, D) /\ IsFiniteSet(D)
    BY <2>4, <2>5, <2>6 DEF GoAlike
  <2> HIDE DEF D, f0
  <2>8. \A T \in SUBSET D : j[T] = f0[T]
    BY <2>7, SameFolds
  <2>9. QED
    BY <2>8 DEF D, f0
<1>11. Algorithm!SumFunction(d) = j[1..n]
  BY DEF Algorithm!SumFunction, Algorithm!SumFunctionOnSet, Algorithm!FoldFunctionOnSet,
     Algorithm!MapThenFoldSet, Some
<1> DEFINE g == [k \in 0..n |-> f[1..k]]
<1>12. g \in [0..n -> Int] /\ g[n] = f[1..n] /\ g[0] = 0
  <2>1. \A k \in 0..n : 1..k \in SUBSET S
    OBVIOUS
  <2>2. 1..0 = {}
    OBVIOUS
  <2>3. QED
    BY <1>6, <2>1, <2>2
<1>13. ASSUME NEW k \in 1..n
      PROVE  g[k] = g[k - 1] + d[k]
  <2>1. k \in 1..k /\ 1..k \in SUBSET (1..n) /\ (1..k) \ {k} = 1..(k - 1) /\ k - 1 \in 0..n
    OBVIOUS
  <2>2. f[1..k] = d[k] + f[1..(k - 1)]
    BY <1>7, <2>1
  <2>3. f[1..(k - 1)] \in Int /\ d[k] \in Int
    BY <1>12, <2>1
  <2>4. QED
    BY <2>1, <2>2, <2>3
<1> HIDE DEF g, j
<1>14. QED
  BY <1>10, <1>11, <1>12, <1>13 DEF IsPrefixSum

\* K4: the sum of the first squares.
LEMMA SumOfSquares ==
  ASSUME NEW n \in Nat
  PROVE  Algorithm!transient_allocation(n) * 6 = (n - 1) * n * (2 * n - 1)
<1> DEFINE s == [k \in 1..n |-> (k - 1) * (k - 1)]
           G == [x \in 1..n |-> [u \in Int |-> u + s[x]]]
           Iter(h) == h = [T \in SUBSET (DOMAIN s) |->
                             IF T = {} THEN 0
                             ELSE h[T \ {Algorithm!Max(T)}] + s[Algorithm!Max(T)]]
           j == CHOOSE h : Iter(h)
<1>1. DOMAIN s = 1..n /\ \A x \in 1..n : s[x] \in Int /\ s[x] = (x - 1) * (x - 1)
  OBVIOUS
<1>2. Algorithm!transient_allocation(n) = j[1..n]
  BY <1>1 DEF Algorithm!transient_allocation, Algorithm!FoldLeft, Algorithm!MapThenFoldSet
<1> HIDE DEF s
<1> DEFINE V == Int
<1>3. /\ Steps(G, n, V) /\ 0 \in V
      /\ \A x \in 1..n, u \in Int : G[x][u] = u + s[x]
  BY <1>1 DEF Steps
<1> HIDE DEF G, V
<1>4. PICK f, g : LeftFold(f, g, n, V, 0, G)
  BY <1>3, FromTheLeft
<1>5. \A T \in SUBSET (1..n) : T # {} => Algorithm!Max(T) \in 1..n
  <2>1. \A T \in SUBSET (1..n) : T \in SUBSET (0..n)
    OBVIOUS
  <2>2. QED
    BY <2>1, Extremes
<1>6. Iter(f)
  <2>1. f \in [SUBSET (1..n) -> Int]
    BY <1>4 DEF LeftFold, V
  <2>2. \A T \in SUBSET (1..n) :
          f[T] = IF T = {} THEN 0 ELSE G[Algorithm!Max(T)][f[T \ {Algorithm!Max(T)}]]
    BY <1>4 DEF LeftFold
  <2>3. ASSUME NEW T \in SUBSET (1..n)
        PROVE  f[T] = IF T = {} THEN 0 ELSE f[T \ {Algorithm!Max(T)}] + s[Algorithm!Max(T)]
    <3>1. f[T \ {Algorithm!Max(T)}] \in Int
      BY <2>1
    <3>2. QED
      BY <1>5, <1>3, <2>2, <3>1
  <2>4. QED
    BY <1>1, <2>1, <2>3
<1>7. Iter(j)
  BY <1>6
<1> HIDE DEF j
<1>8. j[1..n] = g[n]
  <2>1. j[{}] = 0 /\ \A T \in SUBSET (1..n) : T # {} =>
          j[T] = j[T \ {Algorithm!Max(T)}] + s[Algorithm!Max(T)]
    BY <1>1, <1>7
  <2>2. GoesOnLeft(j, n, V, 0, G)
    BY <1>5, <1>3, <2>1 DEF GoesOnLeft, V
  <2>3. QED
    BY <1>4, <2>2, LeftFoldIs
<1>9. g[0] = 0 /\ \A k \in 1..n : g[k - 1] \in Int /\ g[k] = g[k - 1] + (k - 1) * (k - 1)
  <2>1. g \in [0..n -> Int] /\ g[0] = 0 /\ \A k \in 1..n : g[k] = G[k][g[k - 1]]
    BY <1>4 DEF LeftFold, V
  <2>2. \A k \in 1..n : k - 1 \in 0..n
    OBVIOUS
  <2>3. \A k \in 1..n : g[k - 1] \in Int
    BY <2>1, <2>2
  <2>4. ASSUME NEW k \in 1..n
        PROVE  g[k] = g[k - 1] + (k - 1) * (k - 1)
    <3>1. g[k] = g[k - 1] + s[k]
      BY <1>3, <2>1, <2>3
    <3>2. s[k] = (k - 1) * (k - 1)
      BY <1>1
    <3>3. QED
      BY <3>1, <3>2
  <2>5. QED
    BY <2>1, <2>3, <2>4
<1> DEFINE P == {k \in 0..n : g[k] * 6 = (k - 1) * k * (2 * k - 1)}
<1>10. 0 \in P
  BY <1>9
<1>11. ASSUME NEW k \in 1..n, k - 1 \in P
      PROVE  k \in P
  <2> DEFINE o == g[k - 1]
  <2>1. o \in Int /\ o * 6 = (k - 2) * (k - 1) * (2 * k - 3) /\ g[k] = o + (k - 1) * (k - 1)
    BY <1>9, <1>11
  <2> HIDE DEF o
  <2>2. (o + (k - 1) * (k - 1)) * 6 = o * 6 + 6 * ((k - 1) * (k - 1))
    BY <2>1
  <2>3. (k - 2) * (k - 1) * (2 * k - 3) + 6 * ((k - 1) * (k - 1)) = (k - 1) * k * (2 * k - 1)
    OBVIOUS
  <2>4. g[k] * 6 = (k - 1) * k * (2 * k - 1)
    BY <2>1, <2>2, <2>3
  <2>5. QED
    BY <2>4
<1> HIDE DEF P
<1>12. \A k \in 0..n : k \in P
  BY <1>10, <1>11, RoundByRound
<1>13. n \in P
  BY <1>12
<1>14. g[n] * 6 = (n - 1) * n * (2 * n - 1)
  BY <1>13 DEF P
<1>15. QED
  BY <1>2, <1>8, <1>14

\* K3: the sum so far, from the left.
LEMMA PlusFromTheLeft ==
  ASSUME NEW n \in Nat, NEW vs \in [1..n -> Int], Algorithm!Modulus \in Nat \ {0}
  PROVE  \E g \in [0..n -> Int] :
           /\ g[0] = 0 /\ \A k \in 1..n : g[k] = Algorithm!Plus(g[k - 1], vs[k])
           /\ Algorithm!sum_fold(vs) = g[n]
<1> DEFINE m == n
           s == vs
           G == [x \in 1..m |-> [u \in Int |-> Algorithm!Plus(u, s[x])]]
           Iter(h) == h = [T \in SUBSET (DOMAIN s) |->
                             IF T = {} THEN 0
                             ELSE Algorithm!Plus(h[T \ {Algorithm!Max(T)}], s[Algorithm!Max(T)])]
           j == CHOOSE h : Iter(h)
<1>1. DOMAIN s = 1..m /\ m \in Nat /\ \A x \in 1..m : s[x] \in Int /\ s[x] = vs[x]
  OBVIOUS
<1>2. Algorithm!sum_fold(vs) = j[1..m]
  BY <1>1 DEF Algorithm!sum_fold, Algorithm!FoldLeft, Algorithm!MapThenFoldSet
<1> HIDE DEF s, m
<1> DEFINE V == Int
<1>3. /\ Steps(G, m, V) /\ 0 \in V
      /\ \A x \in 1..m, u \in Int : G[x][u] = Algorithm!Plus(u, s[x])
  <2>1. 0 \in Int
    OBVIOUS
  <2>2. \A x \in 1..m, u \in Int : Algorithm!Plus(u, s[x]) \in Int
    BY <1>1 DEF Algorithm!Plus
  <2>3. QED
    BY <1>1, <2>1, <2>2 DEF Steps
<1> HIDE DEF G, V
<1>4. PICK f, g : LeftFold(f, g, m, V, 0, G)
  <2> DEFINE from == 0
  <2>1. from \in V
    BY <1>3
  <2> HIDE DEF from
  <2>2. \E f, g : LeftFold(f, g, m, V, from, G)
    BY <1>1, <1>3, <2>1, FromTheLeft
  <2>3. QED
    BY <2>2 DEF from
<1>5. \A T \in SUBSET (1..m) : T # {} => Algorithm!Max(T) \in 1..m
  <2>1. \A T \in SUBSET (1..m) : T \in SUBSET (0..m)
    OBVIOUS
  <2>2. QED
    BY <1>1, <2>1, Extremes
<1>6. Iter(f)
  <2>1. f \in [SUBSET (1..m) -> Int]
    BY <1>4 DEF LeftFold, V
  <2>2. \A T \in SUBSET (1..m) :
          f[T] = IF T = {} THEN 0 ELSE G[Algorithm!Max(T)][f[T \ {Algorithm!Max(T)}]]
    BY <1>4 DEF LeftFold
  <2>3. ASSUME NEW T \in SUBSET (1..m)
        PROVE  f[T] = IF T = {} THEN 0 ELSE Algorithm!Plus(f[T \ {Algorithm!Max(T)}], s[Algorithm!Max(T)])
    <3>1. f[T \ {Algorithm!Max(T)}] \in Int
      BY <2>1
    <3>2. QED
      BY <1>5, <1>3, <2>2, <3>1
  <2>4. QED
    BY <1>1, <2>1, <2>3
<1>7. Iter(j)
  BY <1>6
<1> HIDE DEF j
<1>8. j[1..m] = g[m]
  <2>1. j[{}] = 0 /\ \A T \in SUBSET (1..m) : T # {} =>
          j[T] = Algorithm!Plus(j[T \ {Algorithm!Max(T)}], s[Algorithm!Max(T)])
    BY <1>1, <1>7
  <2>2. GoesOnLeft(j, m, V, 0, G)
    BY <1>5, <1>3, <2>1 DEF GoesOnLeft, V
  <2>3. QED
    BY <1>1, <1>4, <2>2, LeftFoldIs
<1>9. g \in [0..m -> Int] /\ g[0] = 0 /\ \A k \in 1..m : g[k] = G[k][g[k - 1]]
  BY <1>4 DEF LeftFold, V
<1>10. ASSUME NEW k \in 1..m
      PROVE  g[k] = Algorithm!Plus(g[k - 1], vs[k])
  <2>1. g[k - 1] \in Int
    <3>1. k - 1 \in 0..m
      BY <1>1
    <3>2. QED
      BY <1>9, <3>1
  <2>2. G[k][g[k - 1]] = Algorithm!Plus(g[k - 1], s[k])
    BY <1>3, <2>1
  <2>3. QED
    BY <1>1, <1>9, <2>2
<1>11. QED
  BY <1>2, <1>8, <1>9, <1>10 DEF m

\* K3: the sum of what is left, by recursion.
LEMMA PlusFromTheRight ==
  ASSUME NEW n \in Nat \ {0}, NEW vs \in [1..n -> Int], Algorithm!Modulus \in Nat \ {0}
  PROVE  \E g \in [1..n -> Int] :
           /\ g[n] = vs[n] /\ \A k \in 1..(n - 1) : g[k] = Algorithm!Plus(vs[k], g[k + 1])
           /\ Algorithm!sum_recursive(vs) = g[1]
<1> DEFINE m == (n - 1)
           s == Algorithm!Front(vs)
           G == [x \in 1..m |-> [u \in Int |-> Algorithm!Plus(s[x], u)]]
           Iter(h) == h = [T \in SUBSET (DOMAIN s) |->
                             IF T = {} THEN vs[n]
                             ELSE Algorithm!Plus(s[Algorithm!Min(T)], h[T \ {Algorithm!Min(T)}])]
           j == CHOOSE h : Iter(h)
<1>1. DOMAIN s = 1..m /\ m \in Nat /\ \A x \in 1..m : s[x] \in Int /\ s[x] = vs[x]
  <2>1. vs \in Seq(Int) /\ Len(vs) = n
    OBVIOUS
  <2>2. QED
    BY <2>1 DEF Algorithm!Front
<1>2. Len(vs) = n /\ Head(vs) = vs[1]
  <2>1. vs \in Seq(Int) /\ Len(vs) = n
    OBVIOUS
  <2>2. QED
    BY <2>1
<1>3. Algorithm!sum_recursive(vs) = j[1..m]
  BY <1>1, <1>2 DEF Algorithm!sum_recursive, Algorithm!FoldRight, Algorithm!MapThenFoldSet
<1> HIDE DEF s, m
<1> DEFINE V == Int
<1>4. /\ Steps(G, m, V) /\ vs[n] \in V
      /\ \A x \in 1..m, u \in Int : G[x][u] = Algorithm!Plus(s[x], u)
  <2>1. vs[n] \in Int
    OBVIOUS
  <2>2. \A x \in 1..m, u \in Int : Algorithm!Plus(s[x], u) \in Int
    BY <1>1 DEF Algorithm!Plus
  <2>3. QED
    BY <1>1, <2>1, <2>2 DEF Steps
<1> HIDE DEF G, V
<1>5. PICK f, g : RightFold(f, g, m, V, vs[n], G)
  <2> DEFINE from == vs[n]
  <2>1. from \in V
    BY <1>4
  <2> HIDE DEF from
  <2>2. \E f, g : RightFold(f, g, m, V, from, G)
    BY <1>1, <1>4, <2>1, FromTheRight
  <2>3. QED
    BY <2>2 DEF from
<1>6. \A T \in SUBSET (1..m) : T # {} => Algorithm!Min(T) \in 1..m
  <2>1. \A T \in SUBSET (1..m) : T \in SUBSET (0..m)
    OBVIOUS
  <2>2. QED
    BY <1>1, <2>1, Extremes
<1>7. Iter(f)
  <2>1. f \in [SUBSET (1..m) -> Int]
    BY <1>5 DEF RightFold, V
  <2>2. \A T \in SUBSET (1..m) :
          f[T] = IF T = {} THEN vs[n] ELSE G[Algorithm!Min(T)][f[T \ {Algorithm!Min(T)}]]
    BY <1>5 DEF RightFold
  <2>3. ASSUME NEW T \in SUBSET (1..m)
        PROVE  f[T] = IF T = {} THEN vs[n] ELSE Algorithm!Plus(s[Algorithm!Min(T)], f[T \ {Algorithm!Min(T)}])
    <3>1. f[T \ {Algorithm!Min(T)}] \in Int
      BY <2>1
    <3>2. QED
      BY <1>6, <1>4, <2>2, <3>1
  <2>4. QED
    BY <1>1, <2>1, <2>3
<1>8. Iter(j)
  BY <1>7
<1> HIDE DEF j
<1>9. j[1..m] = g[1]
  <2>1. j[{}] = vs[n] /\ \A T \in SUBSET (1..m) : T # {} =>
          j[T] = Algorithm!Plus(s[Algorithm!Min(T)], j[T \ {Algorithm!Min(T)}])
    BY <1>1, <1>8
  <2>2. GoesOnRight(j, m, V, vs[n], G)
    BY <1>6, <1>4, <2>1 DEF GoesOnRight, V
  <2>3. QED
    BY <1>1, <1>5, <2>2, RightFoldIs
<1>10. g \in [1..(m + 1) -> Int] /\ g[m + 1] = vs[n] /\ \A k \in 1..m : g[k] = G[k][g[k + 1]]
  BY <1>5 DEF RightFold, V
<1>11. ASSUME NEW k \in 1..m
      PROVE  g[k] = Algorithm!Plus(vs[k], g[k + 1])
  <2>1. g[k + 1] \in Int
    <3>1. k + 1 \in 1..(m + 1)
      BY <1>1
    <3>2. QED
      BY <1>10, <3>1
  <2>2. G[k][g[k + 1]] = Algorithm!Plus(s[k], g[k + 1])
    BY <1>4, <2>1
  <2>3. QED
    BY <1>1, <1>10, <2>2
<1>12. m + 1 = n /\ m = n - 1
  BY DEF m
<1>13. QED
  BY <1>3, <1>9, <1>10, <1>11, <1>12

\* K1: a left fold.
LEMMA MinusFromTheLeft ==
  ASSUME NEW n \in Nat \ {0}, NEW vs \in [1..n -> Int]
  PROVE  \E g \in [0..(n - 1) -> Int] :
           /\ g[0] = vs[1] /\ \A k \in 1..(n - 1) : g[k] = Algorithm!Minus(g[k - 1], vs[k + 1])
           /\ Algorithm!fold_left(vs) = g[n - 1]
<1> DEFINE m == (n - 1)
           s == Tail(vs)
           G == [x \in 1..m |-> [u \in Int |-> Algorithm!Minus(u, s[x])]]
           Iter(h) == h = [T \in SUBSET (DOMAIN s) |->
                             IF T = {} THEN Head(vs)
                             ELSE Algorithm!Minus(h[T \ {Algorithm!Max(T)}], s[Algorithm!Max(T)])]
           j == CHOOSE h : Iter(h)
<1>1. DOMAIN s = 1..m /\ m \in Nat /\ \A x \in 1..m : s[x] \in Int /\ s[x] = vs[x + 1]
  <2>1. vs \in Seq(Int) /\ Len(vs) = n
    OBVIOUS
  <2>2. QED
    BY <2>1
<1>2. Len(vs) = n /\ Head(vs) = vs[1]
  <2>1. vs \in Seq(Int) /\ Len(vs) = n
    OBVIOUS
  <2>2. QED
    BY <2>1
<1>3. Algorithm!fold_left(vs) = j[1..m]
  BY <1>1 DEF Algorithm!fold_left, Algorithm!FoldLeft, Algorithm!MapThenFoldSet
<1> HIDE DEF s, m
<1> DEFINE V == Int
<1>4. /\ Steps(G, m, V) /\ vs[1] \in V
      /\ \A x \in 1..m, u \in Int : G[x][u] = Algorithm!Minus(u, s[x])
  <2>1. vs[1] \in Int
    OBVIOUS
  <2>2. \A x \in 1..m, u \in Int : Algorithm!Minus(u, s[x]) \in Int
    BY <1>1 DEF Algorithm!Minus
  <2>3. QED
    BY <1>1, <2>1, <2>2 DEF Steps
<1> HIDE DEF G, V
<1>5. PICK f, g : LeftFold(f, g, m, V, vs[1], G)
  <2> DEFINE from == vs[1]
  <2>1. from \in V
    BY <1>4
  <2> HIDE DEF from
  <2>2. \E f, g : LeftFold(f, g, m, V, from, G)
    BY <1>1, <1>4, <2>1, FromTheLeft
  <2>3. QED
    BY <2>2 DEF from
<1>6. \A T \in SUBSET (1..m) : T # {} => Algorithm!Max(T) \in 1..m
  <2>1. \A T \in SUBSET (1..m) : T \in SUBSET (0..m)
    OBVIOUS
  <2>2. QED
    BY <1>1, <2>1, Extremes
<1>7. Iter(f)
  <2>1. f \in [SUBSET (1..m) -> Int]
    BY <1>5 DEF LeftFold, V
  <2>2. \A T \in SUBSET (1..m) :
          f[T] = IF T = {} THEN vs[1] ELSE G[Algorithm!Max(T)][f[T \ {Algorithm!Max(T)}]]
    BY <1>5 DEF LeftFold
  <2>3. ASSUME NEW T \in SUBSET (1..m)
        PROVE  f[T] = IF T = {} THEN vs[1] ELSE Algorithm!Minus(f[T \ {Algorithm!Max(T)}], s[Algorithm!Max(T)])
    <3>1. f[T \ {Algorithm!Max(T)}] \in Int
      BY <2>1
    <3>2. QED
      BY <1>6, <1>4, <2>2, <3>1
  <2>4. QED
    BY <1>1, <1>2, <2>1, <2>3
<1>8. Iter(j)
  BY <1>7
<1> HIDE DEF j
<1>9. j[1..m] = g[m]
  <2>1. j[{}] = vs[1] /\ \A T \in SUBSET (1..m) : T # {} =>
          j[T] = Algorithm!Minus(j[T \ {Algorithm!Max(T)}], s[Algorithm!Max(T)])
    BY <1>1, <1>8, <1>2
  <2>2. GoesOnLeft(j, m, V, vs[1], G)
    BY <1>6, <1>4, <2>1 DEF GoesOnLeft, V
  <2>3. QED
    BY <1>1, <1>5, <2>2, LeftFoldIs
<1>10. g \in [0..m -> Int] /\ g[0] = vs[1] /\ \A k \in 1..m : g[k] = G[k][g[k - 1]]
  BY <1>5 DEF LeftFold, V
<1>11. ASSUME NEW k \in 1..m
      PROVE  g[k] = Algorithm!Minus(g[k - 1], vs[k + 1])
  <2>1. g[k - 1] \in Int
    <3>1. k - 1 \in 0..m
      BY <1>1
    <3>2. QED
      BY <1>10, <3>1
  <2>2. G[k][g[k - 1]] = Algorithm!Minus(g[k - 1], s[k])
    BY <1>4, <2>1
  <2>3. QED
    BY <1>1, <1>10, <2>2
<1>12. QED
  BY <1>3, <1>9, <1>10, <1>11 DEF m

\* K1: a right fold.
LEMMA MinusFromTheRight ==
  ASSUME NEW n \in Nat \ {0}, NEW vs \in [1..n -> Int]
  PROVE  \E g \in [1..n -> Int] :
           /\ g[n] = vs[n] /\ \A k \in 1..(n - 1) : g[k] = Algorithm!Minus(vs[k], g[k + 1])
           /\ Algorithm!fold_right(vs) = g[1]
<1> DEFINE m == (n - 1)
           s == Algorithm!Front(vs)
           G == [x \in 1..m |-> [u \in Int |-> Algorithm!Minus(s[x], u)]]
           Iter(h) == h = [T \in SUBSET (DOMAIN s) |->
                             IF T = {} THEN vs[n]
                             ELSE Algorithm!Minus(s[Algorithm!Min(T)], h[T \ {Algorithm!Min(T)}])]
           j == CHOOSE h : Iter(h)
<1>1. DOMAIN s = 1..m /\ m \in Nat /\ \A x \in 1..m : s[x] \in Int /\ s[x] = vs[x]
  <2>1. vs \in Seq(Int) /\ Len(vs) = n
    OBVIOUS
  <2>2. QED
    BY <2>1 DEF Algorithm!Front
<1>2. Len(vs) = n /\ Head(vs) = vs[1]
  <2>1. vs \in Seq(Int) /\ Len(vs) = n
    OBVIOUS
  <2>2. QED
    BY <2>1
<1>3. Algorithm!fold_right(vs) = j[1..m]
  BY <1>1, <1>2 DEF Algorithm!fold_right, Algorithm!FoldRight, Algorithm!MapThenFoldSet
<1> HIDE DEF s, m
<1> DEFINE V == Int
<1>4. /\ Steps(G, m, V) /\ vs[n] \in V
      /\ \A x \in 1..m, u \in Int : G[x][u] = Algorithm!Minus(s[x], u)
  <2>1. vs[n] \in Int
    OBVIOUS
  <2>2. \A x \in 1..m, u \in Int : Algorithm!Minus(s[x], u) \in Int
    BY <1>1 DEF Algorithm!Minus
  <2>3. QED
    BY <1>1, <2>1, <2>2 DEF Steps
<1> HIDE DEF G, V
<1>5. PICK f, g : RightFold(f, g, m, V, vs[n], G)
  <2> DEFINE from == vs[n]
  <2>1. from \in V
    BY <1>4
  <2> HIDE DEF from
  <2>2. \E f, g : RightFold(f, g, m, V, from, G)
    BY <1>1, <1>4, <2>1, FromTheRight
  <2>3. QED
    BY <2>2 DEF from
<1>6. \A T \in SUBSET (1..m) : T # {} => Algorithm!Min(T) \in 1..m
  <2>1. \A T \in SUBSET (1..m) : T \in SUBSET (0..m)
    OBVIOUS
  <2>2. QED
    BY <1>1, <2>1, Extremes
<1>7. Iter(f)
  <2>1. f \in [SUBSET (1..m) -> Int]
    BY <1>5 DEF RightFold, V
  <2>2. \A T \in SUBSET (1..m) :
          f[T] = IF T = {} THEN vs[n] ELSE G[Algorithm!Min(T)][f[T \ {Algorithm!Min(T)}]]
    BY <1>5 DEF RightFold
  <2>3. ASSUME NEW T \in SUBSET (1..m)
        PROVE  f[T] = IF T = {} THEN vs[n] ELSE Algorithm!Minus(s[Algorithm!Min(T)], f[T \ {Algorithm!Min(T)}])
    <3>1. f[T \ {Algorithm!Min(T)}] \in Int
      BY <2>1
    <3>2. QED
      BY <1>6, <1>4, <2>2, <3>1
  <2>4. QED
    BY <1>1, <2>1, <2>3
<1>8. Iter(j)
  BY <1>7
<1> HIDE DEF j
<1>9. j[1..m] = g[1]
  <2>1. j[{}] = vs[n] /\ \A T \in SUBSET (1..m) : T # {} =>
          j[T] = Algorithm!Minus(s[Algorithm!Min(T)], j[T \ {Algorithm!Min(T)}])
    BY <1>1, <1>8
  <2>2. GoesOnRight(j, m, V, vs[n], G)
    BY <1>6, <1>4, <2>1 DEF GoesOnRight, V
  <2>3. QED
    BY <1>1, <1>5, <2>2, RightFoldIs
<1>10. g \in [1..(m + 1) -> Int] /\ g[m + 1] = vs[n] /\ \A k \in 1..m : g[k] = G[k][g[k + 1]]
  BY <1>5 DEF RightFold, V
<1>11. ASSUME NEW k \in 1..m
      PROVE  g[k] = Algorithm!Minus(vs[k], g[k + 1])
  <2>1. g[k + 1] \in Int
    <3>1. k + 1 \in 1..(m + 1)
      BY <1>1
    <3>2. QED
      BY <1>10, <3>1
  <2>2. G[k][g[k + 1]] = Algorithm!Minus(s[k], g[k + 1])
    BY <1>4, <2>1
  <2>3. QED
    BY <1>1, <1>10, <2>2
<1>12. m + 1 = n /\ m = n - 1
  BY DEF m
<1>13. QED
  BY <1>3, <1>9, <1>10, <1>11, <1>12

LEMMA AddedModulo ==
  ASSUME NEW a \in Nat, NEW c \in Nat, NEW m \in Nat \ {0}
  PROVE  ((a % m) + c) % m = (a + c) % m
<1> DEFINE q == a \div m
           r == a % m
           p1 == (r + c) \div m
           t == (r + c) % m
<1>1. q \in Nat /\ r \in 0..(m - 1) /\ a = q * m + r
  <2>1. q \in Int /\ r \in 0..(m - 1) /\ a = q * m + r
    BY Division
  <2> HIDE DEF q, r
  <2>2. q <= -1 => q * m <= -m
    BY <2>1
  <2>3. QED
    BY <2>1, <2>2
<1> HIDE DEF q, r
<1>2. p1 \in Nat /\ t \in 0..(m - 1) /\ r + c = p1 * m + t
  <2>0. r + c \in Nat
    BY <1>1
  <2>1. p1 \in Int /\ t \in 0..(m - 1) /\ r + c = p1 * m + t
    BY <2>0, Division
  <2> HIDE DEF p1, t
  <2>2. p1 <= -1 => p1 * m <= -m
    BY <2>1
  <2>3. QED
    BY <1>1, <2>1, <2>2
<1>3. (r + c) % m = t
  OBVIOUS
<1> HIDE DEF p1, t
<1>4. a + c = (q + p1) * m + t /\ q + p1 \in Nat
  <2>1. (q + p1) * m = q * m + p1 * m
    BY <1>1, <1>2
  <2>2. q * m \in Int /\ p1 * m \in Int
    BY <1>1, <1>2
  <2>3. QED
    BY <1>1, <1>2, <2>1, <2>2
<1>5. ((q + p1) * m + t) % m = t
  BY <1>2, <1>4, Remainder
<1>6. QED
  BY <1>3, <1>4, <1>5 DEF r

LEMMA Parity ==
  ASSUME NEW k \in Nat
  PROVE  (k % 2 = 1 /\ (k + 1) % 2 = 0) \/ (k % 2 = 0 /\ (k + 1) % 2 = 1)
<1> DEFINE q == k \div 2
           r == k % 2
<1>1. q \in Nat /\ r \in 0..1 /\ k = q * 2 + r
  <2>1. q \in Int /\ r \in 0..(2 - 1) /\ k = q * 2 + r
    BY Division
  <2> HIDE DEF q, r
  <2>2. QED
    BY <2>1
<1> HIDE DEF q, r
<1>2. (q * 2 + 1) % 2 = 1 /\ ((q + 1) * 2 + 0) % 2 = 0
  <2>1. 1 \in 0..(2 - 1) /\ 0 \in 0..(2 - 1) /\ q + 1 \in Nat /\ 2 \in Nat \ {0}
    BY <1>1
  <2> DEFINE two == 2
  <2>2. two \in Nat \ {0} /\ 1 \in 0..(two - 1) /\ 0 \in 0..(two - 1)
    OBVIOUS
  <2> HIDE DEF two
  <2>3. (q * two + 1) % two = 1
    BY <1>1, <2>2, Remainder
  <2>4. ((q + 1) * two + 0) % two = 0
    BY <2>1, <2>2, Remainder
  <2>5. QED
    BY <2>3, <2>4 DEF two
<1>3. CASE r = 0
  BY <1>1, <1>2, <1>3 DEF r
<1>4. CASE r = 1
  <2>1. k + 1 = (q + 1) * 2 + 0
    BY <1>1, <1>4
  <2>2. QED
    BY <1>2, <1>4, <2>1 DEF r
<1>5. QED
  BY <1>1, <1>3, <1>4

\* K3: adding up by recursion and by a fold come to the same, modulo the width.
LEMMA SumsModuloAgree ==
  ASSUME NEW n \in Nat \ {0}, NEW vs \in [1..n -> Algorithm!Words]
  PROVE  /\ Algorithm!sum_recursive(vs) = Algorithm!Total(vs) % Algorithm!Modulus
         /\ Algorithm!sum_fold(vs) = Algorithm!Total(vs) % Algorithm!Modulus
<1> DEFINE M == Algorithm!Modulus
<1>1. M \in Nat \ {0} /\ \A k \in 1..n : vs[k] \in Nat /\ vs[k] < M
  <2>1. M \in Int
    BY ExercisesAssumption DEF Algorithm!Modulus
  <2>2. 1 \in 1..n
    OBVIOUS
  <2> HIDE DEF M
  <2>3. Algorithm!Words = 0..(M - 1)
    BY DEF Algorithm!Words, M
  <2>4. \A k \in 1..n : vs[k] \in 0..(M - 1)
    BY <2>3
  <2>5. QED
    BY <2>1, <2>2, <2>4
<1>2. Algorithm!Modulus = M
  OBVIOUS
<1>3. Algorithm!Modulus \in Nat \ {0} /\ vs \in [1..n -> Int]
  <2>1. DOMAIN vs = 1..n /\ vs = [k \in 1..n |-> vs[k]]
    OBVIOUS
  <2>2. QED
    BY <1>1, <2>1
<1> HIDE DEF M
<1>4. PICK h \in [0..n -> Int] : IsPrefixSum(h, vs, n) /\ Algorithm!SumFunction(vs) = h[n]
  BY <1>3, SumIs
<1>5. \A k \in 0..n : h[k] \in Nat
  <2> DEFINE S == {k \in 0..n : h[k] \in Nat}
  <2>1. 0 \in S
    BY <1>4 DEF IsPrefixSum
  <2>2. \A k \in 1..n : k - 1 \in S => k \in S
    BY <1>1, <1>4 DEF IsPrefixSum
  <2> HIDE DEF S
  <2>3. \A k \in 0..n : k \in S
    BY <2>1, <2>2, RoundByRound
  <2>4. QED
    BY <2>3 DEF S
<1>6. PICK l \in [0..n -> Int] :
        /\ l[0] = 0 /\ \A k \in 1..n : l[k] = Algorithm!Plus(l[k - 1], vs[k])
        /\ Algorithm!sum_fold(vs) = l[n]
  BY <1>3, PlusFromTheLeft
<1>7. l[n] = h[n] % M
  <2> DEFINE S == {k \in 0..n : l[k] = h[k] % M}
  <2>1. 0 \in S
    <3>1. 0 % M = 0
      BY <1>1
    <3>2. QED
      BY <1>4, <1>6, <3>1 DEF IsPrefixSum
  <2>2. ASSUME NEW k \in 1..n, k - 1 \in S
        PROVE  k \in S
    <3>1. l[k] = ((h[k - 1] % M) + vs[k]) % M
      BY <1>2, <1>6, <2>2 DEF Algorithm!Plus
    <3>2. h[k - 1] \in Nat /\ vs[k] \in Nat
      BY <1>1, <1>5
    <3>3. ((h[k - 1] % M) + vs[k]) % M = (h[k - 1] + vs[k]) % M
      BY <1>1, <3>2, AddedModulo
    <3>4. h[k] = h[k - 1] + vs[k]
      BY <1>4 DEF IsPrefixSum
    <3>5. QED
      BY <3>1, <3>3, <3>4
  <2> HIDE DEF S
  <2>3. \A k \in 0..n : k \in S
    BY <2>1, <2>2, RoundByRound
  <2>4. QED
    BY <2>3 DEF S
<1>8. PICK g \in [1..n -> Int] :
        /\ g[n] = vs[n] /\ \A k \in 1..(n - 1) : g[k] = Algorithm!Plus(vs[k], g[k + 1])
        /\ Algorithm!sum_recursive(vs) = g[1]
  BY <1>3, PlusFromTheRight
<1>9. g[1] = h[n] % M
  <2> DEFINE rest(k) == h[n] - h[n - k - 1]
             S == {k \in 0..(n - 1) : rest(k) \in Nat /\ g[n - k] = rest(k) % M}
  <2>1. 0 \in S
    <3>1. rest(0) = vs[n]
      BY <1>1, <1>4 DEF IsPrefixSum
    <3>2. vs[n] % M = vs[n]
      <4> DEFINE u == vs[n]
      <4>1. u \in 0..(M - 1) /\ 0 \in Nat
        BY <1>1
      <4> HIDE DEF u
      <4>2. (0 * M + u) % M = u
        BY <1>1, <4>1, Remainder
      <4>3. 0 * M + u = u
        BY <1>1, <4>1
      <4>4. QED
        BY <4>2, <4>3 DEF u
    <3>3. QED
      BY <1>1, <1>8, <3>1, <3>2
  <2>2. ASSUME NEW k \in 1..(n - 1), k - 1 \in S
        PROVE  k \in S
    <3> DEFINE ix == n - k
               u == vs[ix]
               o == h[n] - h[ix]
    <3>1. /\ ix \in 1..(n - 1) /\ ix \in 1..n /\ ix + 1 \in 1..n /\ ix - 1 \in 0..n /\ ix \in 0..n
          /\ ix + 1 = n - (k - 1) /\ ix = n - (k - 1) - 1 /\ ix = n - k /\ ix - 1 = n - k - 1
          /\ k \in 0..(n - 1)
      OBVIOUS
    <3> HIDE DEF ix
    <3>2. h[ix] = h[ix - 1] + u /\ u \in Nat
      BY <1>1, <1>4, <3>1 DEF IsPrefixSum
    <3>3. o \in Nat /\ g[ix + 1] = o % M
      BY <2>2, <3>1
    <3>4. g[ix] = (u + g[ix + 1]) % M
      BY <1>2, <1>8, <3>1 DEF Algorithm!Plus
    <3>5. h[n] - h[ix - 1] = o + u
      <4> DEFINE x == h[n]
                 y == h[ix - 1]
      <4>1. x \in Int /\ y \in Int
        BY <1>5, <3>1
      <4>2. o = x - (y + u)
        BY <3>2
      <4> HIDE DEF x, y, u, o
      <4>3. x - y = o + u
        BY <3>2, <4>1, <4>2
      <4>4. QED
        BY <4>3 DEF x, y
    <3> HIDE DEF u, o
    <3>6. ((o % M) + u) % M = (o + u) % M
      BY <1>1, <3>2, <3>3, AddedModulo
    <3>7. o % M \in Int
      BY <1>1, <3>3
    <3>8. (o % M) + u = u + (o % M)
      BY <3>2, <3>7
    <3>9. g[ix] = (o + u) % M /\ o + u \in Nat
      BY <3>2, <3>3, <3>4, <3>6, <3>8
    <3>10. QED
      BY <3>1, <3>5, <3>9
  <2> HIDE DEF S
  <2>3. n - 1 \in S
    <3> DEFINE last == n - 1
    <3>1. last \in Nat /\ 0 \in S /\ \A k \in 1..last : k - 1 \in S => k \in S
      BY <2>1, <2>2
    <3> HIDE DEF last
    <3>2. \A k \in 0..last : k \in S
      BY <3>1, RoundByRound
    <3>3. last \in S
      BY <3>1, <3>2
    <3>4. QED
      BY <3>3 DEF last
  <2>5. g[1] = (h[n] - h[0]) % M
    BY <2>3 DEF S
  <2>6. QED
    BY <1>4, <2>5 DEF IsPrefixSum
<1>10. QED
  BY <1>2, <1>4, <1>6, <1>7, <1>8, <1>9 DEF Algorithm!Total

\* K1: what a left and a right fold of a difference come to.
LEMMA FoldsOfDifferences ==
  ASSUME NEW n \in Nat \ {0}, NEW vs \in [1..n -> Int]
  PROVE  /\ Algorithm!fold_left(vs) = 2 * vs[1] - Algorithm!Total(vs)
         /\ Algorithm!fold_right(vs) = Algorithm!Alternating(vs)
<1>1. PICK h \in [0..n -> Int] : IsPrefixSum(h, vs, n) /\ Algorithm!SumFunction(vs) = h[n]
  BY SumIs
<1>2. PICK l \in [0..(n - 1) -> Int] :
        /\ l[0] = vs[1] /\ \A k \in 1..(n - 1) : l[k] = Algorithm!Minus(l[k - 1], vs[k + 1])
        /\ Algorithm!fold_left(vs) = l[n - 1]
  BY MinusFromTheLeft
<1>3. l[n - 1] = 2 * vs[1] - h[n]
  <2> DEFINE S == {k \in 0..(n - 1) : l[k] = 2 * vs[1] - h[k + 1]}
  <2>1. 0 \in S
    BY <1>1, <1>2 DEF IsPrefixSum
  <2>2. ASSUME NEW k \in 1..(n - 1), k - 1 \in S
        PROVE  k \in S
    <3>1. l[k] = l[k - 1] - vs[k + 1]
      BY <1>2 DEF Algorithm!Minus
    <3>2. k + 1 \in 1..n /\ k \in 0..n /\ h[k + 1] = h[k] + vs[k + 1]
      BY <1>1 DEF IsPrefixSum
    <3>3. l[k - 1] = 2 * vs[1] - h[k]
      BY <2>2
    <3>4. h[k] \in Int /\ vs[k + 1] \in Int /\ vs[1] \in Int
      BY <3>2
    <3> DEFINE x == 2 * vs[1]
               y == h[k]
               u == vs[k + 1]
    <3>0. x \in Int /\ y \in Int /\ u \in Int
      BY <3>4
    <3>5. l[k] = x - h[k + 1]
      <4>1. l[k] = (x - y) - u /\ h[k + 1] = y + u
        BY <3>1, <3>2, <3>3
      <4> HIDE DEF x, y, u
      <4>2. (x - y) - u = x - (y + u)
        BY <3>0
      <4>3. QED
        BY <4>1, <4>2
    <3>6. QED
      BY <3>5
  <2> HIDE DEF S
  <2>3. n - 1 \in S
    <3> DEFINE last == n - 1
    <3>1. last \in Nat /\ 0 \in S /\ \A k \in 1..last : k - 1 \in S => k \in S
      BY <2>1, <2>2
    <3> HIDE DEF last
    <3>2. \A k \in 0..last : k \in S
      BY <3>1, RoundByRound
    <3>3. last \in S
      BY <3>1, <3>2
    <3>4. QED
      BY <3>3 DEF last
  <2>5. QED
    BY <2>3 DEF S
<1> DEFINE d == [k \in DOMAIN vs |-> IF k % 2 = 1 THEN vs[k] ELSE -vs[k]]
<1>4. d \in [1..n -> Int] /\ \A k \in 1..n : d[k] = IF k % 2 = 1 THEN vs[k] ELSE -vs[k]
  OBVIOUS
<1>5. Algorithm!Alternating(vs) = Algorithm!SumFunction(d)
  BY DEF Algorithm!Alternating
<1> HIDE DEF d
<1>6. PICK e \in [0..n -> Int] : IsPrefixSum(e, d, n) /\ Algorithm!SumFunction(d) = e[n]
  BY <1>4, SumIs
<1>7. PICK g \in [1..n -> Int] :
        /\ g[n] = vs[n] /\ \A k \in 1..(n - 1) : g[k] = Algorithm!Minus(vs[k], g[k + 1])
        /\ Algorithm!fold_right(vs) = g[1]
  BY MinusFromTheRight
<1>8. g[1] = e[n]
  <2> DEFINE rest(k) == e[n] - e[n - k - 1]
             S == {k \in 0..(n - 1) :
                     rest(k) = IF (n - k) % 2 = 1 THEN g[n - k] ELSE -g[n - k]}
  <2>1. 0 \in S
    BY <1>4, <1>6, <1>7 DEF IsPrefixSum
  <2>2. ASSUME NEW k \in 1..(n - 1), k - 1 \in S
        PROVE  k \in S
    <3> DEFINE ix == n - k
    <3>1. /\ ix \in 1..(n - 1) /\ ix + 1 \in 1..n /\ ix \in 1..n /\ ix \in 0..n /\ ix - 1 \in 0..n
          /\ ix + 1 = n - (k - 1) /\ ix = n - (k - 1) - 1 /\ n \in 0..n /\ ix \in Nat
      OBVIOUS
    <3>2. ix - 1 = n - k - 1 /\ ix = n - k /\ k \in 0..(n - 1)
      OBVIOUS
    <3> HIDE DEF ix
    <3>3. e[ix] = e[ix - 1] + d[ix] /\ d[ix] = (IF ix % 2 = 1 THEN vs[ix] ELSE -vs[ix])
      BY <1>4, <1>6, <3>1 DEF IsPrefixSum
    <3>4. g[ix] = vs[ix] - g[ix + 1]
      BY <1>7, <3>1 DEF Algorithm!Minus
    <3>5. e[n] - e[ix] = IF (ix + 1) % 2 = 1 THEN g[ix + 1] ELSE -g[ix + 1]
      BY <2>2, <3>1
    <3>6. (ix % 2 = 1 /\ (ix + 1) % 2 = 0) \/ (ix % 2 = 0 /\ (ix + 1) % 2 = 1)
      BY <3>1, Parity
    <3>7. e[n] \in Int /\ e[ix] \in Int /\ e[ix - 1] \in Int /\ g[ix] \in Int /\ g[ix + 1] \in Int
          /\ vs[ix] \in Int
      BY <3>1
    <3>8. e[n] - e[ix - 1] = IF ix % 2 = 1 THEN g[ix] ELSE -g[ix]
      <4> DEFINE x == e[n]
                 y == e[ix - 1]
                 u == vs[ix]
                 z == g[ix + 1]
      <4>1. x \in Int /\ y \in Int /\ u \in Int /\ z \in Int
        BY <3>7
      <4>2. g[ix] = u - z /\ e[ix] = y + (IF ix % 2 = 1 THEN u ELSE -u)
        BY <3>3, <3>4
      <4>3. x - (y + (IF ix % 2 = 1 THEN u ELSE -u)) = IF (ix + 1) % 2 = 1 THEN z ELSE -z
        BY <3>5, <4>2
      <4> HIDE DEF x, y, u, z
      <4>4. x - y = IF ix % 2 = 1 THEN u - z ELSE -(u - z)
        <5>0. 1 # 0
          OBVIOUS
        <5>1. CASE ix % 2 = 1 /\ (ix + 1) % 2 = 0
          <6>1. x - (y + u) = -z
            BY <4>3, <5>0, <5>1, Zenon
          <6>2. x - y = u - z
            BY <4>1, <6>1
          <6>3. QED
            BY <5>1, <6>2, Zenon
        <5>2. CASE ix % 2 = 0 /\ (ix + 1) % 2 = 1
          <6>1. x - (y + (-u)) = z
            BY <4>3, <5>0, <5>2, Zenon
          <6>2. x - y = -(u - z)
            BY <4>1, <6>1
          <6>3. QED
            BY <5>0, <5>2, <6>2, Zenon
        <5>3. QED
          BY <3>6, <5>1, <5>2
      <4>5. QED
        BY <4>2, <4>4 DEF x, y
    <3>9. QED
      BY <3>2, <3>8
  <2> HIDE DEF S
  <2>3. n - 1 \in S
    <3> DEFINE last == n - 1
    <3>1. last \in Nat /\ 0 \in S /\ \A k \in 1..last : k - 1 \in S => k \in S
      BY <2>1, <2>2
    <3> HIDE DEF last
    <3>2. \A k \in 0..last : k \in S
      BY <3>1, RoundByRound
    <3>3. last \in S
      BY <3>1, <3>2
    <3>4. QED
      BY <3>3 DEF last
  <2>5. e[n] - e[0] = g[1]
    <3>1. n - (n - 1) = 1 /\ n - (n - 1) - 1 = 0 /\ 1 % 2 = 1
      OBVIOUS
    <3>2. QED
      BY <2>3, <3>1 DEF S
  <2>6. QED
    BY <1>6, <2>5 DEF IsPrefixSum
<1>9. QED
  BY <1>1, <1>2, <1>3, <1>5, <1>6, <1>7, <1>8 DEF Algorithm!Total

-----------------------------------------------------------------------------
(* K4: each round of the table takes a multiple of the polynomial away, so what  *)
(* is left after eight is the remainder.                                         *)

Up(c, k) == {x + k : x \in c}
Added(k) == Up(Algorithm!Generator, k)
Xor(s, t) == Algorithm!SymDiff(s, t)

LEMMA XorIs ==
  /\ \A s, t, x : x \in Xor(s, t) <=> (x \in s /\ x \notin t) \/ (x \notin s /\ x \in t)
  /\ \A s, t : s \in SUBSET Nat /\ t \in SUBSET Nat => Xor(s, t) \in SUBSET Nat
<1>1. \A s, t, x : x \in Xor(s, t) <=> (x \in s /\ x \notin t) \/ (x \notin s /\ x \in t)
  BY DEF Xor, Algorithm!SymDiff
<1>2. QED
  BY <1>1

LEMMA XorAssociates ==
  ASSUME NEW s, NEW t, NEW u
  PROVE  /\ Xor(Xor(s, t), u) = Xor(s, Xor(t, u)) /\ Xor(Xor(s, t), u) = Xor(Xor(s, u), t)
         /\ Xor(s, {}) = s
<1>1. \A x : x \in Xor(Xor(s, t), u) <=> x \in Xor(s, Xor(t, u))
  BY XorIs
<1>2. \A x : x \in Xor(Xor(s, t), u) <=> x \in Xor(Xor(s, u), t)
  BY XorIs
<1>3. \A x : x \in Xor(s, {}) <=> x \in s
  BY XorIs
<1>4. Xor(Xor(s, t), u) = Xor(s, Xor(t, u))
  BY <1>1
<1>5. Xor(Xor(s, t), u) = Xor(Xor(s, u), t)
  BY <1>2
<1>6. Xor(s, {}) = s
  BY <1>3
<1>7. QED
  BY <1>4, <1>5, <1>6

LEMMA GeneratorIs ==
  /\ Algorithm!Polynomial \in SUBSET Nat
  /\ \A x \in Nat : x \in Algorithm!Generator <=> x = 0 \/ x - 1 \in Algorithm!Polynomial
  /\ \A k \in Nat : Added(k) \in SUBSET Nat
<1>1. Algorithm!Polynomial \in SUBSET Nat
  BY DEF Algorithm!Polynomial
<1>2. \A x \in Nat : x \in Algorithm!Generator <=> x = 0 \/ x - 1 \in Algorithm!Polynomial
  <2>1. \A x \in Nat, y \in Nat : x = y + 1 <=> y = x - 1
    OBVIOUS
  <2>2. \A x : x \in Algorithm!Generator <=> x = 0 \/ \E y \in Algorithm!Polynomial : x = y + 1
    BY DEF Algorithm!Generator
  <2>3. QED
    BY <1>1, <2>1, <2>2
<1>3. Algorithm!Generator \in SUBSET Nat
  BY <1>1 DEF Algorithm!Generator
<1>4. QED
  BY <1>1, <1>2, <1>3 DEF Added, Up

\* A round: what is shifted up again differs from what was there by a multiple.
LEMMA RoundReduces ==
  ASSUME NEW c \in SUBSET Nat, NEW k \in Nat \ {0}
  PROVE  /\ Algorithm!Reduced(c) \in SUBSET Nat
         /\ Up(Algorithm!Reduced(c), k) =
              IF 0 \in c THEN Xor(Up(c, k - 1), Added(k - 1)) ELSE Up(c, k - 1)
<1> DEFINE P == Algorithm!Polynomial
           s == Algorithm!ShiftRight(c)
           r == Algorithm!Reduced(c)
<1>1. s \in SUBSET Nat /\ \A x \in Nat : x \in s <=> x + 1 \in c
  <2>1. \A x : x \in s <=> \E y \in c \ {0} : x = y - 1
    BY DEF Algorithm!ShiftRight
  <2>2. \A x \in Nat, y \in Nat \ {0} : x = y - 1 <=> y = x + 1
    OBVIOUS
  <2>3. \A y \in Nat \ {0} : y - 1 \in Nat
    OBVIOUS
  <2> HIDE DEF s
  <2>4. s \in SUBSET Nat
    BY <2>1, <2>3
  <2>5. ASSUME NEW x \in Nat PROVE x \in s <=> x + 1 \in c
    <3>1. x + 1 \in Nat \ {0} /\ x = (x + 1) - 1
      OBVIOUS
    <3>2. QED
      BY <2>1, <2>2, <3>1
  <2>6. QED
    BY <2>4, <2>5
<1>2. r = IF 0 \in c THEN Xor(P, s) ELSE s
  BY DEF Algorithm!Reduced, Xor
<1> HIDE DEF s, r, P
<1>3. r \in SUBSET Nat
  BY <1>1, <1>2, XorIs, GeneratorIs DEF P
<1>4. \A S \in SUBSET Nat, l \in Nat : \A x : x \in Up(S, l) <=> x \in Nat /\ x >= l /\ x - l \in S
  <2>1. ASSUME NEW S \in SUBSET Nat, NEW l \in Nat, NEW x
        PROVE  x \in Up(S, l) <=> x \in Nat /\ x >= l /\ x - l \in S
    <3>1. x \in Up(S, l) <=> \E y \in S : x = y + l
      BY DEF Up
    <3>2. ASSUME NEW y \in S, x = y + l
          PROVE  x \in Nat /\ x >= l /\ x - l \in S
      <4>1. y \in Nat
        OBVIOUS
      <4>2. x \in Nat /\ x >= l /\ x - l = y
        BY <3>2, <4>1
      <4>3. QED
        BY <4>2
    <3>3. ASSUME x \in Nat, x >= l, x - l \in S
          PROVE  \E y \in S : x = y + l
      <4>1. x = (x - l) + l
        BY <3>3
      <4>2. QED
        BY <3>3, <4>1
    <3>4. QED
      BY <3>1, <3>2, <3>3
  <2>2. QED
    BY <2>1
<1>5. \A x : x \in Added(k - 1) <=>
        x \in Nat /\ x >= k - 1 /\ (x = k - 1 \/ x - k \in P)
  <2>1. k - 1 \in Nat /\ Algorithm!Generator \in SUBSET Nat
    <3>1. Algorithm!Generator \in SUBSET Nat
      BY GeneratorIs DEF Algorithm!Generator
    <3>2. QED
      BY <3>1
  <2>2. \A x : x \in Added(k - 1) <=>
          x \in Nat /\ x >= k - 1 /\ x - (k - 1) \in Algorithm!Generator
    BY <1>4, <2>1 DEF Added
  <2>3. ASSUME NEW x \in Nat, x >= k - 1
        PROVE  x - (k - 1) \in Algorithm!Generator <=> (x = k - 1 \/ x - k \in P)
    <3>1. x - (k - 1) \in Nat /\ (x - (k - 1) = 0 <=> x = k - 1) /\ (x - (k - 1)) - 1 = x - k
      BY <2>3
    <3>2. QED
      BY <3>1, GeneratorIs DEF P
  <2>4. QED
    BY <2>2, <2>3
<1>6. \A x : x \in Up(c, k - 1) <=>
        x \in Nat /\ x >= k - 1 /\ ((x = k - 1 /\ 0 \in c) \/ (x >= k /\ x - k \in s))
  <2>1. k - 1 \in Nat
    OBVIOUS
  <2>2. \A x : x \in Up(c, k - 1) <=> x \in Nat /\ x >= k - 1 /\ x - (k - 1) \in c
    BY <1>4, <2>1
  <2>3. ASSUME NEW x \in Nat, x >= k - 1
        PROVE  x - (k - 1) \in c <=> (x = k - 1 /\ 0 \in c) \/ (x >= k /\ x - k \in s)
    <3>1. CASE x = k - 1
      <4>1. x - (k - 1) = 0 /\ ~(x >= k)
        BY <3>1
      <4>2. QED
        BY <3>1, <4>1
    <3>2. CASE x # k - 1
      <4>1. x >= k /\ x - k \in Nat /\ (x - k) + 1 = x - (k - 1)
        BY <2>3, <3>2
      <4>2. QED
        BY <1>1, <3>2, <4>1
    <3>3. QED
      BY <3>1, <3>2
  <2>4. QED
    BY <2>2, <2>3
<1>7. \A x : x \in Up(r, k) <=> x \in Nat /\ x >= k /\ x - k \in r
  BY <1>3, <1>4
<1>8. \A x \in Nat : x >= k => x >= k - 1 /\ x # k - 1
  OBVIOUS
<1>9. \A x \in Nat : x >= k - 1 /\ x # k - 1 => x >= k
  OBVIOUS
<1>10. \A x \in Nat : x - k \in P => x >= k
  <2>1. ASSUME NEW x \in Nat, x - k \in P PROVE x >= k
    <3>1. x - k \in Nat
      BY <2>1, GeneratorIs DEF P
    <3>2. QED
      BY <3>1
  <2>2. QED
    BY <2>1
<1>11. CASE 0 \in c
  <2>1. r = Xor(P, s)
    BY <1>2, <1>11
  <2>2. \A x : x \in Up(r, k) <=> x \in Xor(Up(c, k - 1), Added(k - 1))
    <3> DEFINE A == Up(c, k - 1)
               B == Added(k - 1)
    <3>1. ASSUME NEW x \in Nat, x >= k
          PROVE  x \in Up(r, k) <=> x \in Xor(A, B)
      <4>1. x \in A <=> x - k \in s
        BY <1>6, <1>8, <3>1
      <4>2. x \in B <=> x - k \in P
        BY <1>5, <1>8, <3>1
      <4>3. x \in Up(r, k) <=> x - k \in Xor(P, s)
        BY <1>7, <2>1, <3>1
      <4> HIDE DEF A, B
      <4>4. QED
        BY <4>1, <4>2, <4>3, XorIs
    <3>2. ASSUME NEW x, ~(x \in Nat /\ x >= k)
          PROVE  x \notin Up(r, k) /\ (x \in A <=> x \in B)
      <4>1. x \notin Up(r, k)
        BY <1>7, <3>2
      <4>2. x \in A <=> x \in Nat /\ x = k - 1
        BY <1>6, <1>9, <1>11, <3>2
      <4>3. x \in B <=> x \in Nat /\ x = k - 1
        BY <1>5, <1>9, <1>10, <3>2
      <4>4. QED
        BY <4>1, <4>2, <4>3
    <3> HIDE DEF A, B
    <3>3. \A x : x \in Up(r, k) <=> x \in Xor(A, B)
      BY <3>1, <3>2, XorIs
    <3>4. QED
      BY <3>3 DEF A, B
  <2>3. Up(r, k) = Xor(Up(c, k - 1), Added(k - 1))
    BY <2>2
  <2>4. QED
    BY <1>3, <1>11, <2>3 DEF r
<1>12. CASE 0 \notin c
  <2>1. r = s
    BY <1>2, <1>12
  <2>2. \A x : x \in Up(r, k) <=> x \in Up(c, k - 1)
    BY <1>6, <1>7, <1>8, <1>12, <2>1
  <2>3. Up(r, k) = Up(c, k - 1)
    BY <2>2
  <2>4. QED
    BY <1>3, <1>12, <2>3 DEF r
<1>13. QED
  BY <1>11, <1>12

LEMMA MultiplesAddUp ==
  \E f \in [SUBSET (0..7) -> SUBSET Nat] :
    /\ f[{}] = {} /\ \A T \in SUBSET (0..7) : \A x \in T : f[T] = Xor(f[T \ {x}], Added(x))
    /\ \A T \in SUBSET (0..7) : Algorithm!Multiple(T) = f[T]
<1> DEFINE S == 0..7
           V == SUBSET Nat
           G == [x \in S |-> [u \in V |-> Xor(u, Added(x))]]
<1>1. \A x \in S, u \in V : G[x][u] = Xor(u, Added(x)) /\ Xor(u, Added(x)) \in V
  <2>1. \A x \in S : Added(x) \in SUBSET Nat
    BY GeneratorIs
  <2>2. QED
    BY <2>1, XorIs
<1>2. G \in [S -> [V -> V]]
  BY <1>1
<1> HIDE DEF G
<1>3. Commutes(G, S, V)
  <2>1. ASSUME NEW x \in S, NEW y \in S, NEW u \in V
        PROVE  G[x][G[y][u]] = G[y][G[x][u]]
    <3>1. G[x][G[y][u]] = Xor(Xor(u, Added(y)), Added(x))
      BY <1>1
    <3>2. G[y][G[x][u]] = Xor(Xor(u, Added(x)), Added(y))
      BY <1>1
    <3>3. QED
      BY <3>1, <3>2, XorAssociates
  <2>2. QED
    BY <1>2, <2>1 DEF Commutes
<1>4. \E f \in [SUBSET S -> V] : AnyFold(f, S, {}, G)
  <2> DEFINE n == 8
             none == {}
  <2>1. n \in Nat /\ S = 0..(n - 1) /\ none \in V
    OBVIOUS
  <2> HIDE DEF n, S, V, none
  <2>2. \E f \in [SUBSET S -> V] : AnyFold(f, S, none, G)
    BY <1>3, <2>1, AnyOrder
  <2>3. QED
    BY <2>2 DEF none
<1>5. PICK f \in [SUBSET S -> V] : AnyFold(f, S, {}, G)
  BY <1>4
<1>6. /\ f[{}] = {}
      /\ \A T \in SUBSET S : \A x \in T :
           f[T] = Xor(f[T \ {x}], Added(x)) /\ f[T \ {x}] \in V
  <2>1. f[{}] = {} /\ \A T \in SUBSET S : \A x \in T : f[T] = G[x][f[T \ {x}]]
    BY <1>5 DEF AnyFold
  <2>2. ASSUME NEW T \in SUBSET S, NEW x \in T
        PROVE  f[T] = Xor(f[T \ {x}], Added(x)) /\ f[T \ {x}] \in V
    <3>1. T \ {x} \in SUBSET S /\ x \in S
      OBVIOUS
    <3>2. f[T \ {x}] \in V
      BY <3>1
    <3>3. f[T] = G[x][f[T \ {x}]]
      BY <2>1
    <3> HIDE DEF V, S
    <3>4. QED
      BY <1>1, <3>1, <3>2, <3>3
  <2>3. QED
    BY <2>1, <2>2
<1> HIDE DEF G
<1>7. ASSUME NEW Q \in SUBSET S
      PROVE  Algorithm!Multiple(Q) = f[Q]
  <2> DEFINE Some(s) == CHOOSE x \in s : TRUE
             Iter(h) == h = [s \in SUBSET Q |->
                               IF s = {} THEN {}
                               ELSE Algorithm!SymDiff(h[s \ {Some(s)}],
                                      {d + Some(s) : d \in Algorithm!Generator})]
             j == CHOOSE h : Iter(h)
             f1 == [T \in SUBSET Q |-> f[T]]
  <2>1. \A T : T # {} => Some(T) \in T
    OBVIOUS
  <2>2. Algorithm!Multiple(Q) = j[Q]
    BY DEF Algorithm!Multiple, Algorithm!FoldSet, Algorithm!MapThenFoldSet
  <2> HIDE DEF Some
  <2>3. \A s, k : Algorithm!SymDiff(s, {d + k : d \in Algorithm!Generator}) = Xor(s, Added(k))
    BY DEF Xor, Added, Up
  <2>4. Iter(f1)
    <3>1. \A T \in SUBSET Q : f1[T] = f[T] /\ f1[T \ {Some(T)}] = f[T \ {Some(T)}]
      OBVIOUS
    <3>2. \A T \in SUBSET Q : T \in SUBSET S
      OBVIOUS
    <3>3. \A T \in SUBSET Q : T # {} => f[T] = Xor(f[T \ {Some(T)}], Added(Some(T)))
      BY <1>6, <2>1, <3>2
    <3>4. \A T \in SUBSET Q :
            f1[T] = IF T = {} THEN {} ELSE Xor(f1[T \ {Some(T)}], Added(Some(T)))
      BY <1>6, <3>1, <3>3
    <3>5. \A T \in SUBSET Q :
            f1[T] = IF T = {} THEN {}
                    ELSE Algorithm!SymDiff(f1[T \ {Some(T)}],
                           {d + Some(T) : d \in Algorithm!Generator})
      <4>1. ASSUME NEW T \in SUBSET Q
            PROVE  f1[T] = IF T = {} THEN {}
                           ELSE Algorithm!SymDiff(f1[T \ {Some(T)}],
                                  {d + Some(T) : d \in Algorithm!Generator})
        <5> DEFINE u == f1[T \ {Some(T)}]
                   x == Some(T)
        <5>1. f1[T] = IF T = {} THEN {} ELSE Xor(u, Added(x))
          BY <3>4
        <5> HIDE DEF u, x
        <5>2. Algorithm!SymDiff(u, {d + x : d \in Algorithm!Generator}) = Xor(u, Added(x))
          BY <2>3
        <5>3. f1[T] = IF T = {} THEN {}
                      ELSE Algorithm!SymDiff(u, {d + x : d \in Algorithm!Generator})
          BY <5>1, <5>2, Zenon
        <5>4. QED
          BY <5>3 DEF u, x
      <4>2. QED
        BY <4>1
    <3>6. f1 = [T \in SUBSET Q |-> f1[T]]
      OBVIOUS
    <3> HIDE DEF f1
    <3>7. QED
      BY <3>5, <3>6
  <2>5. Iter(j)
    BY <2>4
  <2> HIDE DEF j
  <2>6. j[{}] = {} /\ \A T \in SUBSET Q : T # {} =>
          j[T] = Xor(j[T \ {Some(T)}], Added(Some(T)))
    BY <2>3, <2>5
  <2>7. \A T \in SUBSET Q : T # {} =>
          \E x \in T : j[T \ {x}] = f[T \ {x}] => j[T] = f[T]
    <3>1. ASSUME NEW T \in SUBSET Q, T # {}
          PROVE  \E x \in T : j[T \ {x}] = f[T \ {x}] => j[T] = f[T]
      <4>1. Some(T) \in T /\ T \in SUBSET S
        BY <2>1, <3>1
      <4>2. j[T] = Xor(j[T \ {Some(T)}], Added(Some(T)))
        BY <2>6, <3>1
      <4>3. f[T] = Xor(f[T \ {Some(T)}], Added(Some(T)))
        BY <1>6, <4>1
      <4>4. QED
        BY <4>1, <4>2, <4>3
    <3>2. QED
      BY <3>1
  <2>8. IsFiniteSet(Q)
    <3>1. \A k \in Nat : IsFiniteSet(0..k)
      BY FS_Interval
    <3>2. IsFiniteSet(S)
      BY <3>1
    <3> HIDE DEF S
    <3>3. QED
      BY <3>2, FS_Subset
  <2> DEFINE f0 == f
  <2>9. GoAlike(j, f0, Q)
    BY <1>6, <2>6, <2>7 DEF GoAlike
  <2> HIDE DEF f0, S, V, Iter
  <2>10. \A T \in SUBSET Q : j[T] = f0[T]
    BY <2>8, <2>9, SameFolds
  <2>11. QED
    BY <2>2, <2>10 DEF f0
<1>8. QED
  BY <1>6, <1>7

LEMMA RemainderOfThePolynomial ==
  ASSUME NEW word \in SUBSET Nat
  PROVE  \E Q \in SUBSET (0..7) :
           {x + 8 : x \in Algorithm!crc_entry(word)}
             = Algorithm!SymDiff(word, Algorithm!Multiple(Q))
<1>1. PICK f \in [SUBSET (0..7) -> SUBSET Nat] :
        /\ f[{}] = {} /\ \A T \in SUBSET (0..7) : \A x \in T : f[T] = Xor(f[T \ {x}], Added(x))
        /\ \A T \in SUBSET (0..7) : Algorithm!Multiple(T) = f[T]
  BY MultiplesAddUp
<1> DEFINE V == SUBSET Nat
           n == 8
           G == [k \in 1..n |-> [u \in V |-> Algorithm!Reduced(u)]]
           Turns(h) == h = [k \in 0..8 |-> IF k = 0 THEN word ELSE Algorithm!Reduced(h[k - 1])]
           c == CHOOSE h : Turns(h)
<1>2. \A u \in V : Algorithm!Reduced(u) \in V
  <2>1. 1 \in Nat \ {0}
    OBVIOUS
  <2>2. QED
    BY <2>1, RoundReduces
<1>3. Steps(G, n, V) /\ n \in Nat /\ word \in V
  BY <1>2 DEF Steps
<1>4. \A k \in 1..n, u \in V : G[k][u] = Algorithm!Reduced(u)
  OBVIOUS
<1> HIDE DEF V, G, c
<1>5. \E h, g : LeftFold(h, g, n, V, word, G)
  <2> HIDE DEF n
  <2>1. QED
    BY <1>3, FromTheLeft
<1>6. PICK h, g : LeftFold(h, g, n, V, word, G)
  BY <1>5
<1>7. g \in [0..8 -> V] /\ g[0] = word /\ \A k \in 1..8 : g[k] = G[k][g[k - 1]]
  BY <1>6 DEF LeftFold
<1>8. \A k \in 1..8 : g[k] = Algorithm!Reduced(g[k - 1])
  <2>1. ASSUME NEW k \in 1..8 PROVE g[k] = Algorithm!Reduced(g[k - 1])
    <3>1. k - 1 \in 0..8
      OBVIOUS
    <3>2. g[k - 1] \in V
      BY <1>7, <3>1
    <3>3. QED
      BY <1>4, <1>7, <3>2
  <2>2. QED
    BY <2>1
<1>9. Turns(g)
  <2>1. g = [k \in 0..8 |-> g[k]]
    BY <1>7
  <2>2. \A k \in 0..8 : g[k] = IF k = 0 THEN word ELSE Algorithm!Reduced(g[k - 1])
    BY <1>7, <1>8
  <2>3. QED
    BY <2>1, <2>2
<1>10. Turns(c)
  BY <1>9 DEF c
<1>11. Algorithm!crc_entry(word) = c[8]
  BY DEF Algorithm!crc_entry, c
<1>12. c[0] = word /\ \A k \in 1..8 : c[k] = Algorithm!Reduced(c[k - 1])
  <2>1. \A k \in 0..8 : c[k] = IF k = 0 THEN word ELSE Algorithm!Reduced(c[k - 1])
    BY <1>10
  <2>2. QED
    BY <2>1
<1> DEFINE P == {k \in 0..n : /\ c[k] \in SUBSET Nat
                             /\ \E Q \in SUBSET (0..(k - 1)) : Up(c[k], k) = Xor(word, f[Q])}
<1>13. 0 \in P
  <2>1. Up(word, 0) = word
    <3>1. \A x \in word : x + 0 = x
      OBVIOUS
    <3>2. QED
      BY <3>1 DEF Up
  <2>2. Xor(word, f[{}]) = word
    BY <1>1, XorAssociates
  <2>3. {} \in SUBSET (0..(0 - 1))
    OBVIOUS
  <2>4. c[0] \in SUBSET Nat /\ Up(c[0], 0) = Xor(word, f[{}])
    BY <1>12, <2>1, <2>2
  <2>5. \E Q \in SUBSET (0..(0 - 1)) : Up(c[0], 0) = Xor(word, f[Q])
    BY <2>3, <2>4
  <2>6. 0 \in 0..n
    OBVIOUS
  <2>7. QED
    BY <2>4, <2>5, <2>6
<1>14. ASSUME NEW k \in 1..n, k - 1 \in P
       PROVE  k \in P
  <2> DEFINE o == c[k - 1]
  <2>1. o \in SUBSET Nat /\ c[k] = Algorithm!Reduced(o)
    BY <1>12, <1>14
  <2>2. PICK Q \in SUBSET (0..((k - 1) - 1)) : Up(o, k - 1) = Xor(word, f[Q])
    BY <1>14
  <2>3. k \in Nat \ {0} /\ k \in 0..n
    OBVIOUS
  <2> HIDE DEF o
  <2>4. /\ c[k] \in SUBSET Nat
        /\ Up(c[k], k) = IF 0 \in o THEN Xor(Up(o, k - 1), Added(k - 1)) ELSE Up(o, k - 1)
    BY <2>1, <2>3, RoundReduces
  <2>5. CASE 0 \notin o
    <3>1. Q \in SUBSET (0..(k - 1))
      OBVIOUS
    <3>2. QED
      BY <2>2, <2>3, <2>4, <2>5, <3>1
  <2>6. CASE 0 \in o
    <3> DEFINE R == Q \cup {k - 1}
    <3>1. R \in SUBSET (0..(k - 1)) /\ R \in SUBSET (0..7) /\ k - 1 \in R /\ R \ {k - 1} = Q
      OBVIOUS
    <3> HIDE DEF R
    <3>2. f[R] = Xor(f[Q], Added(k - 1))
      BY <1>1, <3>1
    <3>3. Xor(word, f[R]) = Xor(Xor(word, f[Q]), Added(k - 1))
      BY <3>2, XorAssociates
    <3>4. Up(c[k], k) = Xor(word, f[R])
      BY <2>2, <2>4, <2>6, <3>3
    <3>5. QED
      BY <2>3, <2>4, <3>1, <3>4
  <2>7. QED
    BY <2>5, <2>6
<1>15. 8 \in P
  <2>1. n \in Nat /\ n \in 0..n
    OBVIOUS
  <2> HIDE DEF P, n
  <2>2. \A k \in 0..n : k \in P
    BY <1>13, <1>14, <2>1, RoundByRound
  <2>3. QED
    BY <2>1, <2>2 DEF n
<1>16. PICK Q \in SUBSET (0..7) : Up(c[8], 8) = Xor(word, f[Q])
  BY <1>15
<1>17. {x + 8 : x \in c[8]} = Algorithm!SymDiff(word, f[Q]) /\ Algorithm!Multiple(Q) = f[Q]
  BY <1>1, <1>16 DEF Up, Xor
<1>18. QED
  BY <1>11, <1>17

-----------------------------------------------------------------------------
(* What has been computed.                                                  *)

ComputedInv ==
  /\ input \in Algorithm!Inputs
  /\ computed => result = Algorithm!Result(input)

LEMMA ComputedIs == ExercisesSpec => []ComputedInv
<1>1. ExercisesInit => ComputedInv
  BY DEF ExercisesInit, Algorithm!Init, ComputedInv
<1>2. ComputedInv /\ [ExercisesNext]_exerciseVars => ComputedInv'
  <2> SUFFICES ASSUME ComputedInv, [ExercisesNext]_exerciseVars
               PROVE  ComputedInv'
    OBVIOUS
  <2>1. UNCHANGED computationVars => ComputedInv'
    BY DEF computationVars, ComputedInv
  <2>2. CASE Computes
    <3>1. CASE Algorithm!Compute
      BY <3>1 DEF Algorithm!Compute, ComputedInv
    <3>2. CASE Algorithm!Computed
      BY <2>1, <3>2 DEF Algorithm!Computed, Algorithm!computationVars, computationVars
    <3>3. QED
      BY <2>2, <3>1, <3>2 DEF Computes, Algorithm!Next
  <2>3. CASE Lifetimes \/ Owns \/ Compiles \/ UNCHANGED exerciseVars
    BY <2>1, <2>3 DEF Lifetimes, Owns, Compiles, exerciseVars
  <2>4. QED
    BY <2>2, <2>3 DEF ExercisesNext
<1>3. QED
  BY <1>1, <1>2, PTL DEF ExercisesSpec

LEMMA TextsAreTexts == \A text \in Algorithm!Texts : text \in Seq({1, 2})
<1>1. ASSUME NEW n \in Nat
      PROVE  /\ [1..n -> {1, 2}] \subseteq Seq({1, 2})
             /\ [k \in 1..n |-> 1 + (k % 2)] \in Seq({1, 2})
  <2>1. \A k \in 1..n : 1 + (k % 2) \in {1, 2}
    <3>1. \A k \in 1..n : k % 2 = 0 \/ k % 2 = 1
      BY Parity
    <3>2. QED
      BY <3>1
  <2>2. QED
    BY <2>1
<1>2. MaxArgs \in Nat
  BY ExercisesAssumption DEF ExercisesAssumption
<1>3. \A n : n \in 0..2 \/ n \in 3..(MaxArgs + 1) => n \in Nat
  BY <1>2
<1>4. \A text \in Algorithm!Texts : \/ \E n \in 0..2 : text \in [1..n -> {1, 2}]
                                   \/ \E n \in 3..(MaxArgs + 1) : text = [k \in 1..n |-> 1 + (k % 2)]
  <2>1. ASSUME NEW text \in Algorithm!Texts
        PROVE  \/ \E n \in 0..2 : text \in [1..n -> {1, 2}]
               \/ \E n \in 3..(MaxArgs + 1) : text = [k \in 1..n |-> 1 + (k % 2)]
    <3> DEFINE short == UNION {[1..n -> {1, 2}] : n \in 0..2}
               long == {[k \in 1..n |-> 1 + (k % 2)] : n \in 3..(MaxArgs + 1)}
    <3>1. CASE text \in short
      BY <3>1
    <3>2. CASE text \in long
      BY <3>2
    <3>3. Algorithm!Texts = short \cup long
      <4>1. Algorithm!Texts = (UNION {[1..n -> {1, 2}] : n \in 0..2})
                                 \cup {[k \in 1..n |-> 1 + (k % 2)] : n \in 3..(MaxArgs + 1)}
        BY DEF Algorithm!Texts
      <4>2. QED
        BY <4>1
    <3> HIDE DEF short, long
    <3>4. text \in short \/ text \in long
      BY <3>3
    <3>5. QED
      BY <3>1, <3>2, <3>4
  <2>2. QED
    BY <2>1
<1>5. QED
  BY <1>1, <1>3, <1>4

\* What an input of each kind holds.
LEMMA ArgumentsAre ==
  ASSUME input \in Algorithm!Inputs
  PROVE  /\ input.of = "append" => \E s \in 1..4, n \in 0..9 : input.args = <<s, n>>
         /\ input.of = "compare" => \E s \in Algorithm!Versions, n \in Algorithm!Versions : input.args = <<s, n>>
         /\ input.of = "size" => \E n \in Algorithm!Words : input.args = <<n>>
         /\ input.of = "grow" => \E n \in 0..17, s \in BOOLEAN, t \in BOOLEAN : input.args = <<n, s, t>>
         /\ input.of = "buffer" => \E n \in 1..MaxArgs, s \in Algorithm!Texts, t \in Algorithm!Texts : input.args = <<n, s, t>>
         /\ input.of = "transient" => \E n \in 0..10 : input.args = <<n>>
         /\ input.of = "sums" => \E s \in Algorithm!Packs : input.args = <<s>>
         /\ input.of = "folds" => \E s \in Algorithm!Packs : input.args = <<s>>
         /\ input.of = "crc" => \E n \in 0..255 : input.args = <<n>>
<1>1. input.of = "append" => \E s \in 1..4, n \in 0..9 : input.args = <<s, n>>
  BY DEF Algorithm!Inputs
<1>2. input.of = "compare" => \E s \in Algorithm!Versions, n \in Algorithm!Versions : input.args = <<s, n>>
  BY DEF Algorithm!Inputs
<1>3. input.of = "size" => \E n \in Algorithm!Words : input.args = <<n>>
  BY DEF Algorithm!Inputs
<1>4. input.of = "grow" => \E n \in 0..17, s \in BOOLEAN, t \in BOOLEAN : input.args = <<n, s, t>>
  BY DEF Algorithm!Inputs
<1>5. input.of = "buffer" => \E n \in 1..MaxArgs, s \in Algorithm!Texts, t \in Algorithm!Texts : input.args = <<n, s, t>>
  BY DEF Algorithm!Inputs
<1>6. input.of = "transient" => \E n \in 0..10 : input.args = <<n>>
  BY DEF Algorithm!Inputs
<1>7. input.of = "sums" => \E s \in Algorithm!Packs : input.args = <<s>>
  BY DEF Algorithm!Inputs
<1>8. input.of = "folds" => \E s \in Algorithm!Packs : input.args = <<s>>
  BY DEF Algorithm!Inputs
<1>9. input.of = "crc" => \E n \in 0..255 : input.args = <<n>>
  <2>1. ASSUME input.of = "crc"
        PROVE  input \in {[of |-> "crc", args |-> <<n>>] : n \in 0..255}
    BY <2>1 DEF Algorithm!Inputs
  <2>2. QED
    BY <2>1
<1>10. QED
  BY <1>1, <1>2, <1>3, <1>4, <1>5, <1>6, <1>7, <1>8, <1>9

\* The kinds of which it is proved that they compute what they should.
ProvedKinds ==
  {"append", "compare", "size", "grow", "buffer", "transient", "sums", "folds", "crc"}

LEMMA PacksAre ==
  \A vs \in Algorithm!Packs : \E n \in Nat \ {0} :
    vs \in [1..n -> Algorithm!Words] /\ vs \in [1..n -> Int] /\ Len(vs) = n
<1>1. ASSUME NEW vs \in Algorithm!Packs
      PROVE  \E n \in Nat \ {0} :
               vs \in [1..n -> Algorithm!Words] /\ vs \in [1..n -> Int] /\ Len(vs) = n
  <2>1. PICK n \in 1..MaxArgs : vs \in [1..n -> (0..3) \cap Algorithm!Words]
    BY DEF Algorithm!Packs
  <2>2. n \in Nat \ {0}
    BY ExercisesAssumption DEF ExercisesAssumption
  <2>3. vs \in [1..n -> Algorithm!Words] /\ vs \in [1..n -> Int]
    BY <2>1
  <2>4. Len(vs) = n
    BY <2>2, <2>3
  <2>5. QED
    BY <2>2, <2>3, <2>4
<1>2. QED
  BY <1>1

LEMMA ProvedKindsMatch ==
  ASSUME ComputedInv, input.of \in ProvedKinds
  PROVE  MatchesDefinition
<1> DEFINE a == input.args
<1> SUFFICES ASSUME computed PROVE MatchesDefinition
  BY DEF MatchesDefinition, Algorithm!MatchesDefinition
<1>0. result = Algorithm!Result(input) /\ input \in Algorithm!Inputs
  BY DEF ComputedInv
<1>1. CASE input.of = "append"
  <2>1. PICK s \in 1..4, n \in 0..9 : a = <<s, n>>
    BY <1>0, <1>1, ArgumentsAre
  <2>2. Algorithm!append_bytes(s, n) = [k \in 1..n |-> (k - 1) % s]
    <3>1. s \in Nat \ {0} /\ n \in Nat
      OBVIOUS
    <3>2. QED
      BY <3>1, CyclicIndex
  <2>3. a[1] = s /\ a[2] = n
    BY <2>1
  <2>4. result = Algorithm!append_bytes(a[1], a[2])
    BY <1>0, <1>1 DEF Algorithm!Result
  <2>5. result = [k \in 1..a[2] |-> (k - 1) % a[1]]
    BY <2>2, <2>3, <2>4
  <2> HIDE DEF a
  <2>6. QED
    BY <1>1, <2>5 DEF MatchesDefinition, Algorithm!MatchesDefinition, a
<1>2. CASE input.of = "compare"
  <2>1. PICK s \in Algorithm!Versions, n \in Algorithm!Versions : a = <<s, n>>
    BY <1>0, <1>2, ArgumentsAre
  <2>2. a[1] = s /\ a[2] = n
    BY <2>1
  <2>3. result = Algorithm!Compared(a[1], a[2])
    BY <1>0, <1>2 DEF Algorithm!Result
  <2> DEFINE lt == Algorithm!Before(s, n)
             gt == Algorithm!Before(n, s)
  <2>4. Algorithm!Compared(s, n) =
          [eq |-> ~lt /\ ~gt, lt |-> lt, ne |-> lt \/ gt, gt |-> gt, le |-> ~gt, ge |-> ~lt]
    BY Comparisons
  <2>5. QED
    BY <1>2, <2>2, <2>3, <2>4 DEF MatchesDefinition, Algorithm!MatchesDefinition
<1>3. CASE input.of = "size"
  <2>1. PICK n \in Algorithm!Words : a = <<n>>
    BY <1>0, <1>3, ArgumentsAre
  <2>2. a[1] = n
    BY <2>1
  <2>3. result = Algorithm!SizeMinusOne(a[1])
    BY <1>0, <1>3 DEF Algorithm!Result
  <2>4. result = IF a[1] = 0 THEN Algorithm!Modulus - 1 ELSE a[1] - 1
    BY <2>2, <2>3, BeforeZero
  <2>5. QED
    BY <1>3, <2>4 DEF MatchesDefinition, Algorithm!MatchesDefinition
<1>4. CASE input.of = "grow"
  <2>1. PICK n \in 0..17, m \in BOOLEAN, q \in BOOLEAN : a = <<n, m, q>>
    BY <1>0, <1>4, ArgumentsAre
  <2>2. a[1] = n /\ a[2] = m /\ a[3] = q
    BY <2>1
  <2>3. result = Algorithm!Adding(a[1], a[2], a[3])
    BY <1>0, <1>4 DEF Algorithm!Result
  <2>4. (IF n = 0 THEN 0 ELSE Algorithm!CapacityFor(n) - 1) = Cost(n)
    <3>1. n # 0 => n \in 1..17
      OBVIOUS
    <3>2. QED
      BY <3>1, RoomIs DEF Cost
  <2>5. result = IF m THEN <<0, Cost(n) + (IF q THEN n ELSE 0)>>
                 ELSE <<Cost(n), IF q THEN n ELSE 0>>
    BY <2>2, <2>3, Growth
  <2>6. LET given == IF a[1] = 0 THEN 0 ELSE Algorithm!CapacityFor(a[1]) - 1
            in == IF a[3] THEN a[1] ELSE 0
        IN result = IF a[2] THEN <<0, given + in>> ELSE <<given, in>>
    BY <2>2, <2>4, <2>5
  <2>7. QED
    BY <1>4, <2>6 DEF MatchesDefinition, Algorithm!MatchesDefinition
<1>5. CASE input.of = "buffer"
  <2>1. PICK n \in 1..MaxArgs, s \in Algorithm!Texts, t \in Algorithm!Texts : a = <<n, s, t>>
    BY <1>0, <1>5, ArgumentsAre
  <2>2. a[1] = n /\ a[2] = s /\ a[3] = t
    BY <2>1
  <2>3. result = Algorithm!Moved(a[1], a[2], a[3])
    BY <1>0, <1>5 DEF Algorithm!Result
  <2>4. n \in Nat \ {0} /\ s \in Seq({1, 2}) /\ t \in Seq({1, 2})
    BY ExercisesAssumption, TextsAreTexts DEF ExercisesAssumption
  <2>5. result = <<<<"moved-from">>, SubSeq(t, 1, IF Len(t) < n THEN Len(t) ELSE n - 1)>>
    BY <2>2, <2>3, <2>4, LastTextShown
  <2>6. QED
    BY <1>5, <2>2, <2>5 DEF MatchesDefinition, Algorithm!MatchesDefinition
<1>6. CASE input.of = "transient"
  <2>1. PICK n \in 0..10 : a = <<n>>
    BY <1>0, <1>6, ArgumentsAre
  <2>2. a[1] = n /\ n \in Nat
    BY <2>1
  <2>3. result = Algorithm!transient_allocation(a[1])
    BY <1>0, <1>6 DEF Algorithm!Result
  <2>4. result * 6 = (a[1] - 1) * a[1] * (2 * a[1] - 1)
    BY <2>2, <2>3, SumOfSquares
  <2>5. QED
    BY <1>6, <2>4 DEF MatchesDefinition, Algorithm!MatchesDefinition
<1>7. CASE input.of = "sums"
  <2>1. PICK vs \in Algorithm!Packs : a = <<vs>>
    BY <1>0, <1>7, ArgumentsAre
  <2>2. PICK n \in Nat \ {0} : vs \in [1..n -> Algorithm!Words]
    BY PacksAre
  <2>3. a[1] = vs
    BY <2>1
  <2>4. result = <<Algorithm!sum_recursive(a[1]), Algorithm!sum_fold(a[1])>>
    BY <1>0, <1>7 DEF Algorithm!Result
  <2>5. result = <<Algorithm!Total(vs) % Algorithm!Modulus, Algorithm!Total(vs) % Algorithm!Modulus>>
    BY <2>2, <2>3, <2>4, SumsModuloAgree
  <2>6. QED
    BY <1>7, <2>3, <2>5 DEF MatchesDefinition, Algorithm!MatchesDefinition
<1>8. CASE input.of = "folds"
  <2>1. PICK vs \in Algorithm!Packs : a = <<vs>>
    BY <1>0, <1>8, ArgumentsAre
  <2>2. PICK n \in Nat \ {0} : vs \in [1..n -> Int]
    BY PacksAre
  <2>3. a[1] = vs
    BY <2>1
  <2>4. result = <<Algorithm!fold_left(a[1]), Algorithm!fold_right(a[1])>>
    BY <1>0, <1>8 DEF Algorithm!Result
  <2>5. result = <<2 * vs[1] - Algorithm!Total(vs), Algorithm!Alternating(vs)>>
    BY <2>2, <2>3, <2>4, FoldsOfDifferences
  <2>6. QED
    BY <1>8, <2>3, <2>5 DEF MatchesDefinition, Algorithm!MatchesDefinition
<1>9. CASE input.of = "crc"
  <2>1. PICK n \in 0..255 : a = <<n>>
    BY <1>0, <1>9, ArgumentsAre
  <2>2. a[1] = n
    BY <2>1
  <2>3. result = Algorithm!crc_entry(Algorithm!Bits(a[1]))
    BY <1>0, <1>9 DEF Algorithm!Result
  <2>4. Algorithm!Bits(a[1]) \in SUBSET Nat
    BY DEF Algorithm!Bits
  <2>5. \E Q \in SUBSET (0..7) :
          {x + 8 : x \in result} = Algorithm!SymDiff(Algorithm!Bits(a[1]), Algorithm!Multiple(Q))
    BY <2>3, <2>4, RemainderOfThePolynomial
  <2>6. QED
    BY <1>9, <2>5 DEF MatchesDefinition, Algorithm!MatchesDefinition
<1>10. QED
  BY <1>1, <1>2, <1>3, <1>4, <1>5, <1>6, <1>7, <1>8, <1>9 DEF ProvedKinds

\* Nine of the fifteen algorithms compute what they should, for every width of the
\* numbers and every length of a pack or a buffer: the index without a division, the
\* relations made of == and <, what is before 0, the copies and moves of a growing
\* vector, the text a moved buffer shows, the sum of squares, the two sums of a
\* pack, its two folds, and the table of the CRC.
THEOREM LoopsMatch == ExercisesSpec => [](input.of \in ProvedKinds => MatchesDefinition)
<1>1. ComputedInv => (input.of \in ProvedKinds => MatchesDefinition)
  BY ProvedKindsMatch
<1>2. QED
  BY <1>1, ComputedIs, PTL
=============================================================================
