---------------------------- MODULE Measurements ----------------------------
(***************************************************************************)
(* The measuring programs of part I, and the mutex that J3 measures beside *)
(* its seqlock.  They share nothing; main() of each makes its measurements *)
(* one after the other, and here one of the four kinds is picked at the    *)
(* start: a walk of I2 to I5, the counters of I1, the workers and the      *)
(* disruptor of I2, or J3's writer and reader.                             *)
(***************************************************************************)
EXTENDS Integers

CONSTANTS
  kLine, kLinesPerPage, kPages, Lines, kReps,           \* PointerChase
  kMaxThreads, kIters, MaxCalls,                        \* FalseSharing
  kWorkers, kBatches, kTouchesPerBatch, MaxPages, ChurnPages,   \* Shootdowns
  kWords, kReads, MaxUpdates                            \* MutexProtected

\* A line is a whole number of 64-bit words, each two units, and has room for
\* a link and a hint.
ASSUME MeasurementsAssumption ==
  /\ kLine % 2 = 0 /\ kLine >= 4
  /\ kIters % 4 = 0
  /\ {kLine, kIters, kLinesPerPage, kPages, Lines, kReps, kMaxThreads, kWorkers, kBatches,
      kTouchesPerBatch, MaxPages, ChurnPages, kWords, kReads, MaxUpdates} \subseteq Nat \ {0}

VARIABLES
  measured,       \* "walk", "counters", "workers" or "mutex"
  walk, software_prefetch, cpc, bytes, mem, order, entry, at, idx, step, rep,
  position, count, hint, dtlb, misses_total,                       \* PointerChase
  fpc, what, threads, stride, pool, joined, run, calls, store, tpc, i, loaded,
  sink, due,                                            \* FalseSharing
  mpc, with_disruptor, worker_pages, worker_mem, churn, go, stop, started, wpc,
  b, touched, samples, dpc, off, churn_cycles, total,   \* Shootdowns
  m_, data_, v, wi, ri, p, since, reads, told, writer   \* MutexProtected

walkVars ==
  <<walk, software_prefetch, cpc, bytes, mem, order, entry, at, idx, step, rep,
    position, count, hint, dtlb, misses_total>>
counterVars ==
  <<fpc, what, threads, stride, pool, joined, run, calls, store, tpc, i, loaded,
    sink, due>>
workerVars ==
  <<mpc, with_disruptor, worker_pages, worker_mem, churn, go, stop, started, wpc,
    b, touched, samples, dpc, off, churn_cycles, total>>
mutexVars == <<m_, data_, v, wi, ri, p, since, reads, told, writer>>
vars == <<measured, walkVars, counterVars, workerVars, mutexVars>>

Walk == INSTANCE PointerChase
Counters == INSTANCE FalseSharing WITH kLine <- kLine \div 2
Workers == INSTANCE Shootdowns
Mutexed == INSTANCE MutexProtected

\* What is not measured has one initial state, and stays in it.
Init ==
  /\ measured \in {"walk", "counters", "workers", "mutex"}
  /\ Walk!Init /\ Counters!Init /\ Workers!Init /\ Mutexed!Init
  /\ measured # "walk" => walk = "lines"
  /\ measured # "workers" => ~with_disruptor /\ worker_pages = 1

Walks ==
  /\ measured = "walk" /\ Walk!Next
  /\ UNCHANGED <<measured, counterVars, workerVars, mutexVars>>

Counts ==
  /\ measured = "counters" /\ Counters!Next
  /\ UNCHANGED <<measured, walkVars, workerVars, mutexVars>>

RunsWorkers ==
  /\ measured = "workers" /\ Workers!Next
  /\ UNCHANGED <<measured, walkVars, counterVars, mutexVars>>

ReadsUnderMutex ==
  /\ measured = "mutex" /\ Mutexed!Next
  /\ UNCHANGED <<measured, walkVars, counterVars, workerVars>>

Next == Walks \/ Counts \/ RunsWorkers \/ ReadsUnderMutex

Spec == Init /\ [][Next]_vars

FairSpec == Spec /\ (measured = "workers" => Workers!Fairness)

-----------------------------------------------------------------------------
(* Properties.                                                             *)

\* I2 to I5: the chain is one ring through every line or page, whatever the
\* shuffles, and no load leaves the region; each time is put down to the place
\* in the page where the load was made, each hint is the next page's entry, and
\* the misses reported are those of the timed passes.
WalksTrue == Walk!OneRing /\ Walk!InStep /\ Walk!MissesOfPasses

\* I1: no increment is lost in any layout.  J3: behind the mutex a read is one
\* whole update, and the last.
NothingLostOrTorn == Counters!NothingLost /\ Mutexed!WholeUpdates

\* I2: every worker runs its full count, disturbed throughout.
WorkersRunInFull == Workers!WorkersRunInFull

\* I2: the disruptor stops and run_workers() returns.
DisruptorStops == measured = "workers" => Workers!DisruptorStops
=============================================================================
