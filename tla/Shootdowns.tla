----------------------------- MODULE Shootdowns -----------------------------
(***************************************************************************)
(* run_workers() of I2: workers that touch pages of their own, and a       *)
(* disruptor that keeps giving pages of its region back to the kernel and  *)
(* touching them again, until the workers are done.  main() calls it with  *)
(* and without the disruptor, and with workers of few and of many pages.   *)
(*                                                                         *)
(* FLAGS.  go and stop are each stored once.  A load that still returns    *)
(* FALSE is a load made earlier, so they are modelled as if every thread   *)
(* saw them at once: only a thread that loads is late.                     *)
(*                                                                         *)
(* Latencies, interrupts and pinning are left out.  Mapping the workers'   *)
(* memory succeeds here: the code does not test it, as measure_chase()     *)
(* does.                                                                   *)
(***************************************************************************)
EXTENDS Integers

CONSTANTS
  kWorkers,
  kBatches,
  kTouchesPerBatch,
  MaxPages,       \* worker_pages is 1 or this
  ChurnPages      \* pages of the disruptor's region

Workers == 0..(kWorkers - 1)
Churned == 0..(ChurnPages - 1)

VARIABLES
  mpc,            \* where run_workers() is
  with_disruptor, worker_pages,                         \* its arguments
  worker_mem,     \* page -> its first word; <<>> if not mapped
  churn,          \* the same of the disruptor's region
  go, stop,
  started,        \* workers started, and then joined
  wpc,            \* worker -> where it is
  b,              \* worker -> its batches
  touched,        \* worker -> its touches of this batch
  samples,        \* worker -> size of its Latencies
  dpc,            \* where the disruptor is
  off,            \* the page it touches next
  churn_cycles,
  total           \* what summarise() gets, -1 before

mainVars == <<mpc, with_disruptor, worker_pages, go, stop, started, total>>
workerVars == <<wpc, b, touched, samples>>
disruptorVars == <<dpc, off, churn_cycles>>
shootdownVars == <<mainVars, workerVars, disruptorVars, worker_mem, churn>>

Init ==
  /\ mpc = "map"
  /\ with_disruptor \in BOOLEAN
  /\ worker_pages \in {1, MaxPages}
  /\ worker_mem = <<>> /\ churn = <<>>
  /\ go = FALSE /\ stop = FALSE
  /\ started = 0
  /\ wpc = [w \in Workers |-> "none"]
  /\ b = [w \in Workers |-> 0] /\ touched = b /\ samples = b
  /\ dpc = "none" /\ off = 0 /\ churn_cycles = 0
  /\ total = -1

---------------------------------------------------------------------------
(* run_workers().                                                          *)

Map ==
  /\ mpc = "map"
  /\ worker_mem' = [p \in 0..(kWorkers * worker_pages - 1) |-> 0]
  /\ churn' = IF with_disruptor THEN [p \in Churned |-> 0] ELSE <<>>
  /\ mpc' = "spawn"
  /\ UNCHANGED <<with_disruptor, worker_pages, go, stop, started, total,
                 workerVars, disruptorVars>>

SpawnWorker ==
  /\ mpc = "spawn"
  /\ wpc' = [wpc EXCEPT ![started] = "wait"]
  /\ IF started + 1 < kWorkers
     THEN started' = started + 1 /\ mpc' = mpc
     ELSE started' = 0 /\ mpc' = "disrupt"
  /\ UNCHANGED <<with_disruptor, worker_pages, go, stop, total, b, touched, samples,
                 disruptorVars, worker_mem, churn>>

SpawnDisruptor ==
  /\ mpc = "disrupt"
  /\ dpc' = IF with_disruptor THEN "wait" ELSE dpc
  /\ mpc' = "go"
  /\ UNCHANGED <<with_disruptor, worker_pages, go, stop, started, total, workerVars,
                 off, churn_cycles, worker_mem, churn>>

StoreGo ==
  /\ mpc = "go"
  /\ go' = TRUE
  /\ mpc' = "join"
  /\ UNCHANGED <<with_disruptor, worker_pages, stop, started, total, workerVars,
                 disruptorVars, worker_mem, churn>>

\* mutated: the first worker to finish ends the run for all
AnyReturned(w) == \E v \in Workers : wpc[v] = "returned"
Joinable(w) == wpc[w] = "returned"

JoinWorker ==
  /\ mpc = "join"
  /\ Joinable(started)
  /\ started' = started + 1
  /\ mpc' = IF started' < kWorkers THEN mpc ELSE "stop"
  /\ UNCHANGED <<with_disruptor, worker_pages, go, stop, total, workerVars,
                 disruptorVars, worker_mem, churn>>

\* mutated: stop is never set
StopKept == stop
StopSet == TRUE

StoreStop ==
  /\ mpc = "stop"
  /\ stop' = StopSet
  /\ mpc' = "join_disruptor"
  /\ UNCHANGED <<with_disruptor, worker_pages, go, started, total, workerVars,
                 disruptorVars, worker_mem, churn>>

\* Joins it if there is one, unmaps both regions and summarises.
SumOver[w \in 0..kWorkers] == IF w = 0 THEN 0 ELSE SumOver[w - 1] + samples[w - 1]

Finish ==
  /\ mpc = "join_disruptor"
  /\ with_disruptor => dpc = "returned"
  /\ worker_mem' = <<>> /\ churn' = <<>>
  /\ total' = SumOver[kWorkers]
  /\ mpc' = "returned"
  /\ UNCHANGED <<with_disruptor, worker_pages, go, stop, started, workerVars, disruptorVars>>

---------------------------------------------------------------------------
(* worker().                                                               *)

WaitGo(w) ==
  /\ wpc[w] = "wait" /\ go
  /\ wpc' = [wpc EXCEPT ![w] = "batch"]
  /\ UNCHANGED <<mainVars, b, touched, samples, disruptorVars, worker_mem, churn>>

\* own + (i % pages)
Cell(w) == w * worker_pages + (touched[w] % worker_pages)

\* The load and the store of an increment are one step: no other thread has
\* the page.
Touch(w) ==
  /\ wpc[w] = "batch" /\ b[w] < kBatches /\ touched[w] < kTouchesPerBatch
  /\ worker_mem' = [worker_mem EXCEPT ![Cell(w)] = @ + 1]
  /\ touched' = [touched EXCEPT ![w] = @ + 1]
  /\ UNCHANGED <<mainVars, wpc, b, samples, disruptorVars, churn>>

BatchEnds(w) ==
  /\ wpc[w] = "batch" /\ touched[w] = kTouchesPerBatch
  /\ samples' = [samples EXCEPT ![w] = @ + 1]
  /\ b' = [b EXCEPT ![w] = @ + 1]
  /\ touched' = [touched EXCEPT ![w] = 0]
  /\ UNCHANGED <<mainVars, wpc, disruptorVars, worker_mem, churn>>

WorkerReturns(w) ==
  /\ wpc[w] = "batch" /\ b[w] = kBatches
  /\ wpc' = [wpc EXCEPT ![w] = "returned"]
  /\ UNCHANGED <<mainVars, b, touched, samples, disruptorVars, worker_mem, churn>>

---------------------------------------------------------------------------
(* The disruptor.  churn_cycles is counted modulo two.                     *)

DisruptorGoes ==
  /\ dpc = "wait" /\ go
  /\ dpc' = "check"
  /\ UNCHANGED <<mainVars, workerVars, off, churn_cycles, worker_mem, churn>>

CheckStop ==
  /\ dpc = "check"
  /\ dpc' = IF stop THEN "returned" ELSE "drop"
  /\ UNCHANGED <<mainVars, workerVars, off, churn_cycles, worker_mem, churn>>

\* madvise(MADV_DONTNEED): the pages read as zero again
Drop ==
  /\ dpc = "drop"
  /\ churn' = [p \in DOMAIN churn |-> 0]
  /\ off' = 0
  /\ dpc' = "touch"
  /\ UNCHANGED <<mainVars, workerVars, churn_cycles, worker_mem>>

TouchPage ==
  /\ dpc = "touch"
  /\ churn' = [churn EXCEPT ![off] = 1]
  /\ IF off + 1 < ChurnPages
     THEN off' = off + 1 /\ UNCHANGED <<dpc, churn_cycles>>
     ELSE off' = 0 /\ dpc' = "check" /\ churn_cycles' = (churn_cycles + 1) % 2
  /\ UNCHANGED <<mainVars, workerVars, worker_mem>>

Main == \/ Map \/ SpawnWorker \/ SpawnDisruptor \/ StoreGo
        \/ JoinWorker \/ StoreStop \/ Finish
Worker(w) == WaitGo(w) \/ Touch(w) \/ BatchEnds(w) \/ WorkerReturns(w)
Disrupt == DisruptorGoes \/ CheckStop \/ Drop \/ TouchPage

Returned == mpc = "returned" /\ UNCHANGED shootdownVars

Next == Main \/ (\E w \in Workers : Worker(w)) \/ Disrupt \/ Returned

Fairness ==
  /\ WF_shootdownVars(Main) /\ WF_shootdownVars(Disrupt)
  /\ \A w \in Workers : WF_shootdownVars(Worker(w))

---------------------------------------------------------------------------
(* Properties.                                                             *)

PageTouches(w) ==
  LET own == {p \in DOMAIN worker_mem : p \div worker_pages = w}
      f[n \in 0..(kWorkers * worker_pages)] ==
        IF n = 0 THEN 0
        ELSE f[n - 1] + (IF n - 1 \in own THEN worker_mem[n - 1] ELSE 0)
  IN f[kWorkers * worker_pages]

\* "Every worker runs its full count" (I2:247), on pages of its own, starts
\* with the others (I2:246) and is disturbed for as long as it runs: the
\* disruptor is told to stop only when all have been joined.  Nobody touches
\* memory that has been unmapped.
WorkersRunInFull ==
  /\ \A w \in Workers :
       /\ wpc[w] \in {"batch", "returned"} =>
            /\ \A v \in Workers : wpc[v] # "none"
            /\ with_disruptor => dpc # "none"
       /\ wpc[w] = "batch" => ~stop /\ worker_mem # <<>>
       /\ worker_mem # <<>> => PageTouches(w) = b[w] * kTouchesPerBatch + touched[w]
  /\ dpc \in {"drop", "touch"} => churn # <<>>
  /\ total # -1 => total = kWorkers * kBatches

\* run_workers() returns: the disruptor, which runs until it is told to stop,
\* is told.
DisruptorStops == <>(mpc = "returned")
=============================================================================
