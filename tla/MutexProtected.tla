--------------------------- MODULE MutexProtected ---------------------------
(***************************************************************************)
(* The mutex that J3 compares its seqlock with: section 2 of main().  A    *)
(* writer goes on updating kWords words until it is told to stop; main()   *)
(* copies them kReads times.  Each holds the mutex from the first word to  *)
(* the last, and goes word by word.                                        *)
(***************************************************************************)
EXTENDS Integers

CONSTANTS
  kWords,         \* words of the payload (8)
  kReads,         \* reads that main() makes (2 000 000)
  MaxUpdates      \* bound: the writer makes no more updates

VARIABLES
  m_,             \* who holds the mutex: "none", "writer", "reader"
  data_,          \* the words
  v,              \* the writer's v: the value of the update that is due
  wi,             \* i of write(): words written
  ri,             \* words that read() has copied
  p,              \* main()'s payload
  since,          \* updates that were complete when this read took the mutex
  reads,          \* reads done
  told,           \* stop
  writer          \* "running", "done"

mutexVars == <<m_, data_, v, wi, ri, p, since, reads, told, writer>>

W == 1..kWords

Init ==
  /\ m_ = "none"
  /\ data_ = [i \in W |-> 0] /\ p = [i \in W |-> 0]
  /\ v = 1 /\ wi = 0 /\ ri = 0
  /\ since = 0 /\ reads = 0
  /\ told = FALSE /\ writer = "running"

\* std::lock_guard on the mutex, and its destructor
Lock(self) == m_ = "none" /\ m_' = self
Unlock(self) == m_ = self /\ m_' = "none"

---------------------------------------------------------------------------
BeginWrite ==   \* stop is looked at before each update
  /\ writer = "running" /\ wi = 0 /\ ~told
  /\ v <= MaxUpdates
  /\ Lock("writer")
  /\ wi' = 1
  /\ data_' = [data_ EXCEPT ![1] = v]
  /\ UNCHANGED <<v, ri, p, since, reads, told, writer>>

WriteWord ==
  /\ wi \in 1..(kWords - 1)
  /\ wi' = wi + 1
  /\ data_' = [data_ EXCEPT ![wi'] = v]
  /\ UNCHANGED <<m_, v, ri, p, since, reads, told, writer>>

EndWrite ==
  /\ wi = kWords
  /\ Unlock("writer")
  /\ wi' = 0 /\ v' = v + 1
  /\ UNCHANGED <<data_, ri, p, since, reads, told, writer>>

WriterStops ==
  /\ writer = "running" /\ wi = 0 /\ told
  /\ writer' = "done"
  /\ UNCHANGED <<m_, data_, v, wi, ri, p, since, reads, told>>

---------------------------------------------------------------------------
BeginRead ==
  /\ reads < kReads /\ ri = 0
  /\ Lock("reader")
  /\ ri' = 1
  /\ p' = [p EXCEPT ![1] = data_[1]]
  /\ since' = v - 1
  /\ UNCHANGED <<data_, v, wi, reads, told, writer>>

ReadWord ==
  /\ ri \in 1..(kWords - 1)
  /\ ri' = ri + 1
  /\ p' = [p EXCEPT ![ri'] = data_[ri']]
  /\ UNCHANGED <<m_, data_, v, wi, since, reads, told, writer>>

EndRead ==
  /\ ri = kWords
  /\ Unlock("reader")
  /\ ri' = 0 /\ reads' = reads + 1
  /\ UNCHANGED <<data_, v, wi, p, since, told, writer>>

TellStop ==     \* stop.store(true); then join()
  /\ reads = kReads /\ ~told
  /\ told' = TRUE
  /\ UNCHANGED <<m_, data_, v, wi, ri, p, since, reads, writer>>

Joined == told /\ writer = "done" /\ UNCHANGED mutexVars

Next ==
  \/ BeginWrite \/ WriteWord \/ EndWrite \/ WriterStops
  \/ BeginRead \/ ReadWord \/ EndRead
  \/ TellStop \/ Joined

Spec == Init /\ [][Next]_mutexVars

---------------------------------------------------------------------------
(* Properties.                                                             *)

\* Each read is one whole update, the last that was complete when the read took
\* the mutex: nothing torn and, unlike with the seqlock, nothing to retry.
WholeUpdates ==
  ri = 0 => p = [i \in W |-> since]
=============================================================================
