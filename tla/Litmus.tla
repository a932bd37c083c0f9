------------------------------- MODULE Litmus -------------------------------
(***************************************************************************)
(* The store buffering litmus test of J1_memory_ordering.cpp: run_litmus() *)
(* and its two threads, under each of the three pairs of memory orders     *)
(* that main() tries.  Each side stores 1 to its own atomic and then loads *)
(* the other's; run_litmus() counts the rounds in which both load 0.       *)
(*                                                                         *)
(* MEMORY MODEL.  As in SeqLock: an atomic is the sequence of the stores   *)
(* made to it, and a thread's view says which of them is the oldest it may *)
(* still load.  A side's load may be older than its own store is new,      *)
(* which is the reordering the test is after.  A release store carries its *)
(* thread's view and an acquire load takes it over; a seq_cst load returns *)
(* no store older than the last seq_cst store made before it.  A semaphore *)
(* passes the views of all its posts on to whoever waits for it.           *)
(*                                                                         *)
(* ABSTRACTION.  The random delay before each store only moves it in time, *)
(* which interleaving does already.                                        *)
(***************************************************************************)
EXTENDS Integers, Sequences

CONSTANT Rounds         \* rounds of run_litmus()

ASSUME RoundsAssumption == Rounds \in Nat \ {0}

Orders == {"relaxed", "acq_rel", "seq_cst"}
Sides == {"A", "B"}
Threads == Sides \union {"main"}
Semaphores == Sides \union {"done"}     \* begin_a, begin_b, done
Atomics == {"x", "y", "r1", "r2"}

Own(s) == IF s = "A" THEN "x" ELSE "y"
Other(s) == IF s = "A" THEN "y" ELSE "x"
Register(s) == IF s = "A" THEN "r1" ELSE "r2"

VARIABLES
  order,        \* StoreOrder and LoadOrder
  stores,       \* stores[a]: every store to a: its value, the view it
                \*   carries, whether it is seq_cst
  view,         \* view[t][a]: the oldest store of a that t may still load
  sem,          \* value of each semaphore
  passed,       \* the view each semaphore passes on
  mpc,          \* where run_litmus() is
  round,        \* its i
  waits,        \* its sem_wait(&v.done) in this round
  both_zero,
  spc,          \* where each side is
  i,            \* its i
  loaded        \* the store its load returned

mainVars == <<mpc, round, waits, both_zero>>
sideVars == <<spc, i, loaded>>
vars == <<order, stores, view, sem, passed, mainVars, sideVars>>

NoView == [a \in Atomics |-> 1]
Join(u, w) == [a \in Atomics |-> IF u[a] > w[a] THEN u[a] ELSE w[a]]

Init ==
  /\ order \in Orders
  /\ stores = [a \in Atomics |-> <<[val |-> 0, view |-> NoView, sc |-> FALSE]>>]
  /\ view = [t \in Threads |-> NoView]
  /\ sem = [m \in Semaphores |-> 0]
  /\ passed = [m \in Semaphores |-> NoView]
  /\ mpc = "reset_x"
  /\ round = 0
  /\ waits = 0
  /\ both_zero = 0
  /\ spc = [s \in Sides |-> "wait"]
  /\ i = [s \in Sides |-> 0]
  /\ loaded = [s \in Sides |-> 1]

---------------------------------------------------------------------------
(* What a thread does to an atomic or a semaphore.                         *)

\* a.store(val): release stores carry the view, seq_cst ones are marked
Store(t, a, val, releases, sc) ==
  LET pos == Len(stores[a]) + 1
      mine == [view[t] EXCEPT ![a] = pos]
  IN /\ stores' = [stores EXCEPT ![a] = Append(@,
                     [val |-> val, view |-> IF releases THEN mine ELSE NoView, sc |-> sc])]
     /\ view' = [view EXCEPT ![t] = mine]

Latest(a) == Len(stores[a])

\* mutated: the load is an acquire load even if the store is seq_cst
LoadableAcquired(t, a, sc) == view[t][a]..Latest(a)

\* The stores that a load of a by t may return, and what t learns from one.
Loadable(t, a, sc) ==
  {k \in view[t][a]..Latest(a) :
     sc => \A later \in (k + 1)..Latest(a) : ~stores[a][later].sc}

Load(t, a, k, acquires) ==
  view' = [view EXCEPT ![t] =
             [Join(@, IF acquires THEN stores[a][k].view ELSE NoView) EXCEPT ![a] = k]]

sem_post(t, m) ==
  /\ sem' = [sem EXCEPT ![m] = @ + 1]
  /\ passed' = [passed EXCEPT ![m] = Join(@, view[t])]

sem_wait(t, m) ==
  /\ sem[m] > 0
  /\ sem' = [sem EXCEPT ![m] = @ - 1]
  /\ view' = [view EXCEPT ![t] = Join(@, passed[m])]

---------------------------------------------------------------------------
(* run_litmus().                                                           *)

MoreRounds == round < Rounds

Reset(here, a, next) ==
  /\ mpc = here /\ MoreRounds
  /\ Store("main", a, 0, FALSE, FALSE)
  /\ mpc' = next
  /\ UNCHANGED <<order, sem, passed, round, waits, both_zero, sideVars>>

Begin(here, s, next) ==
  /\ mpc = here
  /\ sem_post("main", s)
  /\ mpc' = next
  /\ UNCHANGED <<order, stores, view, round, waits, both_zero, sideVars>>

\* mutated: one wait for two posts
OneDone == waits + 1 = 1

\* This is the second sem_wait(&v.done) of the round.
BothDone == waits + 1 = 2

WaitDone ==
  /\ mpc = "wait"
  /\ sem_wait("main", "done")
  /\ waits' = IF BothDone THEN 0 ELSE waits + 1
  /\ mpc' = IF BothDone THEN "load_r1" ELSE "wait"
  /\ UNCHANGED <<order, stores, passed, round, both_zero, sideVars>>

\* r1 is compared first; r2 is only loaded if r1 was 0.
LoadR1(k) ==
  /\ mpc = "load_r1"
  /\ k \in Loadable("main", "r1", FALSE)
  /\ Load("main", "r1", k, FALSE)
  /\ IF stores["r1"][k].val = 0
     THEN mpc' = "load_r2" /\ round' = round
     ELSE mpc' = "reset_x" /\ round' = round + 1
  /\ UNCHANGED <<order, stores, sem, passed, waits, both_zero, sideVars>>

LoadR2(k) ==
  /\ mpc = "load_r2"
  /\ k \in Loadable("main", "r2", FALSE)
  /\ Load("main", "r2", k, FALSE)
  /\ both_zero' = IF stores["r2"][k].val = 0 THEN both_zero + 1 ELSE both_zero
  /\ mpc' = "reset_x"
  /\ round' = round + 1
  /\ UNCHANGED <<order, stores, sem, passed, waits, sideVars>>

Joins ==
  /\ mpc = "reset_x" /\ ~MoreRounds
  /\ \A s \in Sides : spc[s] = "returned"
  /\ mpc' = "joined"
  /\ UNCHANGED <<order, stores, view, sem, passed, round, waits, both_zero, sideVars>>

Main ==
  \/ Reset("reset_x", "x", "reset_y")
  \/ Reset("reset_y", "y", "begin_a")
  \/ Begin("begin_a", "A", "begin_b")
  \/ Begin("begin_b", "B", "wait")
  \/ WaitDone
  \/ \E k \in DOMAIN stores["r1"] : LoadR1(k)
  \/ \E k \in DOMAIN stores["r2"] : LoadR2(k)
  \/ Joins

---------------------------------------------------------------------------
(* litmus_side().                                                          *)

WaitBegin(s) ==
  /\ spc[s] = "wait" /\ i[s] < Rounds
  /\ sem_wait(s, s)
  /\ spc' = [spc EXCEPT ![s] = "store"]
  /\ UNCHANGED <<order, stores, passed, mainVars, i, loaded>>

StoreOwn(s) ==
  /\ spc[s] = "store"
  /\ Store(s, Own(s), 1, order # "relaxed", order = "seq_cst")
  /\ spc' = [spc EXCEPT ![s] = "load"]
  /\ UNCHANGED <<order, sem, passed, mainVars, i, loaded>>

LoadOther(s, k) ==
  /\ spc[s] = "load"
  /\ k \in Loadable(s, Other(s), order = "seq_cst")
  /\ Load(s, Other(s), k, order # "relaxed")
  /\ loaded' = [loaded EXCEPT ![s] = k]
  /\ spc' = [spc EXCEPT ![s] = "register"]
  /\ UNCHANGED <<order, stores, sem, passed, mainVars, i>>

StoreRegister(s) ==
  /\ spc[s] = "register"
  /\ Store(s, Register(s), stores[Other(s)][loaded[s]].val, FALSE, FALSE)
  /\ spc' = [spc EXCEPT ![s] = "post"]
  /\ UNCHANGED <<order, sem, passed, mainVars, i, loaded>>

PostDone(s) ==
  /\ spc[s] = "post"
  /\ sem_post(s, "done")
  /\ i' = [i EXCEPT ![s] = @ + 1]
  /\ spc' = [spc EXCEPT ![s] = "wait"]
  /\ UNCHANGED <<order, stores, view, mainVars, loaded>>

Return(s) ==
  /\ spc[s] = "wait" /\ i[s] = Rounds
  /\ spc' = [spc EXCEPT ![s] = "returned"]
  /\ UNCHANGED <<order, stores, view, sem, passed, mainVars, i, loaded>>

Side(s) ==
  \/ WaitBegin(s)
  \/ StoreOwn(s)
  \/ \E k \in DOMAIN stores[Other(s)] : LoadOther(s, k)
  \/ StoreRegister(s)
  \/ PostDone(s)
  \/ Return(s)

\* No other step is a loop: if nobody is ever stuck, the run ends here.
Joined == mpc = "joined" /\ UNCHANGED vars

Next == Main \/ (\E s \in Sides : Side(s)) \/ Joined

Spec == Init /\ [][Next]_vars

---------------------------------------------------------------------------
(* Properties.                                                             *)

View == [Atomics -> Nat \ {0}]
StoreRecord == [val : {0, 1}, view : View, sc : BOOLEAN]

TypeOK ==
  /\ order \in Orders
  /\ stores \in [Atomics -> Seq(StoreRecord)]
  /\ view \in [Threads -> View]
  /\ sem \in [Semaphores -> 0..2]
  /\ passed \in [Semaphores -> View]
  /\ mpc \in {"reset_x", "reset_y", "begin_a", "begin_b", "wait",
              "load_r1", "load_r2", "joined"}
  /\ round \in 0..Rounds /\ waits \in {0, 1} /\ both_zero \in 0..Rounds
  /\ spc \in [Sides -> {"wait", "store", "load", "register", "post", "returned"}]
  /\ i \in [Sides -> 0..Rounds]
  /\ loaded \in [Sides -> Nat \ {0}]

\* Round n resets x and y with their store 2n + 2 and sets them with store
\* 2n + 3; it sets r1 and r2 with store n + 2.
ResetOf(n) == 2 * n + 2
RegisterOf(n) == n + 2

\* A store is made by a thread that knows every store made before, so that
\* the order of the stores to one atomic is never a matter of luck.
StoresOrdered ==
  /\ mpc = "reset_x" /\ MoreRounds => view["main"]["x"] = Latest("x")
  /\ mpc = "reset_y" => view["main"]["y"] = Latest("y")
  /\ \A s \in Sides :
       /\ spc[s] = "store" => view[s][Own(s)] = Latest(Own(s))
       /\ spc[s] = "register" => view[s][Register(s)] = Latest(Register(s))

\* The rounds do not mix (J1:207-216, "sem_wait" twice): whatever the memory
\* order, a side loads the other's atomic as reset or as set in its own
\* round, and run_litmus() compares the two registers of its own round.
RoundsApart ==
  /\ TypeOK
  /\ StoresOrdered
  /\ \A s \in Sides : spc[s] = "load" =>
       Loadable(s, Other(s), FALSE) \subseteq {ResetOf(i[s]), ResetOf(i[s]) + 1}
  /\ mpc \in {"load_r1", "load_r2"} =>
       \A r \in {"r1", "r2"} : Loadable("main", r, FALSE) = {RegisterOf(round)}

\* "seq_cst should be exactly 0" (J1:280): no round has both sides load 0.
SeqCstExact == order = "seq_cst" => both_zero = 0
---------------------------------------------------------------------------
(* Why it is so: the phases that the semaphores keep apart.                *)

\* In each round a side is idle until it is told to begin, then busy until it
\* has posted.
Idle(s) == i[s] = round /\ sem[s] = 0 /\ spc[s] \in {"wait", "returned"}
Told(s) == i[s] = round /\ sem[s] = 1 /\ spc[s] = "wait"
Busy(s) == i[s] = round /\ sem[s] = 0 /\ spc[s] \in {"store", "load", "register", "post"}
Posted(s) == i[s] = round + 1 /\ sem[s] = 0 /\ spc[s] \in {"wait", "returned"}

Comparing == mpc \in {"load_r1", "load_r2"}
Begun(s) == Comparing \/ mpc = "wait" \/ (s = "A" /\ mpc = "begin_b")
HowMany(b) == IF b THEN 1 ELSE 0

\* main() and the sides go through a round in step.
PhaseInv ==
  /\ \A s \in Sides : IF Begun(s) THEN Told(s) \/ Busy(s) \/ Posted(s) ELSE Idle(s)
  /\ \A s \in Sides : Comparing => Posted(s)
  /\ \A s \in Sides : spc[s] = "returned" => i[s] = Rounds
  /\ sem["done"] + waits =
       IF Comparing THEN 0 ELSE HowMany(Posted("A")) + HowMany(Posted("B"))
  /\ mpc \notin {"reset_x", "joined"} => round < Rounds
  /\ mpc # "wait" => waits = 0

\* What has been done in this round.
ResetDone(s) == mpc \notin {"joined", "reset_x"} /\ (s = "B" => mpc # "reset_y")
StoreDone(s) == i[s] # round \/ spc[s] \in {"load", "register", "post"}
LoadDone(s) == i[s] # round \/ spc[s] \in {"register", "post"}
RegisterDone(s) == i[s] # round \/ spc[s] = "post"

\* Nobody knows of stores to come.
ViewsInv ==
  \A a \in Atomics :
    /\ \A t \in Threads : view[t][a] <= Latest(a)
    /\ \A m \in Semaphores : passed[m][a] <= Latest(a)
    /\ \A c \in Atomics : \A k \in 1..Latest(c) : stores[c][k].view[a] <= Latest(a)

\* Every store is where ResetOf and RegisterOf say; those of this round have the
\* value and the order they should have.
StoresInv ==
  \A s \in Sides :
    /\ Latest(Own(s)) = 2 * round + 1 + HowMany(ResetDone(s)) + HowMany(StoreDone(s))
    /\ Latest(Register(s)) = round + 1 + HowMany(RegisterDone(s))
    /\ StoreDone(s) => /\ stores[Own(s)][ResetOf(round) + 1].val = 1
                       /\ order = "seq_cst" => stores[Own(s)][ResetOf(round) + 1].sc = TRUE

\* All that s has to know before it begins.
Knows(u, s) ==
  /\ u[Own(s)] = Latest(Own(s)) /\ u[Register(s)] = Latest(Register(s))
  /\ u[Other(s)] >= ResetOf(round)

\* What the posts pass on is enough.
KnowledgeInv ==
  /\ mpc \notin {"begin_b", "wait"} => \A a \in Atomics : view["main"][a] = Latest(a)
  /\ mpc = "begin_b" => Knows(view["main"], "B")
  /\ \A s \in Sides :
       /\ Told(s) => Knows(passed[s], s)
       /\ Busy(s) => Knows(view[s], s)
       /\ Posted(s) => /\ passed["done"][Own(s)] = Latest(Own(s))
                       /\ passed["done"][Register(s)] = Latest(Register(s))

\* What a side loads in a round is that round's, and goes into its register.
LoadsInv ==
  /\ \A s \in Sides :
       /\ LoadDone(s) =>
            loaded[s] \in {ResetOf(round), ResetOf(round) + 1} \intersect 1..Latest(Other(s))
       /\ RegisterDone(s) => stores[Register(s)][RegisterOf(round)].val
                               = stores[Other(s)][loaded[s]].val
  /\ mpc = "load_r2" => stores["r1"][RegisterOf(round)].val = 0

\* With seq_cst the side that loads last loads what the other has stored.
SeqCstInv ==
  order = "seq_cst" =>
    /\ ~ \A s \in Sides : LoadDone(s) /\ loaded[s] = ResetOf(round)
    /\ both_zero = 0

IInv ==
  /\ TypeOK /\ both_zero <= round
  /\ PhaseInv /\ ViewsInv /\ StoresInv /\ KnowledgeInv /\ LoadsInv /\ SeqCstInv
=============================================================================
