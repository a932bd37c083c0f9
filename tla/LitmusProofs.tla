---------------------------- MODULE LitmusProofs ----------------------------
(***************************************************************************)
(* Proofs about Litmus, for any number of rounds.                          *)
(***************************************************************************)
EXTENDS Litmus, SequenceTheorems, TLAPS

---------------------------------------------------------------------------
(* Who uses what.                                                          *)

LEMMA Names ==
  /\ Sides \subseteq Threads /\ Sides \subseteq Semaphores
  /\ "main" \in Threads /\ "main" \notin Sides
  /\ "done" \in Semaphores /\ "done" \notin Sides
  /\ \A s \in Sides :
       /\ Own(s) \in Atomics /\ Other(s) \in Atomics /\ Register(s) \in Atomics
       /\ Own(s) # Other(s) /\ Own(s) # Register(s) /\ Other(s) # Register(s)
  /\ \A s, u \in Sides : s # u =>
       /\ Other(s) = Own(u) /\ Own(s) # Own(u)
       /\ Register(s) # Register(u) /\ Register(s) # Own(u)
  /\ \A a \in Atomics : \E s \in Sides : a = Own(s) \/ a = Register(s)
BY DEF Sides, Threads, Semaphores, Atomics, Own, Other, Register

\* What the conjuncts of TypeOK say of a single atomic, thread or semaphore.
LEMMA StoreTypes ==
  ASSUME TypeOK, NEW a \in Atomics
  PROVE  /\ stores[a] \in Seq(StoreRecord) /\ Latest(a) \in Nat /\ Latest(a) = Len(stores[a])
         /\ \A k \in 1..Latest(a) :
              /\ stores[a][k] \in StoreRecord
              /\ stores[a][k].val \in {0, 1} /\ stores[a][k].sc \in BOOLEAN
              /\ stores[a][k].view \in View
<1>1. stores[a] \in Seq(StoreRecord)
  BY DEF TypeOK
<1>2. Latest(a) = Len(stores[a]) /\ Latest(a) \in Nat
  BY <1>1 DEF Latest
<1>3. \A k \in 1..Latest(a) : stores[a][k] \in StoreRecord
  BY <1>1, <1>2, ElementOfSeq
<1>4. \A x \in StoreRecord : x.val \in {0, 1} /\ x.sc \in BOOLEAN /\ x.view \in View
  BY DEF StoreRecord
<1>5. QED
  BY <1>1, <1>2, <1>3, <1>4

LEMMA ViewTypes ==
  ASSUME TypeOK, NEW a \in Atomics
  PROVE  /\ \A t \in Threads : view[t] \in View /\ view[t][a] \in Nat \ {0}
         /\ \A m \in Semaphores : passed[m] \in View /\ passed[m][a] \in Nat \ {0}
         /\ \A u \in View : u[a] \in Nat \ {0}
BY DEF TypeOK, View

\* What a store does.
LEMMA StoreStep ==
  ASSUME TypeOK, ViewsInv, NEW t \in Threads, NEW a \in Atomics, NEW val \in {0, 1},
         NEW releases \in BOOLEAN, NEW sc \in BOOLEAN,
         Store(t, a, val, releases, sc), UNCHANGED passed
  PROVE  /\ stores' \in [Atomics -> Seq(StoreRecord)]
         /\ view' \in [Threads -> View]
         /\ ViewsInv'
         /\ \A c \in Atomics : c # a => stores'[c] = stores[c] /\ Latest(c)' = Latest(c)
         /\ Latest(a)' = Latest(a) + 1
         /\ \A k \in 1..Latest(a) : stores'[a][k] = stores[a][k]
         /\ stores'[a][Latest(a) + 1].val = val
         /\ stores'[a][Latest(a) + 1].sc = sc
         /\ \A u \in Threads : u # t => view'[u] = view[u]
         /\ \A c \in Atomics : c # a => view'[t][c] = view[t][c]
         /\ view'[t][a] = Latest(a) + 1
<1> DEFINE pos == Len(stores[a]) + 1
           mine == [view[t] EXCEPT ![a] = pos]
           new == [val |-> val, view |-> IF releases THEN mine ELSE NoView, sc |-> sc]
<1>1. /\ stores[a] \in Seq(StoreRecord) /\ pos \in Nat \ {0} /\ pos = Latest(a) + 1
      /\ Latest(a) \in Nat
      /\ view[t] \in View
  BY StoreTypes, ViewTypes
<1>2. mine \in View /\ mine[a] = pos /\ \A c \in Atomics : c # a => mine[c] = view[t][c]
  BY <1>1 DEF View
<1>3. new \in StoreRecord /\ new.val = val /\ new.sc = sc
  <2>1. NoView \in View
    BY DEF NoView, View
  <2>2. QED
    BY <1>2, <2>1 DEF StoreRecord
<1>4. stores' = [stores EXCEPT ![a] = Append(@, new)] /\ view' = [view EXCEPT ![t] = mine]
  BY DEF Store
<1>5. stores'[a] = Append(stores[a], new) /\ \A c \in Atomics : c # a => stores'[c] = stores[c]
  BY <1>4 DEF TypeOK
<1>6. /\ Append(stores[a], new) \in Seq(StoreRecord) /\ Len(Append(stores[a], new)) = pos
      /\ \A k \in 1..Latest(a) : Append(stores[a], new)[k] = stores[a][k]
      /\ Append(stores[a], new)[pos] = new
  <2> HIDE DEF new
  <2>1. QED
    BY <1>1, <1>3, AppendProperties
<1>7. stores' \in [Atomics -> Seq(StoreRecord)] /\ view' \in [Threads -> View]
  <2> HIDE DEF new, mine
  <2>1. QED
    BY <1>2, <1>4, <1>5, <1>6 DEF TypeOK
<1>8. view'[t] = mine /\ \A u \in Threads : u # t => view'[u] = view[u]
  <2> HIDE DEF mine
  <2>1. QED
    BY <1>4 DEF TypeOK
<1> HIDE DEF new, mine, pos
<1>9. /\ \A c \in Atomics : c # a => Latest(c)' = Latest(c)
      /\ Latest(a)' = Latest(a) + 1
  BY <1>1, <1>5, <1>6 DEF Latest
<1>10. \A c \in Atomics : Latest(c) \in Nat /\ Latest(c)' \in Nat /\ Latest(c) <= Latest(c)'
  <2>1. \A c \in Atomics : Latest(c) \in Nat
    BY StoreTypes
  <2>2. QED
    BY <1>9, <2>1
<1>11. \A c \in Atomics : mine[c] \in Nat \ {0} /\ mine[c] <= Latest(c)'
  <2> SUFFICES ASSUME NEW c \in Atomics PROVE mine[c] \in Nat \ {0} /\ mine[c] <= Latest(c)'
    OBVIOUS
  <2>1. mine[c] \in Nat \ {0} /\ view[t][c] \in Nat
    BY <1>2, ViewTypes
  <2>2. view[t][c] <= Latest(c)
    BY DEF ViewsInv
  <2>3. QED
    BY <1>1, <1>2, <1>9, <1>10, <2>1, <2>2
<1>12. ViewsInv'
  <2> SUFFICES ASSUME NEW c \in Atomics
               PROVE  /\ \A u \in Threads : view'[u][c] <= Latest(c)'
                      /\ \A m \in Semaphores : passed'[m][c] <= Latest(c)'
                      /\ \A b \in Atomics : \A k \in 1..Latest(b)' : stores'[b][k].view[c] <= Latest(c)'
    BY DEF ViewsInv
  <2>0. Latest(c) \in Nat /\ Latest(c)' \in Nat /\ Latest(c) <= Latest(c)'
    BY <1>10
  <2>1. ASSUME NEW u \in Threads PROVE view'[u][c] <= Latest(c)'
    <3>1. view[u][c] \in Nat /\ view[u][c] <= Latest(c)
      BY ViewTypes DEF ViewsInv
    <3>2. QED
      BY <2>0, <3>1, <1>8, <1>11
  <2>2. ASSUME NEW m \in Semaphores PROVE passed'[m][c] <= Latest(c)'
    <3>1. passed[m][c] \in Nat /\ passed[m][c] <= Latest(c) /\ passed' = passed
      BY ViewTypes DEF ViewsInv
    <3>2. QED
      BY <2>0, <3>1
  <2>3. ASSUME NEW b \in Atomics, NEW k \in 1..Latest(b)'
        PROVE  stores'[b][k].view[c] <= Latest(c)'
    <3>1. CASE b = a /\ k = Latest(a) + 1
      <4>1. stores'[b][k] = new
        BY <1>1, <1>5, <1>6, <3>1
      <4>2. new.view = mine \/ new.view = NoView
        BY DEF new
      <4>3. NoView[c] = 1 /\ 1 <= Latest(c)'
        BY <1>11, <2>0 DEF NoView
      <4>4. QED
        BY <4>1, <4>2, <4>3, <1>11
    <3>2. CASE ~(b = a /\ k = Latest(a) + 1)
      <4>1. k \in 1..Latest(b) /\ stores'[b][k] = stores[b][k]
        <5>1. CASE b = a
          <6>1. k \in 1..Latest(a)
            BY <1>1, <1>9, <3>2, <5>1
          <6>2. QED
            BY <1>5, <1>6, <5>1, <6>1
        <5>2. CASE b # a
          BY <1>5, <1>9, <5>2
        <5>3. QED
          BY <5>1, <5>2
      <4>2. stores[b][k].view[c] \in Nat /\ stores[b][k].view[c] <= Latest(c)
        BY <4>1, StoreTypes, ViewTypes DEF ViewsInv
      <4>3. QED
        BY <2>0, <4>1, <4>2
    <3>3. QED
      BY <3>1, <3>2
  <2>4. QED
    BY <2>1, <2>2, <2>3
<1>13. /\ \A k \in 1..Latest(a) : stores'[a][k] = stores[a][k]
       /\ stores'[a][Latest(a) + 1].val = val
       /\ stores'[a][Latest(a) + 1].sc = sc
  BY <1>1, <1>3, <1>5, <1>6
<1>14. /\ \A c \in Atomics : c # a => view'[t][c] = view[t][c]
       /\ view'[t][a] = Latest(a) + 1
  BY <1>1, <1>2, <1>8
<1>15. QED
  BY <1>5, <1>7, <1>8, <1>9, <1>12, <1>13, <1>14

LEMMA JoinType ==
  ASSUME NEW u \in View, NEW w \in View
  PROVE  /\ Join(u, w) \in View
         /\ \A a \in Atomics : /\ Join(u, w)[a] >= u[a] /\ Join(u, w)[a] >= w[a]
                               /\ Join(u, w)[a] = u[a] \/ Join(u, w)[a] = w[a]
<1>1. \A a \in Atomics : u[a] \in Nat \ {0} /\ w[a] \in Nat \ {0}
  BY DEF View
<1>2. \A a \in Atomics : Join(u, w)[a] = IF u[a] > w[a] THEN u[a] ELSE w[a]
  BY DEF Join
<1>3. Join(u, w) \in View
  BY <1>1 DEF Join, View
<1>4. QED
  BY <1>1, <1>2, <1>3

\* What a load does: the loading thread forgets nothing.
LEMMA LoadStep ==
  ASSUME TypeOK, ViewsInv, NEW t \in Threads, NEW a \in Atomics, NEW acquires \in BOOLEAN,
         NEW k \in 1..Latest(a), NEW sc \in BOOLEAN, k \in Loadable(t, a, sc),
         Load(t, a, k, acquires), UNCHANGED <<stores, passed>>
  PROVE  /\ view' \in [Threads -> View]
         /\ ViewsInv'
         /\ \A c \in Atomics : Latest(c)' = Latest(c)
         /\ \A u \in Threads : u # t => view'[u] = view[u]
         /\ \A c \in Atomics : c # a => view'[t][c] >= view[t][c]
         /\ view'[t][a] = k /\ k >= view[t][a]
<1> DEFINE gained == IF acquires THEN stores[a][k].view ELSE NoView
           mine == [Join(view[t], gained) EXCEPT ![a] = k]
<1>1. /\ view[t] \in View /\ gained \in View /\ k \in Nat \ {0}
  <2>1. NoView \in View
    BY DEF NoView, View
  <2>2. QED
    BY <2>1, StoreTypes, ViewTypes
<1>2. view' = [view EXCEPT ![t] = mine]
  BY DEF Load
<1>3. \A c \in Atomics : gained[c] <= Latest(c) /\ view[t][c] <= Latest(c)
  <2> SUFFICES ASSUME NEW c \in Atomics PROVE gained[c] <= Latest(c) /\ view[t][c] <= Latest(c)
    OBVIOUS
  <2>1. view[t][c] <= Latest(c) /\ stores[a][k].view[c] <= Latest(c) /\ view[t][c] \in Nat \ {0}
    BY ViewTypes DEF ViewsInv
  <2>2. NoView[c] = 1
    BY DEF NoView
  <2>3. QED
    BY <2>1, <2>2, StoreTypes
<1> HIDE DEF gained
<1>4. /\ Join(view[t], gained) \in View
      /\ \A c \in Atomics : /\ Join(view[t], gained)[c] >= view[t][c]
                            /\ Join(view[t], gained)[c] = view[t][c] \/ Join(view[t], gained)[c] = gained[c]
  BY <1>1, JoinType
<1>5. /\ mine \in View /\ mine[a] = k
      /\ \A c \in Atomics : c # a => mine[c] = Join(view[t], gained)[c]
  BY <1>1, <1>4 DEF View
<1> HIDE DEF mine
<1>6. view' \in [Threads -> View] /\ view'[t] = mine /\ \A u \in Threads : u # t => view'[u] = view[u]
  BY <1>2, <1>5 DEF TypeOK
<1>7. \A c \in Atomics : Latest(c)' = Latest(c)
  BY DEF Latest
<1>8. \A c \in Atomics : mine[c] <= Latest(c)
  BY <1>3, <1>4, <1>5, StoreTypes
<1>9. ViewsInv'
  BY <1>6, <1>7, <1>8 DEF ViewsInv
<1>10. k >= view[t][a]
  BY <1>1, ViewTypes, StoreTypes DEF Loadable
<1>11. view'[t][a] = k /\ \A c \in Atomics : c # a => view'[t][c] >= view[t][c]
  <2>1. \A c \in Atomics : mine[c] \in Nat /\ view[t][c] \in Nat
    BY <1>1, <1>5 DEF View
  <2>2. QED
    BY <1>4, <1>5, <1>6, <2>1
<1>12. QED
  BY <1>6, <1>7, <1>9, <1>10, <1>11

\* What a post does: whoever waits will know what the posting thread knows.
LEMMA PostStep ==
  ASSUME TypeOK, ViewsInv, NEW t \in Threads, NEW m \in Semaphores, sem_post(t, m),
         UNCHANGED <<stores, view>>
  PROVE  /\ passed' \in [Semaphores -> View]
         /\ ViewsInv'
         /\ \A c \in Atomics : Latest(c)' = Latest(c)
         /\ sem'[m] = sem[m] + 1
         /\ \A n \in Semaphores : n # m => sem'[n] = sem[n] /\ passed'[n] = passed[n]
         /\ \A c \in Atomics : passed'[m][c] >= view[t][c] /\ passed'[m][c] >= passed[m][c]
<1> DEFINE both == Join(passed[m], view[t])
<1>1. passed' = [passed EXCEPT ![m] = both] /\ sem' = [sem EXCEPT ![m] = @ + 1]
  BY DEF sem_post
<1>2. passed[m] \in View /\ view[t] \in View
  BY DEF TypeOK
<1>3. /\ both \in View
      /\ \A c \in Atomics : /\ both[c] >= view[t][c] /\ both[c] >= passed[m][c]
                            /\ both[c] = passed[m][c] \/ both[c] = view[t][c]
  BY <1>2, JoinType
<1> HIDE DEF both
<1>4. /\ passed' \in [Semaphores -> View]
      /\ passed'[m] = both /\ \A n \in Semaphores : n # m => passed'[n] = passed[n]
  BY <1>1, <1>3 DEF TypeOK
<1>5. sem'[m] = sem[m] + 1 /\ \A n \in Semaphores : n # m => sem'[n] = sem[n]
  BY <1>1 DEF TypeOK
<1>6. \A c \in Atomics : Latest(c)' = Latest(c)
  BY DEF Latest
<1>7. \A c \in Atomics : both[c] <= Latest(c)
  BY <1>3 DEF ViewsInv
<1>8. ViewsInv'
  BY <1>4, <1>6, <1>7 DEF ViewsInv
<1>9. \A c \in Atomics : passed'[m][c] >= view[t][c] /\ passed'[m][c] >= passed[m][c]
  <2>1. passed'[m] = both
    BY <1>4
  <2>2. \A c \in Atomics : both[c] \in Nat /\ view[t][c] \in Nat /\ passed[m][c] \in Nat
    BY <1>2, <1>3 DEF View
  <2>3. QED
    BY <1>3, <2>1, <2>2
<1>10. QED
  BY <1>4, <1>5, <1>6, <1>8, <1>9

LEMMA WaitStep ==
  ASSUME TypeOK, ViewsInv, NEW t \in Threads, NEW m \in Semaphores, sem_wait(t, m),
         UNCHANGED <<stores, passed>>
  PROVE  /\ view' \in [Threads -> View]
         /\ ViewsInv'
         /\ \A c \in Atomics : Latest(c)' = Latest(c)
         /\ sem[m] > 0 /\ sem'[m] = sem[m] - 1
         /\ \A n \in Semaphores : n # m => sem'[n] = sem[n]
         /\ \A u \in Threads : u # t => view'[u] = view[u]
         /\ \A c \in Atomics : view'[t][c] >= view[t][c] /\ view'[t][c] >= passed[m][c]
<1> DEFINE both == Join(view[t], passed[m])
<1>1. view' = [view EXCEPT ![t] = both] /\ sem' = [sem EXCEPT ![m] = @ - 1] /\ sem[m] > 0
  BY DEF sem_wait
<1>2. passed[m] \in View /\ view[t] \in View
  BY DEF TypeOK
<1>3. /\ both \in View
      /\ \A c \in Atomics : /\ both[c] >= view[t][c] /\ both[c] >= passed[m][c]
                            /\ both[c] = view[t][c] \/ both[c] = passed[m][c]
  BY <1>2, JoinType
<1> HIDE DEF both
<1>4. /\ view' \in [Threads -> View]
      /\ view'[t] = both /\ \A u \in Threads : u # t => view'[u] = view[u]
  BY <1>1, <1>3 DEF TypeOK
<1>5. sem'[m] = sem[m] - 1 /\ \A n \in Semaphores : n # m => sem'[n] = sem[n]
  BY <1>1 DEF TypeOK
<1>6. \A c \in Atomics : Latest(c)' = Latest(c)
  BY DEF Latest
<1>7. \A c \in Atomics : both[c] <= Latest(c)
  BY <1>3 DEF ViewsInv
<1>8. ViewsInv'
  BY <1>4, <1>6, <1>7 DEF ViewsInv
<1>9. \A c \in Atomics : view'[t][c] >= view[t][c] /\ view'[t][c] >= passed[m][c]
  <2>1. view'[t] = both
    BY <1>4
  <2>2. \A c \in Atomics : both[c] \in Nat /\ view[t][c] \in Nat /\ passed[m][c] \in Nat
    BY <1>2, <1>3 DEF View
  <2>3. QED
    BY <1>3, <2>1, <2>2
<1>10. QED
  BY <1>1, <1>4, <1>5, <1>6, <1>8, <1>9

---------------------------------------------------------------------------
(* run_litmus().                                                           *)

\* What TypeOK and PhaseInv say of one side, without the functions.
LEMMA SideTypes ==
  ASSUME TypeOK, NEW s \in Sides
  PROVE  /\ i[s] \in Nat /\ i[s] <= Rounds /\ loaded[s] \in Nat \ {0}
         /\ sem[s] \in 0..2
         /\ spc[s] \in {"wait", "store", "load", "register", "post", "returned"}
<1>1. i[s] \in 0..Rounds /\ loaded[s] \in Nat \ {0}
  BY DEF TypeOK
<1>2. sem[s] \in 0..2
  BY Names DEF TypeOK
<1>3. spc[s] \in {"wait", "store", "load", "register", "post", "returned"}
  BY DEF TypeOK
<1>4. QED
  BY <1>1, <1>2, <1>3, RoundsAssumption

LEMMA MainTypes ==
  ASSUME TypeOK
  PROVE  /\ Rounds \in Nat /\ round \in 0..Rounds /\ round \in Nat
         /\ waits \in {0, 1} /\ both_zero \in Nat /\ sem["done"] \in 0..2
         /\ mpc \in {"reset_x", "reset_y", "begin_a", "begin_b", "wait",
                     "load_r1", "load_r2", "joined"}
         /\ order \in Orders
BY Names, RoundsAssumption DEF TypeOK

\* A step that stores nothing and ends no part of a round.
LEMMA StoresKept ==
  ASSUME TypeOK, StoresInv, UNCHANGED <<order, stores, round>>,
         \A u \in Sides : /\ ResetDone(u)' <=> ResetDone(u)
                          /\ StoreDone(u)' <=> StoreDone(u)
                          /\ RegisterDone(u)' <=> RegisterDone(u)
  PROVE  StoresInv'
<1>1. \A a \in Atomics : Latest(a)' = Latest(a)
  BY DEF Latest
<1> SUFFICES ASSUME NEW u \in Sides
             PROVE  /\ Latest(Own(u))' = 2 * round + 1 + HowMany(ResetDone(u)') + HowMany(StoreDone(u)')
                    /\ Latest(Register(u))' = round + 1 + HowMany(RegisterDone(u)')
                    /\ StoreDone(u)' =>
                         /\ stores'[Own(u)][ResetOf(round) + 1].val = 1
                         /\ order = "seq_cst" => stores'[Own(u)][ResetOf(round) + 1].sc = TRUE
  BY DEF StoresInv, HowMany, ResetOf
<1>2. /\ Latest(Own(u)) = 2 * round + 1 + HowMany(ResetDone(u)) + HowMany(StoreDone(u))
      /\ Latest(Register(u)) = round + 1 + HowMany(RegisterDone(u))
      /\ StoreDone(u) =>
           /\ stores[Own(u)][ResetOf(round) + 1].val = 1
           /\ order = "seq_cst" => stores[Own(u)][ResetOf(round) + 1].sc = TRUE
  BY DEF StoresInv
<1>3. QED
  BY <1>1, <1>2, Names DEF HowMany

LEMMA LoadsKept ==
  ASSUME LoadsInv, UNCHANGED <<stores, round, loaded>>,
         \A u \in Sides : (LoadDone(u)' => LoadDone(u)) /\ (RegisterDone(u)' => RegisterDone(u)),
         mpc' = "load_r2" => mpc = "load_r2"
  PROVE  LoadsInv'
<1>1. \A a : Latest(a)' = Latest(a)
  BY DEF Latest
<1>2. QED
  BY <1>1 DEF LoadsInv, ResetOf, RegisterOf

LEMMA SeqCstKept ==
  ASSUME SeqCstInv, UNCHANGED <<order, round, loaded, both_zero>>,
         \A u \in Sides : LoadDone(u)' => LoadDone(u)
  PROVE  SeqCstInv'
BY DEF SeqCstInv, ResetOf

\* Before a side begins it has done nothing, and it is idle.
LEMMA IdleSide ==
  ASSUME TypeOK, PhaseInv, NEW u \in Sides, ~Begun(u)
  PROVE  Idle(u) /\ ~StoreDone(u) /\ ~LoadDone(u) /\ ~RegisterDone(u)
BY SideTypes DEF PhaseInv, Idle, StoreDone, LoadDone, RegisterDone

LEMMA ResetStep ==
  ASSUME IInv,
         NEW s \in Sides, NEW here, NEW next,
         \/ s = "A" /\ here = "reset_x" /\ next = "reset_y"
         \/ s = "B" /\ here = "reset_y" /\ next = "begin_a",
         Reset(here, Own(s), next)
  PROVE  IInv'
<1> DEFINE a == Own(s)
<1>1. TypeOK /\ both_zero <= round /\ PhaseInv /\ ViewsInv /\ StoresInv /\ KnowledgeInv /\ LoadsInv /\ SeqCstInv
  BY DEF IInv
<1>2. /\ mpc = here /\ mpc' = next /\ round < Rounds
      /\ UNCHANGED <<order, sem, passed, round, waits, both_zero, spc, i, loaded>>
      /\ Store("main", a, 0, FALSE, FALSE)
  BY DEF Reset, MoreRounds, sideVars
<1>3. /\ stores' \in [Atomics -> Seq(StoreRecord)] /\ view' \in [Threads -> View] /\ ViewsInv'
      /\ \A c \in Atomics : c # a => stores'[c] = stores[c] /\ Latest(c)' = Latest(c)
      /\ Latest(a)' = Latest(a) + 1
      /\ \A k \in 1..Latest(a) : stores'[a][k] = stores[a][k]
      /\ \A u \in Threads : u # "main" => view'[u] = view[u]
      /\ \A c \in Atomics : c # a => view'["main"][c] = view["main"][c]
      /\ view'["main"][a] = Latest(a) + 1
  <2>1. a \in Atomics /\ "main" \in Threads /\ 0 \in {0, 1} /\ FALSE \in BOOLEAN
    BY Names
  <2> HIDE DEF a
  <2>2. QED
    BY <1>1, <1>2, <2>1, StoreStep
<1> HIDE DEF a
<1>4. TypeOK'
  BY <1>1, <1>2, <1>3 DEF TypeOK
<1>5. PhaseInv'
  BY <1>1, <1>2 DEF PhaseInv, Idle, Told, Busy, Posted, Begun, Comparing, HowMany
<1>6. \A u \in Sides : Idle(u) /\ ~StoreDone(u) /\ ~LoadDone(u) /\ ~RegisterDone(u)
  <2>1. \A u \in Sides : ~Begun(u)
    BY <1>2 DEF Begun, Comparing
  <2>2. QED
    BY <1>1, <2>1, IdleSide
<1>7. \A u \in Sides : /\ ~StoreDone(u)' /\ ~LoadDone(u)' /\ ~RegisterDone(u)'
                       /\ ~Told(u)' /\ ~Busy(u)' /\ ~Posted(u)'
  <2> SUFFICES ASSUME NEW u \in Sides
               PROVE  /\ ~StoreDone(u)' /\ ~LoadDone(u)' /\ ~RegisterDone(u)'
                      /\ ~Told(u)' /\ ~Busy(u)' /\ ~Posted(u)'
    OBVIOUS
  <2>1. ~StoreDone(u)' /\ ~LoadDone(u)' /\ ~RegisterDone(u)'
    BY <1>2, <1>6 DEF StoreDone, LoadDone, RegisterDone
  <2>2. ~Told(u)' /\ ~Busy(u)' /\ ~Posted(u)'
    BY <1>1, <1>2, <1>6, MainTypes DEF Idle, Told, Busy, Posted
  <2>3. QED
    BY <2>1, <2>2
<1>8. StoresInv'
  <2> SUFFICES ASSUME NEW u \in Sides
               PROVE  /\ Latest(Own(u))' = 2 * round + 1 + HowMany(ResetDone(u)')
                      /\ Latest(Register(u))' = round + 1
    BY <1>1, <1>2, <1>7, MainTypes DEF StoresInv, HowMany
  <2>1. Latest(Own(u)) = 2 * round + 1 + HowMany(ResetDone(u)) /\ Latest(Register(u)) = round + 1
    BY <1>1, <1>6, MainTypes DEF StoresInv, HowMany
  <2>2. Latest(Register(u))' = Latest(Register(u))
    BY <1>3, Names DEF a
  <2>3. CASE u = s
    <3>1. Latest(Own(u))' = Latest(Own(u)) + 1
      BY <1>3, <2>3 DEF a
    <3>2. ~ResetDone(u) /\ ResetDone(u)'
      BY <1>2, <2>3 DEF ResetDone, Sides
    <3>3. QED
      BY <1>1, <2>1, <2>2, <3>1, <3>2, MainTypes DEF HowMany
  <2>4. CASE u # s
    <3>1. Latest(Own(u))' = Latest(Own(u))
      BY <1>3, <2>4, Names DEF a
    <3>2. ResetDone(u)' <=> ResetDone(u)
      BY <1>2, <2>4 DEF ResetDone, Sides
    <3>3. QED
      BY <1>1, <2>1, <2>2, <3>1, <3>2, MainTypes DEF HowMany
  <2>5. QED
    BY <2>3, <2>4
<1>9. KnowledgeInv'
  BY <1>1, <1>2, <1>3, <1>7 DEF KnowledgeInv
<1>10. LoadsInv'
  BY <1>2, <1>7 DEF LoadsInv
<1>11. SeqCstInv'
  BY <1>1, <1>2, <1>7, Names DEF SeqCstInv
<1>12. QED
  BY <1>1, <1>2, <1>3, <1>4, <1>5, <1>8, <1>9, <1>10, <1>11 DEF IInv

LEMMA BeginStep ==
  ASSUME IInv,
         NEW s \in Sides, NEW here, NEW next,
         \/ s = "A" /\ here = "begin_a" /\ next = "begin_b"
         \/ s = "B" /\ here = "begin_b" /\ next = "wait",
         Begin(here, s, next)
  PROVE  IInv'
<1>1. TypeOK /\ both_zero <= round /\ PhaseInv /\ ViewsInv /\ StoresInv /\ KnowledgeInv /\ LoadsInv /\ SeqCstInv
  BY DEF IInv
<1>2. /\ mpc = here /\ mpc' = next
      /\ UNCHANGED <<order, stores, view, round, waits, both_zero, spc, i, loaded>>
      /\ sem_post("main", s)
  BY DEF Begin, sideVars
<1>3. /\ passed' \in [Semaphores -> View] /\ ViewsInv'
      /\ \A c \in Atomics : Latest(c)' = Latest(c)
      /\ sem'[s] = sem[s] + 1
      /\ \A n \in Semaphores : n # s => sem'[n] = sem[n] /\ passed'[n] = passed[n]
      /\ \A c \in Atomics : passed'[s][c] >= view["main"][c] /\ passed'[s][c] >= passed[s][c]
  <2>1. s \in Semaphores /\ "main" \in Threads
    BY Names
  <2>2. QED
    BY <1>1, <1>2, <2>1, PostStep
<1>4. Idle(s) /\ ~StoreDone(s) /\ ~LoadDone(s) /\ ~RegisterDone(s) /\ round < Rounds /\ spc[s] = "wait"
  <2>1. ~Begun(s) /\ round < Rounds
    BY <1>1, <1>2 DEF Begun, Comparing, PhaseInv
  <2>2. Idle(s) /\ ~StoreDone(s) /\ ~LoadDone(s) /\ ~RegisterDone(s)
    BY <1>1, <2>1, IdleSide
  <2>3. spc[s] # "returned"
    BY <1>1, <2>1, <2>2, MainTypes DEF PhaseInv, Idle
  <2>4. QED
    BY <2>1, <2>2, <2>3 DEF Idle
<1>5. sem' \in [Semaphores -> 0..2] /\ sem'[s] = 1
  <2>1. sem' = [sem EXCEPT ![s] = @ + 1] /\ sem[s] = 0
    BY <1>2, <1>4 DEF sem_post, Idle
  <2>2. QED
    BY <1>1, <2>1, Names DEF TypeOK
<1>6. TypeOK'
  BY <1>1, <1>2, <1>3, <1>5 DEF TypeOK
<1>7. \A u \in Sides : u # s => /\ Told(u)' <=> Told(u)
                                /\ Busy(u)' <=> Busy(u)
                                /\ Posted(u)' <=> Posted(u)
                                /\ Idle(u)' <=> Idle(u)
  BY <1>2, <1>3, Names DEF Told, Busy, Posted, Idle
<1>8. Told(s)' /\ ~Busy(s)' /\ ~Posted(s)' /\ ~Posted(s)
  BY <1>1, <1>2, <1>4, <1>5, MainTypes DEF Told, Busy, Posted, Idle
<1>9. \A u \in Sides : /\ ResetDone(u)' <=> ResetDone(u)
                       /\ StoreDone(u)' <=> StoreDone(u)
                       /\ LoadDone(u)' <=> LoadDone(u)
                       /\ RegisterDone(u)' <=> RegisterDone(u)
  BY <1>2 DEF ResetDone, StoreDone, LoadDone, RegisterDone
<1>10. PhaseInv'
  <2>1. \A u \in Sides : Begun(u)' <=> (Begun(u) \/ u = s)
    BY <1>2 DEF Begun, Comparing, Sides
  <2>2. \A u \in Sides : IF Begun(u)' THEN Told(u)' \/ Busy(u)' \/ Posted(u)' ELSE Idle(u)'
    BY <1>1, <1>7, <1>8, <2>1 DEF PhaseInv
  <2>3. (Posted("A")' <=> Posted("A")) /\ (Posted("B")' <=> Posted("B"))
    BY <1>7, <1>8 DEF Sides
  <2>4. sem'["done"] = sem["done"]
    BY <1>3, Names
  <2>5. ~Comparing /\ ~Comparing'
    BY <1>2 DEF Comparing
  <2>6. sem'["done"] + waits = HowMany(Posted("A")') + HowMany(Posted("B")')
    BY <1>1, <2>3, <2>4, <2>5 DEF PhaseInv, HowMany
  <2>7. waits = 0
    BY <1>1, <1>2 DEF PhaseInv
  <2>8. \A u \in Sides : spc[u] = "returned" => i[u] = Rounds
    BY <1>1 DEF PhaseInv
  <2>9. QED
    BY <1>2, <1>4, <2>2, <2>5, <2>6, <2>7, <2>8 DEF PhaseInv, HowMany
<1>11. StoresInv' /\ LoadsInv' /\ SeqCstInv'
  BY <1>1, <1>2, <1>9, StoresKept, LoadsKept, SeqCstKept
<1>12. KnowledgeInv'
  <2>1. Knows(view["main"], s)
    <3>1. CASE s = "B"
      BY <1>1, <1>2, <3>1 DEF KnowledgeInv
    <3>2. CASE s = "A"
      <4>1. \A c \in Atomics : view["main"][c] = Latest(c)
        BY <1>1, <1>2, <3>2 DEF KnowledgeInv
      <4>2. Latest(Other(s)) >= ResetOf(round)
        BY <1>1, <1>2, <3>2, MainTypes DEF StoresInv, ResetDone, HowMany, Sides, Other, Own, ResetOf
      <4>3. QED
        BY <4>1, <4>2, Names DEF Knows
    <3>3. QED
      BY <3>1, <3>2 DEF Sides
  <2>2. Knows(passed[s], s)'
    <3>1. \A c \in Atomics : /\ passed'[s][c] <= Latest(c) /\ passed'[s][c] >= view["main"][c]
                             /\ passed'[s][c] \in Nat /\ view["main"][c] \in Nat /\ Latest(c) \in Nat
      <4> SUFFICES ASSUME NEW c \in Atomics
                   PROVE  /\ passed'[s][c] <= Latest(c) /\ passed'[s][c] >= view["main"][c]
                          /\ passed'[s][c] \in Nat /\ view["main"][c] \in Nat /\ Latest(c) \in Nat
        OBVIOUS
      <4>1. passed'[s][c] \in Nat /\ passed'[s][c] <= Latest(c)'
        BY <1>3, Names DEF View, ViewsInv
      <4>2. QED
        BY <1>1, <1>3, <4>1, StoreTypes, ViewTypes, Names
    <3>2. /\ passed'[s][Own(s)] = Latest(Own(s)) /\ passed'[s][Register(s)] = Latest(Register(s))
          /\ passed'[s][Other(s)] >= ResetOf(round)
      <4>1. Own(s) \in Atomics /\ Register(s) \in Atomics /\ Other(s) \in Atomics
        BY Names
      <4>2. ResetOf(round) \in Nat
        BY <1>1, MainTypes DEF ResetOf
      <4>3. QED
        BY <2>1, <3>1, <4>1, <4>2 DEF Knows
    <3>3. QED
      BY <1>2, <1>3, <3>2, Names DEF Knows, ResetOf
  <2>3. next = "begin_b" => Knows(view["main"], "B")'
    <3>1. CASE next = "begin_b"
      <4>1. \A c \in Atomics : view["main"][c] = Latest(c)
        BY <1>1, <1>2, <3>1 DEF KnowledgeInv
      <4>2. Latest(Other("B")) >= ResetOf(round)
        BY <1>1, <1>2, <3>1, MainTypes DEF StoresInv, ResetDone, HowMany, Sides, Other, Own, ResetOf
      <4>3. QED
        BY <1>2, <1>3, <4>1, <4>2, Names DEF Knows, Sides, ResetOf
    <3>2. QED
      BY <3>1
  <2>4. ASSUME NEW u \in Sides
        PROVE  /\ Told(u)' => Knows(passed[u], u)'
               /\ Busy(u)' => Knows(view[u], u)'
               /\ Posted(u)' => /\ passed'["done"][Own(u)] = Latest(Own(u))'
                                /\ passed'["done"][Register(u)] = Latest(Register(u))'
    <3>1. CASE u = s
      BY <1>8, <2>2, <3>1
    <3>2. CASE u # s
      <4>1. /\ Told(u) => Knows(passed[u], u)
            /\ Busy(u) => Knows(view[u], u)
            /\ Posted(u) => /\ passed["done"][Own(u)] = Latest(Own(u))
                            /\ passed["done"][Register(u)] = Latest(Register(u))
        BY <1>1 DEF KnowledgeInv
      <4>2. QED
        BY <1>2, <1>3, <1>7, <3>2, <4>1, Names DEF Knows, ResetOf
    <3>3. QED
      BY <3>1, <3>2
  <2>5. QED
    BY <1>2, <2>3, <2>4 DEF KnowledgeInv
<1>13. QED
  BY <1>1, <1>2, <1>3, <1>6, <1>10, <1>11, <1>12 DEF IInv

LEMMA WaitDoneStep ==
  ASSUME IInv, WaitDone
  PROVE  IInv'
<1>1. TypeOK /\ both_zero <= round /\ PhaseInv /\ ViewsInv /\ StoresInv /\ KnowledgeInv /\ LoadsInv /\ SeqCstInv
  BY DEF IInv
<1>2. /\ mpc = "wait" /\ sem_wait("main", "done")
      /\ mpc' \in {"wait", "load_r1"} /\ waits' = IF waits = 1 THEN 0 ELSE waits + 1
      /\ mpc' = IF waits = 1 THEN "load_r1" ELSE "wait"
      /\ UNCHANGED <<order, stores, passed, round, both_zero, spc, i, loaded>>
  <2>1. BothDone <=> waits = 1
    BY <1>1, MainTypes DEF BothDone
  <2>2. QED
    BY <2>1 DEF WaitDone, sideVars
<1>3. /\ view' \in [Threads -> View] /\ ViewsInv'
      /\ \A c \in Atomics : Latest(c)' = Latest(c)
      /\ sem["done"] > 0 /\ sem'["done"] = sem["done"] - 1
      /\ \A n \in Semaphores : n # "done" => sem'[n] = sem[n]
      /\ \A u \in Threads : u # "main" => view'[u] = view[u]
      /\ \A c \in Atomics : view'["main"][c] >= view["main"][c] /\ view'["main"][c] >= passed["done"][c]
  BY <1>1, <1>2, Names, WaitStep
<1>4. sem' \in [Semaphores -> 0..2]
  <2>1. sem' = [sem EXCEPT !["done"] = @ - 1]
    BY <1>2 DEF sem_wait
  <2>2. sem["done"] \in 0..2 /\ sem["done"] - 1 \in 0..2
    BY <1>1, <1>3, MainTypes
  <2>3. QED
    BY <1>1, <2>1, <2>2, Names DEF TypeOK
<1>5. TypeOK'
  <2>1. waits' \in {0, 1}
    BY <1>1, <1>2, MainTypes
  <2>2. QED
    BY <1>1, <1>2, <1>3, <1>4, <2>1 DEF TypeOK
<1>6. \A u \in Sides : /\ Told(u)' <=> Told(u)
                       /\ Busy(u)' <=> Busy(u)
                       /\ Posted(u)' <=> Posted(u)
                       /\ Begun(u) /\ Begun(u)'
  BY <1>2, <1>3, Names DEF Told, Busy, Posted, Begun, Comparing
<1>7. ~Comparing /\ round < Rounds /\ (Comparing' <=> waits = 1)
  BY <1>1, <1>2 DEF Comparing, PhaseInv
<1>8. sem["done"] + waits = HowMany(Posted("A")) + HowMany(Posted("B"))
  BY <1>1, <1>7 DEF PhaseInv
<1>9. waits = 1 => sem["done"] = 1 /\ \A u \in Sides : Posted(u)
  BY <1>1, <1>3, <1>8, MainTypes DEF HowMany, Sides
<1>10. PhaseInv'
  <2>1. sem'["done"] + waits' =
          IF Comparing' THEN 0 ELSE HowMany(Posted("A")') + HowMany(Posted("B")')
    <3>1. CASE waits = 1
      BY <1>2, <1>3, <1>7, <1>9, <3>1
    <3>2. CASE waits # 1
      <4>1. (Posted("A")' <=> Posted("A")) /\ (Posted("B")' <=> Posted("B"))
        BY <1>6 DEF Sides
      <4>2. sem'["done"] + waits' = sem["done"] + waits
        BY <1>1, <1>2, <1>3, <3>2, MainTypes
      <4>3. QED
        BY <1>7, <1>8, <3>2, <4>1, <4>2 DEF HowMany
    <3>3. QED
      BY <3>1, <3>2
  <2>2. \A u \in Sides : Told(u)' \/ Busy(u)' \/ Posted(u)'
    BY <1>1, <1>6 DEF PhaseInv
  <2>3. \A u \in Sides : Comparing' => Posted(u)'
    BY <1>6, <1>7, <1>9
  <2>4. \A u \in Sides : spc[u] = "returned" => i[u] = Rounds
    BY <1>1 DEF PhaseInv
  <2>5. mpc' # "wait" => waits' = 0
    BY <1>2
  <2>6. QED
    BY <1>2, <1>6, <1>7, <2>1, <2>2, <2>3, <2>4, <2>5 DEF PhaseInv, HowMany
<1>11. StoresInv' /\ LoadsInv' /\ SeqCstInv'
  <2>1. \A u \in Sides : /\ ResetDone(u)' <=> ResetDone(u)
                         /\ StoreDone(u)' <=> StoreDone(u)
                         /\ LoadDone(u)' <=> LoadDone(u)
                         /\ RegisterDone(u)' <=> RegisterDone(u)
    BY <1>2 DEF ResetDone, StoreDone, LoadDone, RegisterDone
  <2>2. mpc' # "load_r2"
    BY <1>2
  <2>3. QED
    BY <1>1, <1>2, <2>1, <2>2, StoresKept, LoadsKept, SeqCstKept
<1>12. KnowledgeInv'
  <2>1. ASSUME NEW u \in Sides
        PROVE  /\ Told(u)' => Knows(passed[u], u)'
               /\ Busy(u)' => Knows(view[u], u)'
               /\ Posted(u)' => /\ passed'["done"][Own(u)] = Latest(Own(u))'
                                /\ passed'["done"][Register(u)] = Latest(Register(u))'
    <3>1. view'[u] = view[u]
      BY <1>3, Names
    <3>2. QED
      BY <1>1, <1>2, <1>3, <1>6, <3>1, Names DEF KnowledgeInv, Knows, ResetOf
  <2>2. ASSUME waits = 1, NEW c \in Atomics
        PROVE  view'["main"][c] = Latest(c)
    <3>1. PICK u \in Sides : c = Own(u) \/ c = Register(u)
      BY Names
    <3>2. passed["done"][c] = Latest(c)
      BY <1>1, <1>9, <2>2, <3>1 DEF KnowledgeInv
    <3>3. view'["main"][c] \in Nat /\ view'["main"][c] <= Latest(c) /\ Latest(c) \in Nat
      BY <1>1, <1>3, Names, StoreTypes DEF View, ViewsInv
    <3>4. QED
      BY <1>3, <3>2, <3>3
  <2>3. QED
    BY <1>2, <1>3, <2>1, <2>2 DEF KnowledgeInv
<1>13. QED
  BY <1>1, <1>2, <1>3, <1>5, <1>10, <1>11, <1>12 DEF IInv

\* The rest of run_litmus(): the registers are compared and the round is over.
LEMMA RoundEnds ==
  ASSUME IInv, Comparing, mpc' = "reset_x", round' = round + 1,
         both_zero' \in {both_zero, both_zero + 1}, order = "seq_cst" => both_zero' = both_zero,
         view' \in [Threads -> View], ViewsInv', \A a \in Atomics : view'["main"][a] = Latest(a),
         UNCHANGED <<order, stores, sem, passed, waits, spc, i, loaded>>
  PROVE  IInv'
<1>1. TypeOK /\ both_zero <= round /\ PhaseInv /\ StoresInv /\ KnowledgeInv
  BY DEF IInv
<1>2. round < Rounds /\ \A u \in Sides : Posted(u)
  BY <1>1 DEF PhaseInv, Comparing
<1>3. TypeOK'
  BY <1>1, <1>2, MainTypes DEF TypeOK, IInv
<1>4. \A u \in Sides : /\ i[u] = round' /\ Idle(u)' /\ ~Told(u)' /\ ~Busy(u)' /\ ~Posted(u)'
                       /\ ~StoreDone(u)' /\ ~LoadDone(u)' /\ ~RegisterDone(u)' /\ ~ResetDone(u)'
  <2> SUFFICES ASSUME NEW u \in Sides
               PROVE  /\ i[u] = round' /\ Idle(u)' /\ ~Told(u)' /\ ~Busy(u)' /\ ~Posted(u)'
                      /\ ~StoreDone(u)' /\ ~LoadDone(u)' /\ ~RegisterDone(u)' /\ ~ResetDone(u)'
    OBVIOUS
  <2>1. i[u] = round' /\ sem[u] = 0 /\ spc[u] \in {"wait", "returned"}
    BY <1>2 DEF Posted
  <2>2. Idle(u)' /\ ~Told(u)' /\ ~Busy(u)' /\ ~Posted(u)'
    BY <1>1, <2>1, MainTypes DEF Idle, Told, Busy, Posted
  <2>3. ~StoreDone(u)' /\ ~LoadDone(u)' /\ ~RegisterDone(u)' /\ ~ResetDone(u)'
    BY <2>1 DEF StoreDone, LoadDone, RegisterDone, ResetDone
  <2>4. QED
    BY <2>1, <2>2, <2>3
<1>5. PhaseInv'
  <2>1. ~Comparing' /\ \A u \in Sides : ~Begun(u)'
    BY DEF Comparing, Begun
  <2>2. sem["done"] + waits = 0 /\ waits = 0
    BY <1>1 DEF PhaseInv, Comparing
  <2>3. ~Posted("A")' /\ ~Posted("B")'
    BY <1>4 DEF Sides
  <2>4. \A u \in Sides : spc[u] = "returned" => i[u] = Rounds
    BY <1>1 DEF PhaseInv
  <2>5. QED
    BY <1>4, <2>1, <2>2, <2>3, <2>4 DEF PhaseInv, HowMany
<1>6. StoresInv'
  <2>1. \A a \in Atomics : Latest(a)' = Latest(a)
    BY DEF Latest
  <2>2. ASSUME NEW u \in Sides
        PROVE  Latest(Own(u)) = 2 * round' + 1 /\ Latest(Register(u)) = round' + 1
    <3>1. ResetDone(u) /\ StoreDone(u) /\ RegisterDone(u)
      BY <1>1, <1>2, MainTypes DEF Comparing, ResetDone, StoreDone, RegisterDone, Posted
    <3>2. QED
      BY <1>1, <3>1, MainTypes DEF StoresInv, HowMany
  <2>3. QED
    BY <1>4, <2>1, <2>2, Names, MainTypes DEF StoresInv, HowMany
<1>7. KnowledgeInv'
  <2>1. \A a \in Atomics : Latest(a)' = Latest(a) /\ view'["main"][a] = Latest(a)
    BY DEF Latest
  <2>2. QED
    BY <1>4, <2>1 DEF KnowledgeInv
<1>8. LoadsInv' /\ SeqCstInv'
  <2>1. LoadsInv'
    BY <1>4 DEF LoadsInv
  <2>2. order = "seq_cst" => both_zero' = 0
    BY DEF IInv, SeqCstInv
  <2>3. QED
    BY <1>4, <2>1, <2>2, Names DEF SeqCstInv, Sides
<1>9. QED
  BY <1>1, <1>3, <1>5, <1>6, <1>7, <1>8, MainTypes DEF IInv

\* main() loads the one store of a register that it may.
LEMMA RegisterLoaded ==
  ASSUME IInv, Comparing, NEW s \in Sides, NEW k \in Nat, k \in Loadable("main", Register(s), FALSE),
         Load("main", Register(s), k, FALSE), UNCHANGED <<stores, passed>>
  PROVE  /\ k = RegisterOf(round) /\ k \in 1..Latest(Register(s))
         /\ view' \in [Threads -> View] /\ ViewsInv'
         /\ \A a \in Atomics : Latest(a)' = Latest(a) /\ view'["main"][a] = Latest(a)
         /\ \A u \in Sides : view'[u] = view[u]
<1> DEFINE r == Register(s)
<1>1. TypeOK /\ ViewsInv /\ StoresInv /\ PhaseInv
  BY DEF IInv
<1>2. r \in Atomics /\ \A a \in Atomics : view["main"][a] = Latest(a) /\ Latest(a) \in Nat
  BY <1>1, Names, StoreTypes DEF IInv, KnowledgeInv, Comparing
<1>3. Latest(r) = RegisterOf(round)
  <2>1. Posted(s) /\ RegisterDone(s)
    BY <1>1, MainTypes DEF PhaseInv, Posted, RegisterDone
  <2>2. QED
    BY <1>1, <2>1, MainTypes DEF StoresInv, HowMany, RegisterOf
<1>4. view["main"][r] = Latest(r)
  BY <1>2
<1>5. k = Latest(r) /\ k \in 1..Latest(r)
  <2>1. k \in Latest(r)..Latest(r) /\ Latest(r) \in Nat /\ Latest(r) >= 1
    BY <1>1, <1>2, <1>3, <1>4, MainTypes DEF Loadable, RegisterOf
  <2>2. QED
    BY <2>1
<1> HIDE DEF r
<1>6. /\ view' \in [Threads -> View] /\ ViewsInv'
      /\ \A a \in Atomics : Latest(a)' = Latest(a)
      /\ \A u \in Threads : u # "main" => view'[u] = view[u]
      /\ \A c \in Atomics : c # r => view'["main"][c] >= view["main"][c]
      /\ view'["main"][r] = k
  <2>1. "main" \in Threads /\ FALSE \in BOOLEAN
    BY Names
  <2>2. k \in Loadable("main", r, FALSE) /\ Load("main", r, k, FALSE)
    BY DEF r
  <2>3. QED
    BY <1>1, <1>2, <1>5, <2>1, <2>2, LoadStep
<1>7. ASSUME NEW a \in Atomics PROVE view'["main"][a] = Latest(a)
  <2>1. CASE a = r
    BY <1>5, <1>6, <2>1
  <2>2. CASE a # r
    <3>1. view'["main"][a] \in Nat /\ view'["main"][a] <= Latest(a)
      BY <1>6, Names DEF View, ViewsInv
    <3>2. QED
      BY <1>2, <1>6, <2>2, <3>1
  <2>3. QED
    BY <2>1, <2>2
<1>8. QED
  BY <1>3, <1>5, <1>6, <1>7, Names DEF r

LEMMA LoadR1Step ==
  ASSUME IInv, NEW k \in Nat, LoadR1(k)
  PROVE  IInv'
<1>1. /\ mpc = "load_r1" /\ Comparing
      /\ k \in Loadable("main", Register("A"), FALSE) /\ Load("main", Register("A"), k, FALSE)
      /\ UNCHANGED <<order, stores, sem, passed, waits, both_zero, spc, i, loaded>>
      /\ "A" \in Sides /\ Register("A") = "r1"
  BY DEF LoadR1, Comparing, Register, Sides, sideVars
<1>2. /\ k = RegisterOf(round)
      /\ view' \in [Threads -> View] /\ ViewsInv'
      /\ \A a \in Atomics : Latest(a)' = Latest(a) /\ view'["main"][a] = Latest(a)
      /\ \A u \in Sides : view'[u] = view[u]
  BY <1>1, RegisterLoaded
<1>3. CASE stores["r1"][k].val # 0
  <2>1. mpc' = "reset_x" /\ round' = round + 1
    BY <1>3 DEF LoadR1
  <2>2. both_zero \in Nat
    BY MainTypes DEF IInv
  <2>3. QED
    BY <1>1, <1>2, <2>1, <2>2, RoundEnds
<1>4. CASE stores["r1"][k].val = 0
  <2>1. mpc' = "load_r2" /\ round' = round
    BY <1>4 DEF LoadR1
  <2>2. TypeOK /\ both_zero <= round /\ PhaseInv /\ StoresInv /\ KnowledgeInv /\ LoadsInv /\ SeqCstInv
    BY DEF IInv
  <2>3. TypeOK'
    BY <1>1, <1>2, <2>1, <2>2 DEF TypeOK
  <2>4. \A u \in Sides : /\ Told(u)' <=> Told(u)
                         /\ Busy(u)' <=> Busy(u)
                         /\ Posted(u)' <=> Posted(u)
    BY <1>1, <2>1 DEF Told, Busy, Posted
  <2>5. \A u \in Sides : /\ ResetDone(u)' <=> ResetDone(u)
                         /\ StoreDone(u)' <=> StoreDone(u)
                         /\ LoadDone(u)' <=> LoadDone(u)
                         /\ RegisterDone(u)' <=> RegisterDone(u)
    BY <1>1, <2>1 DEF ResetDone, StoreDone, LoadDone, RegisterDone
  <2>6. PhaseInv'
    <3>1. Comparing' /\ \A u \in Sides : Begun(u)' /\ Posted(u)'
      BY <1>1, <2>1, <2>2, <2>4 DEF Comparing, Begun, PhaseInv
    <3>2. QED
      BY <1>1, <2>1, <2>2, <3>1 DEF PhaseInv
  <2>7. StoresInv' /\ SeqCstInv'
    BY <1>1, <2>1, <2>2, <2>5, StoresKept, SeqCstKept
  <2>8. KnowledgeInv'
    <3>1. \A u \in Sides : Posted(u)' /\ ~Told(u)' /\ ~Busy(u)'
      BY <1>1, <2>1, <2>2, <2>4, MainTypes DEF PhaseInv, Posted, Told, Busy
    <3>2. \A u \in Sides : /\ passed'["done"][Own(u)] = Latest(Own(u))'
                           /\ passed'["done"][Register(u)] = Latest(Register(u))'
      BY <1>1, <1>2, <2>2, Names DEF KnowledgeInv, PhaseInv
    <3>3. QED
      BY <1>2, <2>1, <3>1, <3>2 DEF KnowledgeInv
  <2>9. LoadsInv'
    BY <1>1, <1>2, <1>4, <2>1, <2>2, <2>5, Names DEF LoadsInv, ResetOf, RegisterOf
  <2>10. QED
    BY <1>1, <1>2, <2>1, <2>2, <2>3, <2>6, <2>7, <2>8, <2>9 DEF IInv
<1>5. QED
  BY <1>3, <1>4

\* The register says which of the two stores its side has loaded.
LEMMA ZeroRegister ==
  ASSUME IInv, Comparing, NEW s \in Sides, stores[Register(s)][RegisterOf(round)].val = 0
  PROVE  LoadDone(s) /\ loaded[s] = ResetOf(round)
<1>1. TypeOK /\ PhaseInv /\ StoresInv /\ LoadsInv
  BY DEF IInv
<1>2. \A u \in Sides : StoreDone(u) /\ LoadDone(u) /\ RegisterDone(u)
  BY <1>1, MainTypes DEF PhaseInv, Posted, StoreDone, LoadDone, RegisterDone
<1>3. PICK u \in Sides : Other(s) = Own(u)
  BY DEF Sides, Other, Own
<1>4. stores[Other(s)][ResetOf(round) + 1].val = 1
  BY <1>1, <1>2, <1>3 DEF StoresInv
<1>5. stores[Other(s)][loaded[s]].val = 0 /\ loaded[s] \in {ResetOf(round), ResetOf(round) + 1}
  BY <1>1, <1>2 DEF LoadsInv
<1>6. QED
  BY <1>2, <1>4, <1>5

LEMMA LoadR2Step ==
  ASSUME IInv, NEW k \in Nat, LoadR2(k)
  PROVE  IInv'
<1>1. /\ mpc = "load_r2" /\ Comparing
      /\ k \in Loadable("main", Register("B"), FALSE) /\ Load("main", Register("B"), k, FALSE)
      /\ mpc' = "reset_x" /\ round' = round + 1
      /\ UNCHANGED <<order, stores, sem, passed, waits, spc, i, loaded>>
      /\ "A" \in Sides /\ "B" \in Sides /\ Register("A") = "r1" /\ Register("B") = "r2"
      /\ Sides = {"A", "B"}
  BY DEF LoadR2, Comparing, Register, Sides, sideVars
<1>2. /\ k = RegisterOf(round)
      /\ view' \in [Threads -> View] /\ ViewsInv'
      /\ \A a \in Atomics : view'["main"][a] = Latest(a)
  BY <1>1, RegisterLoaded
<1>3. ASSUME order = "seq_cst" PROVE both_zero' = both_zero
  <2>1. stores["r1"][RegisterOf(round)].val = 0
    BY <1>1 DEF IInv, LoadsInv
  <2>2. ASSUME stores["r2"][k].val = 0 PROVE FALSE
    <3>1. \A s \in Sides : LoadDone(s) /\ loaded[s] = ResetOf(round)
      BY <1>1, <1>2, <2>1, <2>2, ZeroRegister
    <3>2. QED
      BY <1>3, <3>1 DEF IInv, SeqCstInv
  <2>3. QED
    BY <2>2 DEF LoadR2
<1>4. both_zero' \in {both_zero, both_zero + 1}
  BY DEF LoadR2
<1>5. QED
  BY <1>1, <1>2, <1>3, <1>4, RoundEnds

LEMMA JoinsStep ==
  ASSUME IInv, Joins
  PROVE  IInv'
<1>1. TypeOK /\ both_zero <= round /\ PhaseInv /\ StoresInv /\ KnowledgeInv /\ LoadsInv /\ SeqCstInv /\ ViewsInv
  BY DEF IInv
<1>2. /\ mpc = "reset_x" /\ mpc' = "joined"
      /\ UNCHANGED <<order, stores, view, sem, passed, round, waits, both_zero, spc, i, loaded>>
  BY DEF Joins, sideVars
<1>3. TypeOK' /\ ViewsInv'
  BY <1>1, <1>2 DEF TypeOK, ViewsInv, Latest
<1>4. \A u \in Sides : /\ Told(u)' <=> Told(u)
                       /\ Busy(u)' <=> Busy(u)
                       /\ Posted(u)' <=> Posted(u)
                       /\ Idle(u)' <=> Idle(u)
                       /\ ~Begun(u) /\ ~Begun(u)' /\ ~Comparing /\ ~Comparing'
  BY <1>2 DEF Told, Busy, Posted, Idle, Begun, Comparing
<1>5. \A u \in Sides : /\ ResetDone(u)' <=> ResetDone(u)
                       /\ StoreDone(u)' <=> StoreDone(u)
                       /\ LoadDone(u)' <=> LoadDone(u)
                       /\ RegisterDone(u)' <=> RegisterDone(u)
  BY <1>2 DEF ResetDone, StoreDone, LoadDone, RegisterDone
<1>6. PhaseInv'
  BY <1>1, <1>2, <1>4 DEF PhaseInv, HowMany, Sides
<1>7. StoresInv' /\ LoadsInv' /\ SeqCstInv'
  BY <1>1, <1>2, <1>5, StoresKept, LoadsKept, SeqCstKept
<1>8. KnowledgeInv'
  <2>1. \A a \in Atomics : Latest(a)' = Latest(a)
    BY <1>2 DEF Latest
  <2>2. QED
    BY <1>1, <1>2, <1>4, <2>1, Names DEF KnowledgeInv, Knows, ResetOf
<1>9. QED
  BY <1>1, <1>2, <1>3, <1>6, <1>7, <1>8 DEF IInv

---------------------------------------------------------------------------
(* litmus_side().                                                          *)

\* Where everybody is while a side is at work.
LEMMA SideAtWork ==
  ASSUME TypeOK, PhaseInv, NEW s \in Sides, ~Idle(s), ~Posted(s)
  PROVE  /\ Begun(s) /\ ~Comparing /\ mpc \in {"begin_b", "wait"} /\ (s = "B" => mpc = "wait")
         /\ Told(s) \/ Busy(s)
         /\ i[s] = round /\ round < Rounds
         /\ \A u \in Sides : ResetDone(u)
<1>1. Begun(s) /\ ~Comparing /\ (Told(s) \/ Busy(s))
  BY DEF PhaseInv
<1>2. mpc \in {"begin_b", "wait"} /\ (s = "B" => mpc = "wait")
  BY <1>1 DEF Begun, Comparing
<1>3. QED
  BY <1>1, <1>2 DEF Told, Busy, PhaseInv, ResetDone

\* A step of a side leaves the other where it is.
LEMMA OtherSide ==
  ASSUME NEW s \in Sides, UNCHANGED <<mpc, round>>,
         \A u \in Sides : u # s => sem'[u] = sem[u] /\ spc'[u] = spc[u] /\ i'[u] = i[u]
  PROVE  \A u \in Sides : u # s => /\ Told(u)' <=> Told(u)
                                   /\ Busy(u)' <=> Busy(u)
                                   /\ Posted(u)' <=> Posted(u)
                                   /\ Idle(u)' <=> Idle(u)
                                   /\ StoreDone(u)' <=> StoreDone(u)
                                   /\ LoadDone(u)' <=> LoadDone(u)
                                   /\ RegisterDone(u)' <=> RegisterDone(u)
BY DEF Told, Busy, Posted, Idle, StoreDone, LoadDone, RegisterDone

LEMMA SideKeepsPhases ==
  ASSUME TypeOK, PhaseInv, NEW s \in Sides, UNCHANGED <<mpc, round, waits>>, Begun(s), ~Comparing,
         \A u \in Sides : u # s => sem'[u] = sem[u] /\ spc'[u] = spc[u] /\ i'[u] = i[u],
         Told(s)' \/ Busy(s)' \/ Posted(s)', spc'[s] # "returned", ~Posted(s),
         sem'["done"] = sem["done"] + HowMany(Posted(s)')
  PROVE  PhaseInv'
<1>1. \A u \in Sides : u # s => /\ Told(u)' <=> Told(u)
                                /\ Busy(u)' <=> Busy(u)
                                /\ Posted(u)' <=> Posted(u)
                                /\ Idle(u)' <=> Idle(u)
  BY OtherSide
<1>2. ~Comparing' /\ \A u \in Sides : Begun(u)' <=> Begun(u)
  BY DEF Comparing, Begun
<1>3. \A u \in Sides : IF Begun(u)' THEN Told(u)' \/ Busy(u)' \/ Posted(u)' ELSE Idle(u)'
  BY <1>1, <1>2 DEF PhaseInv
<1>4. \A u \in Sides : spc'[u] = "returned" => i'[u] = Rounds
  BY DEF PhaseInv
<1>5. sem'["done"] + waits = HowMany(Posted("A")') + HowMany(Posted("B")')
  <2>1. sem["done"] + waits = HowMany(Posted("A")) + HowMany(Posted("B"))
    BY DEF PhaseInv
  <2>2. CASE s = "A"
    <3>1. Posted("B")' <=> Posted("B")
      BY <1>1, <2>2 DEF Sides
    <3>2. QED
      BY <2>1, <2>2, <3>1, MainTypes DEF HowMany
  <2>3. CASE s = "B"
    <3>1. Posted("A")' <=> Posted("A")
      BY <1>1, <2>3 DEF Sides
    <3>2. QED
      BY <2>1, <2>3, <3>1, MainTypes DEF HowMany
  <2>4. QED
    BY <2>2, <2>3 DEF Sides
<1>6. /\ mpc' \notin {"reset_x", "joined"} => round' < Rounds
      /\ mpc' # "wait" => waits' = 0
  BY DEF PhaseInv
<1>7. QED
  BY <1>2, <1>3, <1>4, <1>5, <1>6 DEF PhaseInv, HowMany

\* What main() and the other side know is not affected by a step of a side that
\* leaves their views alone, whatever it stores.
LEMMA SideKeepsKnowledge ==
  ASSUME TypeOK, KnowledgeInv, NEW s \in Sides, UNCHANGED <<mpc, round>>,
         mpc \in {"begin_b", "wait"}, s = "B" => mpc = "wait",
         \A u \in Sides : u # s => sem'[u] = sem[u] /\ spc'[u] = spc[u] /\ i'[u] = i[u],
         \A u \in Threads : u # s => view'[u] = view[u],
         \A u \in Sides : passed'[u] = passed[u],
         \A u \in Sides : u # s => /\ Latest(Own(u))' = Latest(Own(u))
                                   /\ Latest(Register(u))' = Latest(Register(u)),
         \A u \in Sides : u # s /\ Posted(u) =>
            /\ passed'["done"][Own(u)] = Latest(Own(u))
            /\ passed'["done"][Register(u)] = Latest(Register(u)),
         Told(s)' => Knows(passed[s], s)',
         Busy(s)' => Knows(view[s], s)',
         Posted(s)' => /\ passed'["done"][Own(s)] = Latest(Own(s))'
                       /\ passed'["done"][Register(s)] = Latest(Register(s))'
  PROVE  KnowledgeInv'
<1>1. \A u \in Sides : u # s => /\ Told(u)' <=> Told(u)
                                /\ Busy(u)' <=> Busy(u)
                                /\ Posted(u)' <=> Posted(u)
  BY OtherSide
<1>2. mpc = "begin_b" => Knows(view["main"], "B")'
  <2>1. CASE mpc = "begin_b"
    <3>1. s # "B" /\ "B" \in Sides /\ view'["main"] = view["main"] /\ Knows(view["main"], "B")
      BY <2>1, Names DEF Sides, KnowledgeInv
    <3>2. QED
      BY <3>1 DEF Knows, ResetOf
  <2>2. QED
    BY <2>1
<1>3. ASSUME NEW u \in Sides, u # s
      PROVE  /\ Told(u)' => Knows(passed[u], u)'
             /\ Busy(u)' => Knows(view[u], u)'
             /\ Posted(u)' => /\ passed'["done"][Own(u)] = Latest(Own(u))'
                              /\ passed'["done"][Register(u)] = Latest(Register(u))'
  <2>1. view'[u] = view[u] /\ passed'[u] = passed[u]
    BY <1>3, Names
  <2>2. QED
    BY <1>1, <1>3, <2>1 DEF KnowledgeInv, Knows, ResetOf
<1>4. QED
  BY <1>2, <1>3 DEF KnowledgeInv

LEMMA WaitBeginStep ==
  ASSUME IInv, NEW s \in Sides, WaitBegin(s)
  PROVE  IInv'
<1>1. TypeOK /\ both_zero <= round /\ PhaseInv /\ ViewsInv /\ StoresInv /\ KnowledgeInv /\ LoadsInv /\ SeqCstInv
  BY DEF IInv
<1>2. /\ spc[s] = "wait" /\ i[s] < Rounds /\ sem_wait(s, s)
      /\ spc' = [spc EXCEPT ![s] = "store"]
      /\ UNCHANGED <<order, stores, passed, mpc, round, waits, both_zero, i, loaded>>
  BY DEF WaitBegin, mainVars
<1>3. /\ view' \in [Threads -> View] /\ ViewsInv'
      /\ \A c \in Atomics : Latest(c)' = Latest(c)
      /\ sem[s] > 0 /\ sem'[s] = sem[s] - 1
      /\ \A n \in Semaphores : n # s => sem'[n] = sem[n]
      /\ \A u \in Threads : u # s => view'[u] = view[u]
      /\ \A c \in Atomics : view'[s][c] >= view[s][c] /\ view'[s][c] >= passed[s][c]
  <2>1. s \in Threads /\ s \in Semaphores
    BY Names
  <2>2. QED
    BY <1>1, <1>2, <2>1, WaitStep
<1>4. ~Idle(s) /\ ~Posted(s) /\ ~Busy(s)
  BY <1>2, <1>3 DEF Idle, Posted, Busy
<1>5. /\ Told(s) /\ sem[s] = 1 /\ Begun(s) /\ ~Comparing /\ mpc \in {"begin_b", "wait"}
      /\ s = "B" => mpc = "wait"
      /\ \A u \in Sides : ResetDone(u)
      /\ i[s] = round
  BY <1>1, <1>4, SideAtWork DEF Told
<1>6. /\ spc'[s] = "store" /\ spc' \in [Sides -> {"wait", "store", "load", "register", "post", "returned"}]
      /\ \A u \in Sides : u # s => sem'[u] = sem[u] /\ spc'[u] = spc[u] /\ i'[u] = i[u]
  BY <1>1, <1>2, <1>3, Names DEF TypeOK
<1>7. sem' \in [Semaphores -> 0..2]
  <2>1. sem' = [sem EXCEPT ![s] = @ - 1]
    BY <1>2 DEF sem_wait
  <2>2. QED
    BY <1>1, <1>5, <2>1, Names DEF TypeOK
<1>8. TypeOK'
  BY <1>1, <1>2, <1>3, <1>6, <1>7 DEF TypeOK
<1>9. Busy(s)' /\ ~Told(s)' /\ ~Posted(s)'
  BY <1>1, <1>2, <1>3, <1>5, <1>6, MainTypes DEF Busy, Told, Posted
<1>10. PhaseInv'
  <2>1. sem'["done"] = sem["done"] /\ sem["done"] \in 0..2
    BY <1>1, <1>3, Names, MainTypes
  <2>2. QED
    BY <1>1, <1>2, <1>4, <1>5, <1>6, <1>9, <2>1, SideKeepsPhases DEF HowMany
<1>11. StoresInv' /\ LoadsInv' /\ SeqCstInv'
  <2>1. \A u \in Sides : /\ ResetDone(u)' <=> ResetDone(u)
                         /\ StoreDone(u)' <=> StoreDone(u)
                         /\ LoadDone(u)' <=> LoadDone(u)
                         /\ RegisterDone(u)' <=> RegisterDone(u)
    BY <1>2, <1>5, <1>6 DEF ResetDone, StoreDone, LoadDone, RegisterDone
  <2>2. QED
    BY <1>1, <1>2, <2>1, StoresKept, LoadsKept, SeqCstKept
<1>12. KnowledgeInv'
  <2>1. Knows(view[s], s)'
    <3>1. Knows(passed[s], s)
      BY <1>1, <1>5 DEF KnowledgeInv
    <3>2. \A c \in Atomics : /\ view'[s][c] \in Nat /\ view'[s][c] <= Latest(c)
                             /\ Latest(c) \in Nat /\ passed[s][c] \in Nat
      <4>1. \A c \in Atomics : view'[s][c] \in Nat /\ view'[s][c] <= Latest(c)
        BY <1>3, Names DEF View, ViewsInv
      <4>2. QED
        BY <1>1, <4>1, StoreTypes, ViewTypes, Names
    <3>3. Own(s) \in Atomics /\ Register(s) \in Atomics /\ Other(s) \in Atomics
      BY Names
    <3>4. ResetOf(round) \in Nat
      BY <1>1, MainTypes DEF ResetOf
    <3>5. /\ view'[s][Own(s)] = Latest(Own(s)) /\ view'[s][Register(s)] = Latest(Register(s))
          /\ view'[s][Other(s)] >= ResetOf(round)
      BY <1>3, <3>1, <3>2, <3>3, <3>4 DEF Knows
    <3>6. QED
      BY <1>2, <1>3, <3>3, <3>5 DEF Knows, ResetOf
  <2>2. \A u \in Sides : Posted(u) => /\ passed'["done"][Own(u)] = Latest(Own(u))
                                      /\ passed'["done"][Register(u)] = Latest(Register(u))
    BY <1>1, <1>2 DEF KnowledgeInv
  <2>3. QED
    BY <1>1, <1>2, <1>3, <1>5, <1>6, <1>9, <2>1, <2>2, Names, SideKeepsKnowledge
<1>13. QED
  BY <1>1, <1>2, <1>3, <1>8, <1>10, <1>11, <1>12 DEF IInv

\* A store of a side, to its atomic or to its register.
LEMMA SideStores ==
  ASSUME TypeOK, ViewsInv, PhaseInv, NEW s \in Sides, NEW a \in {Own(s), Register(s)},
         NEW val \in {0, 1}, NEW releases \in BOOLEAN, NEW sc \in BOOLEAN,
         Store(s, a, val, releases, sc),
         spc[s] \in {"store", "register"}, spc'[s] \in {"load", "post"},
         spc' \in [Sides -> {"wait", "store", "load", "register", "post", "returned"}],
         \A u \in Sides : u # s => spc'[u] = spc[u],
         UNCHANGED <<order, sem, passed, mpc, round, waits, both_zero, i, loaded>>
  PROVE  /\ TypeOK' /\ ViewsInv' /\ PhaseInv'
         /\ \A c \in Atomics : c # a => stores'[c] = stores[c] /\ Latest(c)' = Latest(c)
         /\ Latest(a)' = Latest(a) + 1 /\ Latest(a) \in Nat
         /\ \A k \in 1..Latest(a) : stores'[a][k] = stores[a][k]
         /\ stores'[a][Latest(a) + 1].val = val
         /\ stores'[a][Latest(a) + 1].sc = sc
         /\ \A u \in Threads : u # s => view'[u] = view[u]
         /\ \A c \in Atomics : c # a => view'[s][c] = view[s][c]
         /\ view'[s][a] = Latest(a) + 1
         /\ \A u \in Sides : u # s => sem'[u] = sem[u] /\ spc'[u] = spc[u] /\ i'[u] = i[u]
         /\ Busy(s) /\ Busy(s)' /\ ~Told(s)' /\ ~Posted(s)'
         /\ mpc \in {"begin_b", "wait"} /\ (s = "B" => mpc = "wait")
         /\ \A u \in Sides : ResetDone(u) /\ ResetDone(u)'
         /\ i[s] = round
<1>1. s \in Threads /\ a \in Atomics /\ s \in Sides
  BY Names
<1>2. /\ stores' \in [Atomics -> Seq(StoreRecord)] /\ view' \in [Threads -> View] /\ ViewsInv'
      /\ \A c \in Atomics : c # a => stores'[c] = stores[c] /\ Latest(c)' = Latest(c)
      /\ Latest(a)' = Latest(a) + 1
      /\ \A k \in 1..Latest(a) : stores'[a][k] = stores[a][k]
      /\ stores'[a][Latest(a) + 1].val = val
      /\ stores'[a][Latest(a) + 1].sc = sc
      /\ \A u \in Threads : u # s => view'[u] = view[u]
      /\ \A c \in Atomics : c # a => view'[s][c] = view[s][c]
      /\ view'[s][a] = Latest(a) + 1
  BY <1>1, StoreStep
<1>3. \A u \in Sides : u # s => sem'[u] = sem[u] /\ spc'[u] = spc[u] /\ i'[u] = i[u]
  BY DEF TypeOK
<1>4. ~Idle(s) /\ ~Posted(s) /\ ~Told(s)
  BY DEF Idle, Posted, Told
<1>5. /\ Busy(s) /\ Begun(s) /\ ~Comparing /\ mpc \in {"begin_b", "wait"}
      /\ s = "B" => mpc = "wait"
      /\ \A u \in Sides : ResetDone(u)
      /\ i[s] = round
  BY <1>4, SideAtWork
<1>6. TypeOK'
  BY <1>2, <1>3 DEF TypeOK
<1>7. Busy(s)' /\ ~Told(s)' /\ ~Posted(s)'
  BY <1>3, <1>5, MainTypes DEF Busy, Told, Posted
<1>8. PhaseInv'
  BY <1>3, <1>4, <1>5, <1>7, MainTypes, SideKeepsPhases DEF HowMany
<1>9. \A u \in Sides : ResetDone(u)'
  BY <1>5 DEF ResetDone
<1>10. QED
  BY <1>1, <1>2, <1>3, <1>5, <1>6, <1>7, <1>8, <1>9, StoreTypes

LEMMA StoreOwnStep ==
  ASSUME IInv, NEW s \in Sides, StoreOwn(s)
  PROVE  IInv'
<1> DEFINE a == Own(s)
<1>1. TypeOK /\ both_zero <= round /\ PhaseInv /\ ViewsInv /\ StoresInv /\ KnowledgeInv /\ LoadsInv /\ SeqCstInv
  BY DEF IInv
<1>2. /\ spc[s] = "store" /\ spc'[s] = "load"
      /\ spc' \in [Sides -> {"wait", "store", "load", "register", "post", "returned"}]
      /\ \A u \in Sides : u # s => spc'[u] = spc[u]
      /\ Store(s, a, 1, order # "relaxed", order = "seq_cst")
      /\ UNCHANGED <<order, sem, passed, mpc, round, waits, both_zero, i, loaded>>
  BY <1>1 DEF StoreOwn, mainVars, TypeOK
<1>0. PICK releases \in BOOLEAN, sc \in BOOLEAN :
         Store(s, a, 1, releases, sc) /\ (sc = TRUE <=> order = "seq_cst")
  <2>1. CASE order = "seq_cst"
    <3>1. Store(s, a, 1, TRUE, TRUE)
      BY <1>2, <2>1 DEF Store
    <3>2. QED
      BY <2>1, <3>1
  <2>2. CASE order = "acq_rel"
    <3>1. Store(s, a, 1, TRUE, FALSE)
      BY <1>2, <2>2 DEF Store
    <3>2. QED
      BY <2>2, <3>1
  <2>3. CASE order = "relaxed"
    <3>1. Store(s, a, 1, FALSE, FALSE)
      BY <1>2, <2>3 DEF Store
    <3>2. QED
      BY <2>3, <3>1
  <2>4. QED
    BY <1>1, <2>1, <2>2, <2>3, MainTypes DEF Orders
<1>3. /\ TypeOK' /\ ViewsInv' /\ PhaseInv'
      /\ \A c \in Atomics : c # a => stores'[c] = stores[c] /\ Latest(c)' = Latest(c)
      /\ Latest(a)' = Latest(a) + 1 /\ Latest(a) \in Nat
      /\ \A k \in 1..Latest(a) : stores'[a][k] = stores[a][k]
      /\ stores'[a][Latest(a) + 1].val = 1
      /\ stores'[a][Latest(a) + 1].sc = sc
      /\ \A u \in Threads : u # s => view'[u] = view[u]
      /\ \A c \in Atomics : c # a => view'[s][c] = view[s][c]
      /\ view'[s][a] = Latest(a) + 1
      /\ \A u \in Sides : u # s => sem'[u] = sem[u] /\ spc'[u] = spc[u] /\ i'[u] = i[u]
      /\ Busy(s) /\ Busy(s)' /\ ~Told(s)' /\ ~Posted(s)'
      /\ mpc \in {"begin_b", "wait"} /\ (s = "B" => mpc = "wait")
      /\ \A u \in Sides : ResetDone(u) /\ ResetDone(u)'
      /\ i[s] = round
  <2>1. /\ a \in {Own(s), Register(s)} /\ 1 \in {0, 1} /\ spc[s] \in {"store", "register"}
    BY <1>2
  <2> HIDE DEF a
  <2>2. QED
    BY <1>0, <1>1, <1>2, <2>1, SideStores
<1>4. /\ a \in Atomics /\ Register(s) \in Atomics /\ Other(s) \in Atomics
      /\ Register(s) # a /\ Other(s) # a
      /\ \A u \in Sides : /\ Register(u) # a /\ Register(u) \in Atomics
                          /\ u # s => Own(u) # a /\ Own(u) \in Atomics /\ Other(u) = a
  BY Names DEF Sides, Own, Register, Other
<1>5. a = Own(s)
  OBVIOUS
<1> HIDE DEF a
<1>6. \A u \in Sides : u # s => /\ StoreDone(u)' <=> StoreDone(u)
                                /\ LoadDone(u)' <=> LoadDone(u)
                                /\ RegisterDone(u)' <=> RegisterDone(u)
  BY <1>2, <1>3, OtherSide
<1>7. /\ ~StoreDone(s) /\ StoreDone(s)' /\ ~LoadDone(s) /\ ~LoadDone(s)'
      /\ ~RegisterDone(s) /\ ~RegisterDone(s)'
  BY <1>2, <1>3 DEF StoreDone, LoadDone, RegisterDone
<1>8. Latest(a) = ResetOf(round) /\ Latest(Register(s)) = round + 1
  BY <1>1, <1>3, <1>5, <1>7, MainTypes DEF StoresInv, HowMany, ResetOf
<1>9. StoresInv'
  <2> SUFFICES ASSUME NEW u \in Sides
               PROVE  /\ Latest(Own(u))' = 2 * round + 1 + HowMany(ResetDone(u)') + HowMany(StoreDone(u)')
                      /\ Latest(Register(u))' = round + 1 + HowMany(RegisterDone(u)')
                      /\ StoreDone(u)' =>
                           /\ stores'[Own(u)][ResetOf(round) + 1].val = 1
                           /\ order = "seq_cst" => stores'[Own(u)][ResetOf(round) + 1].sc = TRUE
    BY <1>2 DEF StoresInv, HowMany, ResetOf
  <2>1. CASE u = s
    <3>1. Latest(a)' = 2 * round + 3 /\ Latest(Register(s))' = round + 1
      BY <1>1, <1>3, <1>4, <1>8, MainTypes DEF ResetOf
    <3>2. QED
      <4>1. HowMany(ResetDone(u)') = 1 /\ HowMany(StoreDone(u)') = 1 /\ HowMany(RegisterDone(u)') = 0
        BY <1>3, <1>7, <2>1 DEF HowMany
      <4>2. 2 * round + 3 = 2 * round + 1 + 1 + 1 /\ round + 1 = round + 1 + 0
        BY <1>1, MainTypes
      <4>3. QED
        BY <1>0, <1>3, <1>5, <1>8, <2>1, <3>1, <4>1, <4>2
  <2>2. CASE u # s
    <3>1. stores'[Own(u)] = stores[Own(u)] /\ Latest(Own(u))' = Latest(Own(u))
          /\ Latest(Register(u))' = Latest(Register(u))
      BY <1>3, <1>4, <2>2
    <3>2. /\ Latest(Own(u)) = 2 * round + 1 + HowMany(ResetDone(u)) + HowMany(StoreDone(u))
          /\ Latest(Register(u)) = round + 1 + HowMany(RegisterDone(u))
          /\ StoreDone(u) =>
               /\ stores[Own(u)][ResetOf(round) + 1].val = 1
               /\ order = "seq_cst" => stores[Own(u)][ResetOf(round) + 1].sc = TRUE
      BY <1>1 DEF StoresInv
    <3>3. QED
      BY <1>3, <1>6, <2>2, <3>1, <3>2 DEF HowMany
  <2>3. QED
    BY <2>1, <2>2
<1>10. LoadsInv'
  <2> SUFFICES ASSUME NEW u \in Sides
               PROVE  /\ LoadDone(u)' => loaded[u] \in {ResetOf(round), ResetOf(round) + 1}
                                                       \intersect 1..(Latest(Other(u))')
                      /\ RegisterDone(u)' => stores'[Register(u)][RegisterOf(round)].val
                                                = stores'[Other(u)][loaded[u]].val
    BY <1>2, <1>3 DEF LoadsInv, ResetOf, RegisterOf
  <2>1. CASE u = s
    BY <1>7, <2>1
  <2>2. CASE u # s
    <3>1. Other(u) = a /\ stores'[Register(u)] = stores[Register(u)]
      BY <1>3, <1>4, <2>2
    <3>2. LoadDone(u) => /\ loaded[u] \in {ResetOf(round), ResetOf(round) + 1}
                         /\ loaded[u] \in 1..Latest(a)
      BY <1>1, <3>1 DEF LoadsInv
    <3>3. LoadDone(u) => /\ loaded[u] \in 1..(Latest(a)')
                         /\ stores'[a][loaded[u]] = stores[a][loaded[u]]
      BY <1>3, <3>2
    <3>4. RegisterDone(u) => LoadDone(u)
      BY DEF RegisterDone, LoadDone
    <3>5. RegisterDone(u) => stores[Register(u)][RegisterOf(round)].val = stores[a][loaded[u]].val
      BY <1>1, <3>1 DEF LoadsInv
    <3>6. QED
      BY <1>6, <2>2, <3>1, <3>2, <3>3, <3>4, <3>5
  <2>3. QED
    BY <2>1, <2>2
<1>11. SeqCstInv'
  BY <1>1, <1>2, <1>6, <1>7, SeqCstKept
<1>12. KnowledgeInv'
  <2>1. Knows(view[s], s)'
    <3>1. Knows(view[s], s)
      BY <1>1, <1>3 DEF KnowledgeInv
    <3>2. QED
      BY <1>2, <1>3, <1>4, <1>5, <3>1 DEF Knows, ResetOf
  <2>2. \A u \in Sides : Posted(u) => /\ passed'["done"][Own(u)] = Latest(Own(u))
                                      /\ passed'["done"][Register(u)] = Latest(Register(u))
    BY <1>1, <1>2 DEF KnowledgeInv
  <2>3. QED
    BY <1>1, <1>2, <1>3, <1>4, <2>1, <2>2, SideKeepsKnowledge
<1>13. QED
  BY <1>1, <1>2, <1>3, <1>9, <1>10, <1>11, <1>12 DEF IInv

\* In a round a side loads the other's atomic as reset or as set in this round.
LEMMA LoadableInRound ==
  ASSUME IInv, NEW s \in Sides, Busy(s), NEW sc \in BOOLEAN
  PROVE  /\ Loadable(s, Other(s), sc) \subseteq {ResetOf(round), ResetOf(round) + 1}
         /\ Loadable(s, Other(s), sc) \subseteq 1..Latest(Other(s))
         /\ round \in Nat /\ ResetOf(round) \in Nat
         /\ \A u \in Sides : u # s =>
              Latest(Other(s)) = ResetOf(round) + HowMany(StoreDone(u))
<1>1. TypeOK /\ PhaseInv /\ StoresInv /\ KnowledgeInv
  BY DEF IInv
<1>2. ~Idle(s) /\ ~Posted(s)
  <2>1. i[s] = round /\ spc[s] \in {"store", "load", "register", "post"}
    BY DEF Busy
  <2>2. i[s] # round + 1
    BY <1>1, <2>1, MainTypes
  <2>3. QED
    BY <2>1, <2>2 DEF Idle, Posted
<1>3. \A u \in Sides : ResetDone(u)
  BY <1>1, <1>2, SideAtWork
<1>4. /\ Other(s) \in Atomics /\ Latest(Other(s)) \in Nat /\ view[s][Other(s)] \in Nat \ {0}
      /\ view[s][Other(s)] >= ResetOf(round) /\ round \in Nat /\ ResetOf(round) = 2 * round + 2
  BY <1>1, Names, StoreTypes, ViewTypes, MainTypes DEF KnowledgeInv, Knows, ResetOf
<1>5. ASSUME NEW u \in Sides, u # s
      PROVE  Latest(Other(s)) = ResetOf(round) + HowMany(StoreDone(u))
  <2>1. Latest(Own(u)) = 2 * round + 1 + 1 + HowMany(StoreDone(u))
    BY <1>1, <1>3 DEF StoresInv, HowMany
  <2>2. Other(s) = Own(u)
    BY <1>5, Names
  <2>3. QED
    BY <1>4, <2>1, <2>2 DEF HowMany
<1>6. PICK u \in Sides : u # s
  BY DEF Sides
<1>7. Latest(Other(s)) <= ResetOf(round) + 1
  BY <1>4, <1>5, <1>6 DEF HowMany
<1>8. ASSUME NEW k \in Loadable(s, Other(s), sc)
      PROVE  k \in {ResetOf(round), ResetOf(round) + 1} /\ k \in 1..Latest(Other(s))
  <2>1. k \in view[s][Other(s)]..Latest(Other(s))
    BY <1>8 DEF Loadable
  <2>2. QED
    BY <1>4, <1>7, <2>1
<1>9. QED
  BY <1>4, <1>5, <1>8

LEMMA LoadOtherStep ==
  ASSUME IInv, NEW s \in Sides, NEW k \in DOMAIN stores[Other(s)], LoadOther(s, k)
  PROVE  IInv'
<1>1. TypeOK /\ both_zero <= round /\ PhaseInv /\ ViewsInv /\ StoresInv /\ KnowledgeInv /\ LoadsInv /\ SeqCstInv
  BY DEF IInv
<1>2. /\ spc[s] = "load" /\ spc'[s] = "register" /\ loaded'[s] = k
      /\ \A u \in Sides : u # s => spc'[u] = spc[u] /\ loaded'[u] = loaded[u]
      /\ UNCHANGED <<order, stores, sem, passed, mpc, round, waits, both_zero, i>>
  BY <1>1 DEF LoadOther, mainVars, TypeOK
<1>3. ~Idle(s) /\ ~Posted(s) /\ ~Told(s)
  BY <1>2 DEF Idle, Posted, Told
<1>4. /\ Busy(s) /\ Begun(s) /\ ~Comparing /\ mpc \in {"begin_b", "wait"}
      /\ s = "B" => mpc = "wait"
      /\ \A u \in Sides : ResetDone(u)
      /\ i[s] = round
  BY <1>1, <1>3, SideAtWork
<1>5. PICK sc \in BOOLEAN, acquires \in BOOLEAN :
        /\ k \in Loadable(s, Other(s), sc) /\ Load(s, Other(s), k, acquires)
        /\ order = "seq_cst" => sc = TRUE
  <2>1. CASE order = "seq_cst"
    <3>1. k \in Loadable(s, Other(s), TRUE) /\ Load(s, Other(s), k, TRUE)
      BY <2>1 DEF LoadOther, Loadable, Load
    <3>2. QED
      BY <3>1
  <2>2. CASE order = "acq_rel"
    <3>1. k \in Loadable(s, Other(s), FALSE) /\ Load(s, Other(s), k, TRUE)
      BY <2>2 DEF LoadOther, Loadable, Load
    <3>2. QED
      BY <2>2, <3>1
  <2>3. CASE order = "relaxed"
    <3>1. k \in Loadable(s, Other(s), FALSE) /\ Load(s, Other(s), k, FALSE)
      BY <2>3 DEF LoadOther, Loadable, Load
    <3>2. QED
      BY <2>3, <3>1
  <2>4. QED
    BY <1>1, <2>1, <2>2, <2>3, MainTypes DEF Orders
<1>6. /\ k \in {ResetOf(round), ResetOf(round) + 1} /\ k \in 1..Latest(Other(s))
      /\ round \in Nat /\ ResetOf(round) \in Nat
      /\ \A u \in Sides : u # s => Latest(Other(s)) = ResetOf(round) + HowMany(StoreDone(u))
  BY <1>4, <1>5, LoadableInRound
<1>7. /\ view' \in [Threads -> View] /\ ViewsInv'
      /\ \A c \in Atomics : Latest(c)' = Latest(c)
      /\ \A u \in Threads : u # s => view'[u] = view[u]
      /\ \A c \in Atomics : c # Other(s) => view'[s][c] >= view[s][c]
      /\ view'[s][Other(s)] = k
  <2>1. s \in Threads /\ Other(s) \in Atomics /\ k \in 1..Latest(Other(s)) /\ UNCHANGED <<stores, passed>>
    BY <1>2, <1>6, Names
  <2>2. QED
    BY <1>1, <1>5, <2>1, LoadStep
<1>8. TypeOK'
  <2>1. /\ spc' \in [Sides -> {"wait", "store", "load", "register", "post", "returned"}]
        /\ loaded' \in [Sides -> Nat \ {0}]
    <3>1. k \in Nat \ {0}
      <4>1. Other(s) \in Atomics
        BY Names
      <4>2. Latest(Other(s)) \in Nat
        BY <1>1, <4>1, StoreTypes
      <4>3. k \in 1..Latest(Other(s))
        BY <1>6
      <4>4. QED
        BY <4>2, <4>3
    <3>2. QED
      BY <1>1, <3>1 DEF LoadOther, TypeOK
  <2>2. QED
    BY <1>1, <1>2, <1>7, <2>1 DEF TypeOK
<1>9. Busy(s)' /\ ~Told(s)' /\ ~Posted(s)'
  BY <1>1, <1>2, <1>4, MainTypes DEF Busy, Told, Posted
<1>10. PhaseInv'
  BY <1>1, <1>2, <1>3, <1>4, <1>9, MainTypes, SideKeepsPhases DEF HowMany
<1>11. \A u \in Sides : u # s => /\ StoreDone(u)' <=> StoreDone(u)
                                 /\ LoadDone(u)' <=> LoadDone(u)
                                 /\ RegisterDone(u)' <=> RegisterDone(u)
  BY <1>2, OtherSide
<1>12. /\ StoreDone(s) /\ StoreDone(s)' /\ ~LoadDone(s) /\ LoadDone(s)'
       /\ ~RegisterDone(s) /\ ~RegisterDone(s)'
  BY <1>2, <1>4 DEF StoreDone, LoadDone, RegisterDone
<1>13. StoresInv'
  <2>1. \A u \in Sides : ResetDone(u)' <=> ResetDone(u)
    BY <1>2 DEF ResetDone
  <2>2. QED
    BY <1>1, <1>2, <1>11, <1>12, <2>1, StoresKept
<1>14. LoadsInv'
  <2> SUFFICES ASSUME NEW u \in Sides
               PROVE  /\ LoadDone(u)' => loaded'[u] \in {ResetOf(round), ResetOf(round) + 1}
                                                        \intersect 1..(Latest(Other(u))')
                      /\ RegisterDone(u)' => stores[Register(u)][RegisterOf(round)].val
                                                = stores[Other(u)][loaded'[u]].val
    BY <1>2, <1>4 DEF LoadsInv, ResetOf, RegisterOf
  <2>1. CASE u = s
    BY <1>2, <1>6, <1>7, <1>12, <2>1, Names
  <2>2. CASE u # s
    BY <1>1, <1>2, <1>7, <1>11, <2>2, Names DEF LoadsInv
  <2>3. QED
    BY <2>1, <2>2
<1>15. SeqCstInv'
  <2> SUFFICES ASSUME order = "seq_cst",
                      \A u \in Sides : LoadDone(u)' /\ loaded'[u] = ResetOf(round)
               PROVE  FALSE
    BY <1>1, <1>2 DEF SeqCstInv, ResetOf
  <2>1. PICK u \in Sides : u # s
    BY DEF Sides
  <2>2. StoreDone(u)
    BY <1>11, <2>1 DEF LoadDone, StoreDone
  <2>3. stores[Other(s)][ResetOf(round) + 1].sc = TRUE
    BY <1>1, <2>1, <2>2, Names DEF StoresInv
  <2>4. Latest(Other(s)) = ResetOf(round) + 1
    BY <1>6, <2>1, <2>2 DEF HowMany
  <2>5. k = ResetOf(round)
    BY <1>2
  <2>6. \A later \in (k + 1)..Latest(Other(s)) : ~stores[Other(s)][later].sc
    BY <1>5 DEF Loadable
  <2>7. k + 1 \in (k + 1)..Latest(Other(s))
    BY <1>6, <2>4, <2>5
  <2>8. QED
    BY <2>3, <2>5, <2>6, <2>7
<1>16. KnowledgeInv'
  <2>1. Knows(view[s], s)'
    <3>1. Knows(view[s], s)
      BY <1>1, <1>4 DEF KnowledgeInv
    <3>2. /\ Own(s) \in Atomics /\ Register(s) \in Atomics /\ Other(s) \in Atomics
          /\ Own(s) # Other(s) /\ Register(s) # Other(s) /\ s \in Threads
      BY Names
    <3>3. \A c \in Atomics : view'[s][c] \in Nat /\ view'[s][c] <= Latest(c) /\ Latest(c) \in Nat
      BY <1>1, <1>7, <3>2, StoreTypes DEF View, ViewsInv
    <3>4. view'[s][Own(s)] = Latest(Own(s)) /\ view'[s][Register(s)] = Latest(Register(s))
      BY <1>7, <3>1, <3>2, <3>3 DEF Knows
    <3>5. view'[s][Other(s)] >= ResetOf(round)
      BY <1>6, <1>7
    <3>6. QED
      BY <1>2, <1>7, <3>2, <3>4, <3>5 DEF Knows, ResetOf
  <2>2. \A u \in Sides : Posted(u) => /\ passed'["done"][Own(u)] = Latest(Own(u))
                                      /\ passed'["done"][Register(u)] = Latest(Register(u))
    BY <1>1, <1>2 DEF KnowledgeInv
  <2>3. QED
    BY <1>1, <1>2, <1>4, <1>7, <1>9, <2>1, <2>2, Names, SideKeepsKnowledge
<1>17. QED
  BY <1>1, <1>2, <1>7, <1>8, <1>10, <1>13, <1>14, <1>15, <1>16 DEF IInv

LEMMA StoreRegisterStep ==
  ASSUME IInv, NEW s \in Sides, StoreRegister(s)
  PROVE  IInv'
<1> DEFINE a == Register(s)
           val == stores[Other(s)][loaded[s]].val
<1>1. TypeOK /\ both_zero <= round /\ PhaseInv /\ ViewsInv /\ StoresInv /\ KnowledgeInv /\ LoadsInv /\ SeqCstInv
  BY DEF IInv
<1>2. /\ spc[s] = "register" /\ spc'[s] = "post"
      /\ spc' \in [Sides -> {"wait", "store", "load", "register", "post", "returned"}]
      /\ \A u \in Sides : u # s => spc'[u] = spc[u]
      /\ Store(s, a, val, FALSE, FALSE)
      /\ UNCHANGED <<order, sem, passed, mpc, round, waits, both_zero, i, loaded>>
  BY <1>1 DEF StoreRegister, mainVars, TypeOK
<1>3. val \in {0, 1} /\ loaded[s] \in 1..Latest(Other(s))
  <2>1. LoadDone(s) /\ Other(s) \in Atomics
    BY <1>2, Names DEF LoadDone
  <2>2. loaded[s] \in 1..Latest(Other(s))
    BY <1>1, <2>1 DEF LoadsInv
  <2>3. QED
    BY <1>1, <2>1, <2>2, StoreTypes
<1>4. /\ TypeOK' /\ ViewsInv' /\ PhaseInv'
      /\ \A c \in Atomics : c # a => stores'[c] = stores[c] /\ Latest(c)' = Latest(c)
      /\ Latest(a)' = Latest(a) + 1 /\ Latest(a) \in Nat
      /\ stores'[a][Latest(a) + 1].val = val
      /\ \A u \in Threads : u # s => view'[u] = view[u]
      /\ \A c \in Atomics : c # a => view'[s][c] = view[s][c]
      /\ view'[s][a] = Latest(a) + 1
      /\ \A u \in Sides : u # s => sem'[u] = sem[u] /\ spc'[u] = spc[u] /\ i'[u] = i[u]
      /\ Busy(s) /\ Busy(s)' /\ ~Told(s)' /\ ~Posted(s)'
      /\ mpc \in {"begin_b", "wait"} /\ (s = "B" => mpc = "wait")
      /\ \A u \in Sides : ResetDone(u) /\ ResetDone(u)'
      /\ i[s] = round
  <2>1. /\ a \in {Own(s), Register(s)} /\ FALSE \in BOOLEAN /\ val \in {0, 1}
        /\ spc[s] \in {"store", "register"} /\ spc'[s] \in {"load", "post"}
    BY <1>2, <1>3
  <2>2. TypeOK /\ ViewsInv /\ PhaseInv
    BY <1>1
  <2> HIDE DEF a, val
  <2>3. QED
    BY <1>2, <2>1, <2>2, SideStores, ZenonT(40)
<1>5. /\ a = Register(s) /\ val = stores[Other(s)][loaded[s]].val
      /\ a \in Atomics /\ Own(s) \in Atomics /\ Other(s) \in Atomics
      /\ \A u \in Sides : /\ Own(u) # a /\ Other(u) # a /\ Own(u) \in Atomics /\ Other(u) \in Atomics
                          /\ u # s => Register(u) # a /\ Register(u) \in Atomics
  BY Names DEF Sides, Own, Register, Other
<1> HIDE DEF a, val
<1>6. \A u \in Sides : u # s => /\ StoreDone(u)' <=> StoreDone(u)
                                /\ LoadDone(u)' <=> LoadDone(u)
                                /\ RegisterDone(u)' <=> RegisterDone(u)
  BY <1>2, <1>4, OtherSide
<1>7. /\ StoreDone(s) /\ StoreDone(s)' /\ LoadDone(s) /\ LoadDone(s)'
      /\ ~RegisterDone(s) /\ RegisterDone(s)'
  BY <1>2, <1>4 DEF StoreDone, LoadDone, RegisterDone
<1>8. Latest(a) = round + 1
  BY <1>1, <1>5, <1>7, MainTypes DEF StoresInv, HowMany
<1>9. StoresInv'
  <2> SUFFICES ASSUME NEW u \in Sides
               PROVE  /\ Latest(Own(u))' = 2 * round + 1 + HowMany(ResetDone(u)') + HowMany(StoreDone(u)')
                      /\ Latest(Register(u))' = round + 1 + HowMany(RegisterDone(u)')
                      /\ StoreDone(u)' =>
                           /\ stores'[Own(u)][ResetOf(round) + 1].val = 1
                           /\ order = "seq_cst" => stores'[Own(u)][ResetOf(round) + 1].sc = TRUE
    BY <1>2 DEF StoresInv, HowMany, ResetOf
  <2>1. /\ stores'[Own(u)] = stores[Own(u)] /\ Latest(Own(u))' = Latest(Own(u))
        /\ StoreDone(u)' <=> StoreDone(u)
        /\ ResetDone(u)' <=> ResetDone(u)
    BY <1>4, <1>5, <1>6, <1>7
  <2>2. Latest(Register(u))' = round + 1 + HowMany(RegisterDone(u)')
    <3>1. CASE u = s
      <4>1. HowMany(RegisterDone(u)') = 1
        BY <1>7, <3>1 DEF HowMany
      <4>2. QED
        BY <1>4, <1>5, <1>8, <3>1, <4>1
    <3>2. CASE u # s
      <4>1. Latest(Register(u)) = round + 1 + HowMany(RegisterDone(u))
        BY <1>1 DEF StoresInv
      <4>2. QED
        BY <1>4, <1>5, <1>6, <3>2, <4>1 DEF HowMany
    <3>3. QED
      BY <3>1, <3>2
  <2>3. QED
    BY <1>1, <2>1, <2>2 DEF StoresInv, HowMany
<1>10. LoadsInv'
  <2> SUFFICES ASSUME NEW u \in Sides
               PROVE  /\ LoadDone(u)' => loaded[u] \in {ResetOf(round), ResetOf(round) + 1}
                                                       \intersect 1..(Latest(Other(u))')
                      /\ RegisterDone(u)' => stores'[Register(u)][RegisterOf(round)].val
                                                = stores'[Other(u)][loaded[u]].val
    BY <1>2, <1>4 DEF LoadsInv, ResetOf, RegisterOf
  <2>1. stores'[Other(u)] = stores[Other(u)] /\ Latest(Other(u))' = Latest(Other(u))
    BY <1>4, <1>5
  <2>2. LoadDone(u)' <=> LoadDone(u)
    BY <1>6, <1>7
  <2>3. RegisterDone(u)' => stores'[Register(u)][RegisterOf(round)].val = stores[Other(u)][loaded[u]].val
    <3>1. CASE u = s
      <4>1. RegisterOf(round) = Latest(a) + 1
        BY <1>1, <1>8, MainTypes DEF RegisterOf
      <4>2. QED
        BY <1>4, <1>5, <3>1, <4>1
    <3>2. CASE u # s
      BY <1>1, <1>4, <1>5, <1>6, <3>2 DEF LoadsInv
    <3>3. QED
      BY <3>1, <3>2
  <2>4. QED
    BY <1>1, <2>1, <2>2, <2>3 DEF LoadsInv
<1>11. SeqCstInv'
  BY <1>1, <1>2, <1>6, <1>7, SeqCstKept
<1>12. KnowledgeInv'
  <2>1. Knows(view[s], s)'
    <3>1. Knows(view[s], s)
      BY <1>1, <1>4 DEF KnowledgeInv
    <3>2. QED
      BY <1>2, <1>4, <1>5, <3>1 DEF Knows, ResetOf
  <2>2. \A u \in Sides : Posted(u) => /\ passed'["done"][Own(u)] = Latest(Own(u))
                                      /\ passed'["done"][Register(u)] = Latest(Register(u))
    BY <1>1, <1>2 DEF KnowledgeInv
  <2>3. QED
    BY <1>1, <1>2, <1>4, <1>5, <2>1, <2>2, SideKeepsKnowledge
<1>13. QED
  BY <1>1, <1>2, <1>4, <1>9, <1>10, <1>11, <1>12 DEF IInv

LEMMA PostDoneStep ==
  ASSUME IInv, NEW s \in Sides, PostDone(s)
  PROVE  IInv'
<1>1. TypeOK /\ both_zero <= round /\ PhaseInv /\ ViewsInv /\ StoresInv /\ KnowledgeInv /\ LoadsInv /\ SeqCstInv
  BY DEF IInv
<1>2. /\ spc[s] = "post" /\ spc'[s] = "wait" /\ i'[s] = i[s] + 1
      /\ \A u \in Sides : u # s => spc'[u] = spc[u] /\ i'[u] = i[u]
      /\ sem_post(s, "done")
      /\ UNCHANGED <<order, stores, view, mpc, round, waits, both_zero, loaded>>
  BY <1>1 DEF PostDone, mainVars, TypeOK
<1>3. ~Idle(s) /\ ~Posted(s) /\ ~Told(s)
  BY <1>2 DEF Idle, Posted, Told
<1>4. /\ Busy(s) /\ Begun(s) /\ ~Comparing /\ mpc \in {"begin_b", "wait"}
      /\ s = "B" => mpc = "wait"
      /\ \A u \in Sides : ResetDone(u)
      /\ i[s] = round /\ round < Rounds /\ sem[s] = 0
  BY <1>1, <1>3, SideAtWork DEF Busy
<1>5. /\ passed' \in [Semaphores -> View] /\ ViewsInv'
      /\ \A c \in Atomics : Latest(c)' = Latest(c)
      /\ sem'["done"] = sem["done"] + 1
      /\ \A n \in Semaphores : n # "done" => sem'[n] = sem[n] /\ passed'[n] = passed[n]
      /\ \A c \in Atomics : passed'["done"][c] >= view[s][c] /\ passed'["done"][c] >= passed["done"][c]
  <2>1. s \in Threads /\ "done" \in Semaphores
    BY Names
  <2>2. QED
    BY <1>1, <1>2, <2>1, PostStep
<1>6. sem'["done"] \in 0..2
  <2>1. sem["done"] + waits = HowMany(Posted("A")) + HowMany(Posted("B"))
    BY <1>1, <1>4 DEF PhaseInv
  <2>2. HowMany(Posted("A")) + HowMany(Posted("B")) \in {0, 1}
    BY <1>3 DEF HowMany, Sides
  <2>3. QED
    BY <1>1, <1>5, <2>1, <2>2, MainTypes
<1>7. TypeOK'
  <2>1. sem' \in [Semaphores -> 0..2]
    <3>1. sem' = [sem EXCEPT !["done"] = @ + 1] /\ sem["done"] + 1 \in 0..2
      BY <1>2, <1>5, <1>6 DEF sem_post
    <3>2. QED
      BY <1>1, <3>1, Names DEF TypeOK
  <2>2. /\ spc' \in [Sides -> {"wait", "store", "load", "register", "post", "returned"}]
        /\ i' \in [Sides -> 0..Rounds]
    <3>1. i[s] + 1 \in 0..Rounds
      BY <1>1, <1>4, MainTypes
    <3>2. QED
      BY <1>1, <3>1 DEF PostDone, TypeOK
  <2>3. QED
    BY <1>1, <1>2, <1>5, <2>1, <2>2 DEF TypeOK
<1>8. Posted(s)' /\ ~Told(s)' /\ ~Busy(s)'
  <2>1. sem'[s] = 0
    BY <1>4, <1>5, Names
  <2>2. QED
    BY <1>2, <1>4, <2>1, <1>1, MainTypes DEF Posted, Told, Busy
<1>9. \A u \in Sides : u # s => sem'[u] = sem[u] /\ spc'[u] = spc[u] /\ i'[u] = i[u]
  BY <1>2, <1>5, Names
<1>10. PhaseInv'
  BY <1>1, <1>2, <1>3, <1>4, <1>5, <1>8, <1>9, SideKeepsPhases DEF HowMany
<1>11. StoresInv' /\ LoadsInv' /\ SeqCstInv'
  <2>1. \A u \in Sides : u # s => /\ StoreDone(u)' <=> StoreDone(u)
                                  /\ LoadDone(u)' <=> LoadDone(u)
                                  /\ RegisterDone(u)' <=> RegisterDone(u)
    BY <1>2, <1>9, OtherSide
  <2>2. /\ StoreDone(s) /\ StoreDone(s)' /\ LoadDone(s) /\ LoadDone(s)'
        /\ RegisterDone(s) /\ RegisterDone(s)'
    BY <1>1, <1>2, <1>4, MainTypes DEF StoreDone, LoadDone, RegisterDone
  <2>3. \A u \in Sides : ResetDone(u)' <=> ResetDone(u)
    BY <1>2 DEF ResetDone
  <2>4. QED
    BY <1>1, <1>2, <2>1, <2>2, <2>3, StoresKept, LoadsKept, SeqCstKept
<1>12. KnowledgeInv'
  <2>1. ASSUME NEW c \in Atomics
        PROVE  /\ passed'["done"][c] \in Nat /\ passed'["done"][c] <= Latest(c) /\ Latest(c) \in Nat
               /\ view[s][c] \in Nat /\ passed["done"][c] \in Nat
    <3>1. passed'["done"][c] \in Nat /\ passed'["done"][c] <= Latest(c)
      BY <1>5, Names DEF View, ViewsInv
    <3>2. QED
      BY <1>1, <3>1, StoreTypes, ViewTypes, Names
  <2>2. ASSUME NEW u \in Sides, u # s, Posted(u)
        PROVE  /\ passed'["done"][Own(u)] = Latest(Own(u))
               /\ passed'["done"][Register(u)] = Latest(Register(u))
    <3>1. /\ passed["done"][Own(u)] = Latest(Own(u)) /\ passed["done"][Register(u)] = Latest(Register(u))
          /\ Own(u) \in Atomics /\ Register(u) \in Atomics
      BY <1>1, <2>2, Names DEF KnowledgeInv
    <3>2. QED
      BY <1>5, <2>1, <3>1
  <2>3. /\ passed'["done"][Own(s)] = Latest(Own(s))'
        /\ passed'["done"][Register(s)] = Latest(Register(s))'
    <3>1. /\ view[s][Own(s)] = Latest(Own(s)) /\ view[s][Register(s)] = Latest(Register(s))
          /\ Own(s) \in Atomics /\ Register(s) \in Atomics
      BY <1>1, <1>4, Names DEF KnowledgeInv, Knows
    <3>2. QED
      BY <1>5, <2>1, <3>1
  <2>4. \A u \in Sides : passed'[u] = passed[u] /\ (u # s => /\ Latest(Own(u))' = Latest(Own(u))
                                                             /\ Latest(Register(u))' = Latest(Register(u)))
    BY <1>5, Names
  <2>5. QED
    BY <1>1, <1>2, <1>4, <1>8, <1>9, <2>2, <2>3, <2>4, SideKeepsKnowledge
<1>13. QED
  BY <1>1, <1>2, <1>5, <1>7, <1>10, <1>11, <1>12 DEF IInv

LEMMA ReturnStep ==
  ASSUME IInv, NEW s \in Sides, Return(s)
  PROVE  IInv'
<1>1. TypeOK /\ both_zero <= round /\ PhaseInv /\ ViewsInv /\ StoresInv /\ KnowledgeInv /\ LoadsInv /\ SeqCstInv
  BY DEF IInv
<1>2. /\ spc[s] = "wait" /\ i[s] = Rounds /\ spc'[s] = "returned"
      /\ \A u \in Sides : u # s => spc'[u] = spc[u]
      /\ UNCHANGED <<order, stores, view, sem, passed, mpc, round, waits, both_zero, i, loaded>>
  BY <1>1 DEF Return, mainVars, TypeOK
<1>3. TypeOK' /\ ViewsInv'
  <2>1. spc' \in [Sides -> {"wait", "store", "load", "register", "post", "returned"}]
    BY <1>1 DEF Return, TypeOK
  <2>2. QED
    BY <1>1, <1>2, <2>1 DEF TypeOK, ViewsInv, Latest
<1>4. ~Told(s)
  <2>1. ASSUME Told(s) PROVE FALSE
    <3>1. i[s] = round /\ ~Idle(s) /\ ~Posted(s)
      BY <1>1, <2>1, MainTypes DEF Told, Idle, Posted
    <3>2. round < Rounds
      BY <1>1, <3>1, SideAtWork
    <3>3. QED
      BY <1>1, <1>2, <3>1, <3>2, MainTypes
  <2>2. QED
    BY <2>1
<1>5. \A u \in Sides : /\ Told(u)' <=> Told(u)
                       /\ Busy(u)' <=> Busy(u)
                       /\ Posted(u)' <=> Posted(u)
                       /\ Idle(u)' <=> Idle(u)
                       /\ Begun(u)' <=> Begun(u)
  <2> SUFFICES ASSUME NEW u \in Sides
               PROVE  /\ Told(u)' <=> Told(u)
                      /\ Busy(u)' <=> Busy(u)
                      /\ Posted(u)' <=> Posted(u)
                      /\ Idle(u)' <=> Idle(u)
                      /\ Begun(u)' <=> Begun(u)
    OBVIOUS
  <2>1. CASE u = s
    BY <1>2, <1>4, <2>1 DEF Told, Busy, Posted, Idle, Begun, Comparing
  <2>2. CASE u # s
    BY <1>2, <2>2 DEF Told, Busy, Posted, Idle, Begun, Comparing
  <2>3. QED
    BY <2>1, <2>2
<1>6. \A u \in Sides : /\ ResetDone(u)' <=> ResetDone(u)
                       /\ StoreDone(u)' <=> StoreDone(u)
                       /\ LoadDone(u)' <=> LoadDone(u)
                       /\ RegisterDone(u)' <=> RegisterDone(u)
  <2> SUFFICES ASSUME NEW u \in Sides
               PROVE  /\ ResetDone(u)' <=> ResetDone(u)
                      /\ StoreDone(u)' <=> StoreDone(u)
                      /\ LoadDone(u)' <=> LoadDone(u)
                      /\ RegisterDone(u)' <=> RegisterDone(u)
    OBVIOUS
  <2>1. CASE u = s
    BY <1>2, <2>1 DEF ResetDone, StoreDone, LoadDone, RegisterDone
  <2>2. CASE u # s
    BY <1>2, <2>2 DEF ResetDone, StoreDone, LoadDone, RegisterDone
  <2>3. QED
    BY <2>1, <2>2
<1>7. PhaseInv'
  <2>1. /\ Comparing' <=> Comparing
        /\ Posted("A")' <=> Posted("A")
        /\ Posted("B")' <=> Posted("B")
    BY <1>2, <1>5 DEF Comparing, Sides
  <2>2. \A u \in Sides : spc'[u] = "returned" => i'[u] = Rounds
    BY <1>1, <1>2 DEF PhaseInv
  <2>3. QED
    BY <1>1, <1>2, <1>5, <2>1, <2>2 DEF PhaseInv, HowMany
<1>8. StoresInv' /\ LoadsInv' /\ SeqCstInv'
  BY <1>1, <1>2, <1>6, StoresKept, LoadsKept, SeqCstKept
<1>9. KnowledgeInv'
  <2>1. \A a : Latest(a)' = Latest(a)
    BY <1>2 DEF Latest
  <2>2. QED
    BY <1>1, <1>2, <1>5, <2>1 DEF KnowledgeInv, Knows, ResetOf
<1>10. QED
  BY <1>1, <1>2, <1>3, <1>7, <1>8, <1>9 DEF IInv

---------------------------------------------------------------------------
(* The invariant, and what it means for the program.                       *)

LEMMA InitInvariant == Init => IInv
<1> SUFFICES ASSUME Init PROVE IInv
  OBVIOUS
<1> DEFINE first == [val |-> 0, view |-> NoView, sc |-> FALSE]
<1>1. NoView \in View /\ \A a \in Atomics : NoView[a] = 1
  BY DEF NoView, View
<1>2. first \in StoreRecord /\ first.view = NoView
  BY <1>1 DEF StoreRecord
<1>3. \A a \in Atomics : stores[a] = <<first>>
  BY DEF Init
<1> HIDE DEF first
<1>4. /\ <<first>> \in Seq(StoreRecord) /\ Len(<<first>>) = 1 /\ <<first>>[1] = first
  BY <1>2
<1>5. \A a \in Atomics : Latest(a) = 1 /\ stores[a][1] = first
  BY <1>3, <1>4 DEF Latest
<1>6. /\ view = [t \in Threads |-> NoView] /\ passed = [m \in Semaphores |-> NoView]
      /\ sem = [m \in Semaphores |-> 0] /\ mpc = "reset_x" /\ round = 0 /\ waits = 0
      /\ both_zero = 0 /\ order \in Orders
      /\ spc = [s \in Sides |-> "wait"] /\ i = [s \in Sides |-> 0] /\ loaded = [s \in Sides |-> 1]
      /\ stores = [a \in Atomics |-> <<first>>]
  BY DEF Init, first
<1>7. TypeOK
  BY <1>1, <1>4, <1>6, RoundsAssumption DEF TypeOK
<1>8. /\ \A u \in Sides : /\ Idle(u) /\ ~Begun(u) /\ ~Told(u) /\ ~Busy(u) /\ ~Posted(u)
                          /\ ~ResetDone(u) /\ ~StoreDone(u) /\ ~LoadDone(u) /\ ~RegisterDone(u)
      /\ ~Comparing /\ "A" \in Sides /\ "B" \in Sides
  <2>1. \A u \in Sides : i[u] = 0 /\ spc[u] = "wait" /\ sem[u] = 0
    BY <1>6, Names
  <2>2. \A u \in Sides : Idle(u) /\ ~Told(u) /\ ~Busy(u) /\ ~Posted(u)
    BY <1>6, <2>1 DEF Idle, Told, Busy, Posted
  <2>3. \A u \in Sides : ~ResetDone(u) /\ ~StoreDone(u) /\ ~LoadDone(u) /\ ~RegisterDone(u)
    BY <1>6, <2>1 DEF ResetDone, StoreDone, LoadDone, RegisterDone
  <2>4. ~Comparing /\ \A u \in Sides : ~Begun(u)
    BY <1>6 DEF Comparing, Begun
  <2>5. QED
    BY <2>2, <2>3, <2>4 DEF Sides
<1>9. PhaseInv
  <2>1. \A u \in Sides : spc[u] # "returned"
    BY <1>6
  <2>2. sem["done"] = 0
    BY <1>6, Names
  <2>3. QED
    BY <1>6, <1>8, <2>1, <2>2 DEF PhaseInv, HowMany
<1>10. ViewsInv
  BY <1>1, <1>2, <1>5, <1>6 DEF ViewsInv
<1>11. StoresInv
  BY <1>5, <1>6, <1>8, Names DEF StoresInv, HowMany
<1>12. KnowledgeInv
  BY <1>1, <1>5, <1>6, <1>8, Names DEF KnowledgeInv
<1>13. LoadsInv /\ SeqCstInv
  BY <1>6, <1>8 DEF LoadsInv, SeqCstInv
<1>14. QED
  BY <1>6, <1>7, <1>9, <1>10, <1>11, <1>12, <1>13 DEF IInv

LEMMA NextInvariant == IInv /\ [Next]_vars => IInv'
<1> SUFFICES ASSUME IInv, [Next]_vars PROVE IInv'
  OBVIOUS
<1>1. ASSUME Main PROVE IInv'
  <2>1. CASE Reset("reset_x", "x", "reset_y")
    <3>1. "A" \in Sides /\ Own("A") = "x"
      BY DEF Sides, Own
    <3>2. QED
      BY <2>1, <3>1, ResetStep
  <2>2. CASE Reset("reset_y", "y", "begin_a")
    <3>1. "B" \in Sides /\ Own("B") = "y"
      BY DEF Sides, Own
    <3>2. QED
      BY <2>2, <3>1, ResetStep
  <2>3. CASE Begin("begin_a", "A", "begin_b")
    BY <2>3, BeginStep DEF Sides
  <2>4. CASE Begin("begin_b", "B", "wait")
    BY <2>4, BeginStep DEF Sides
  <2>5. CASE WaitDone
    BY <2>5, WaitDoneStep
  <2>6. \A a \in Atomics : \A k \in DOMAIN stores[a] : k \in Nat
    BY DEF IInv, TypeOK
  <2>7. ASSUME NEW k \in DOMAIN stores["r1"], LoadR1(k) PROVE IInv'
    BY <2>6, <2>7, LoadR1Step DEF Atomics
  <2>8. ASSUME NEW k \in DOMAIN stores["r2"], LoadR2(k) PROVE IInv'
    BY <2>6, <2>8, LoadR2Step DEF Atomics
  <2>9. CASE Joins
    BY <2>9, JoinsStep
  <2>10. QED
    BY <1>1, <2>1, <2>2, <2>3, <2>4, <2>5, <2>7, <2>8, <2>9 DEF Main
<1>2. ASSUME NEW s \in Sides, Side(s) PROVE IInv'
  BY <1>2, WaitBeginStep, StoreOwnStep, LoadOtherStep, StoreRegisterStep, PostDoneStep, ReturnStep
     DEF Side
<1>3. ASSUME UNCHANGED vars PROVE IInv'
  <2>1. UNCHANGED <<order, stores, view, sem, passed, mpc, round, waits, both_zero, spc, i, loaded>>
    BY <1>3 DEF vars, mainVars, sideVars
  <2>2. TypeOK' <=> TypeOK
    BY <2>1 DEF TypeOK
  <2>3. PhaseInv' <=> PhaseInv
    BY <2>1 DEF PhaseInv, Idle, Told, Busy, Posted, Begun, Comparing
  <2>4. \A a : Latest(a)' = Latest(a)
    BY <2>1 DEF Latest
  <2>5. ViewsInv' <=> ViewsInv
    BY <2>1, <2>4 DEF ViewsInv
  <2>6. /\ StoresInv' <=> StoresInv
        /\ LoadsInv' <=> LoadsInv
        /\ SeqCstInv' <=> SeqCstInv
    BY <2>1, <2>4 DEF StoresInv, LoadsInv, SeqCstInv, ResetDone, StoreDone, LoadDone,
                      RegisterDone, ResetOf, RegisterOf
  <2>7. KnowledgeInv' <=> KnowledgeInv
    BY <2>1, <2>4 DEF KnowledgeInv, Knows, Told, Busy, Posted, ResetOf
  <2>8. QED
    BY <2>1, <2>2, <2>3, <2>5, <2>6, <2>7 DEF IInv
<1>4. QED
  BY <1>1, <1>2, <1>3 DEF Next, Joined

LEMMA Invariant == Spec => []IInv
BY InitInvariant, NextInvariant, PTL DEF Spec

\* What main() compares is what the sides stored in this round.
LEMMA OneRegister ==
  ASSUME IInv, Comparing, NEW s \in Sides
  PROVE  Loadable("main", Register(s), FALSE) = {RegisterOf(round)}
<1>1. TypeOK /\ PhaseInv /\ StoresInv /\ KnowledgeInv
  BY DEF IInv
<1>2. Latest(Register(s)) = RegisterOf(round)
  <2>1. Posted(s) /\ RegisterDone(s)
    BY <1>1, MainTypes DEF PhaseInv, Posted, RegisterDone
  <2>2. QED
    BY <1>1, <2>1, MainTypes DEF StoresInv, HowMany, RegisterOf
<1>3. view["main"][Register(s)] = RegisterOf(round)
  BY <1>1, <1>2, Names DEF KnowledgeInv, Comparing
<1>4. RegisterOf(round) \in Int
  BY <1>1, MainTypes DEF RegisterOf
<1>5. QED
  BY <1>2, <1>3, <1>4 DEF Loadable

\* The semaphores keep the rounds of run_litmus() apart under every memory order:
\* a side only loads what its round stored or reset, main() only compares the two
\* registers of its own round.
THEOREM RoundsNeverMix == Spec => []RoundsApart
<1>1. IInv => RoundsApart
  <2> SUFFICES ASSUME IInv PROVE RoundsApart
    OBVIOUS
  <2>1. TypeOK /\ PhaseInv /\ KnowledgeInv
    BY DEF IInv
  <2>2. ASSUME NEW s \in Sides, spc[s] \in {"store", "load", "register"} PROVE Busy(s) /\ i[s] = round
    <3>1. ~Idle(s) /\ ~Posted(s) /\ ~Told(s)
      BY <2>2 DEF Idle, Posted, Told
    <3>2. QED
      BY <2>1, <3>1, SideAtWork
  <2>3. StoresOrdered
    <3>1. /\ mpc = "reset_x" => view["main"]["x"] = Latest("x")
          /\ mpc = "reset_y" => view["main"]["y"] = Latest("y")
      BY <2>1 DEF KnowledgeInv, Atomics
    <3>2. \A s \in Sides : spc[s] \in {"store", "register"} =>
            view[s][Own(s)] = Latest(Own(s)) /\ view[s][Register(s)] = Latest(Register(s))
      BY <2>1, <2>2 DEF KnowledgeInv, Knows
    <3>3. QED
      BY <3>1, <3>2 DEF StoresOrdered
  <2>4. ASSUME NEW s \in Sides, spc[s] = "load"
        PROVE  Loadable(s, Other(s), FALSE) \subseteq {ResetOf(i[s]), ResetOf(i[s]) + 1}
    <3>1. Busy(s) /\ i[s] = round
      BY <2>2, <2>4
    <3>2. QED
      BY <3>1, LoadableInRound
  <2>5. ASSUME Comparing, NEW r \in {"r1", "r2"} PROVE Loadable("main", r, FALSE) = {RegisterOf(round)}
    <3>1. PICK s \in Sides : r = Register(s)
      BY <2>5 DEF Sides, Register
    <3>2. QED
      BY <2>5, <3>1, OneRegister
  <2>6. QED
    BY <2>1, <2>3, <2>4, <2>5 DEF RoundsApart, Comparing
<1>2. QED
  BY <1>1, Invariant, PTL

\* With memory_order_seq_cst no round of run_litmus() ends with both registers 0,
\* however many rounds there are.
THEOREM SeqCstForbidsBothZero == Spec => []SeqCstExact
<1>1. IInv => SeqCstExact
  BY DEF IInv, SeqCstInv, SeqCstExact
<1>2. QED
  BY <1>1, Invariant, PTL

---------------------------------------------------------------------------
(* Nobody waits for ever on one another.                                   *)

\* A thread can do nothing until another has done something.
MainHeldUp ==
  \/ mpc = "wait" /\ sem["done"] = 0
  \/ mpc = "reset_x" /\ ~MoreRounds /\ \E s \in Sides : spc[s] # "returned"
SideHeldUp(s) ==
  \/ spc[s] = "returned"
  \/ spc[s] = "wait" /\ i[s] < Rounds /\ sem[s] = 0

\* Until main() has joined the sides one of the three threads is not held up,
\* and one that loads finds something to load.
SomebodyGoesOn ==
  /\ mpc = "joined" \/ ~MainHeldUp \/ \E s \in Sides : ~SideHeldUp(s)
  /\ \A t \in Threads : \A a \in Atomics : \A sc \in BOOLEAN : Loadable(t, a, sc) # {}

\* The three semaphores never stand against one another: there is a post for
\* every wait that is to come, in every round.
THEOREM NoDeadlock == Spec => []SomebodyGoesOn
<1>1. IInv => SomebodyGoesOn
  <2> SUFFICES ASSUME IInv PROVE SomebodyGoesOn
    OBVIOUS
  <2>1. TypeOK /\ PhaseInv /\ ViewsInv
    BY DEF IInv
  <2>2. /\ waits \in {0, 1} /\ sem["done"] \in 0..2 /\ round \in 0..Rounds
        /\ Rounds \in Nat
    BY <2>1, RoundsAssumption DEF TypeOK, Semaphores
  <2>3. ASSUME MainHeldUp, \A s \in Sides : SideHeldUp(s), mpc # "joined" PROVE FALSE
    <3>1. CASE mpc = "wait"
      <4>1. sem["done"] = 0 /\ round < Rounds
        BY <2>1, <2>3, <3>1 DEF MainHeldUp, PhaseInv
      <4>2. ASSUME NEW s \in Sides PROVE Posted(s)
        <5>1. Told(s) \/ Busy(s) \/ Posted(s)
          BY <2>1, <3>1 DEF PhaseInv, Begun
        <5>2. ~Told(s) /\ ~Busy(s)
          BY <2>3, <4>1 DEF SideHeldUp, Told, Busy
        <5>3. QED
          BY <5>1, <5>2
      <4>3. Posted("A") /\ Posted("B")
        BY <4>2 DEF Sides
      <4>4. sem["done"] + waits = 2
        BY <2>1, <3>1, <4>3 DEF PhaseInv, HowMany, Comparing
      <4>5. QED
        BY <2>2, <4>1, <4>4
    <3>2. CASE mpc = "reset_x" /\ ~MoreRounds
      <4>1. PICK s \in Sides : spc[s] # "returned"
        BY <2>3, <3>2 DEF MainHeldUp
      <4>2. Idle(s) /\ round = Rounds
        BY <2>1, <2>2, <3>2 DEF PhaseInv, Begun, Comparing, MoreRounds
      <4>3. QED
        BY <2>2, <2>3, <4>1, <4>2 DEF SideHeldUp, Idle
    <3>3. QED
      BY <2>3, <3>1, <3>2 DEF MainHeldUp
  <2>4. ASSUME NEW t \in Threads, NEW a \in Atomics, NEW sc \in BOOLEAN
        PROVE  Loadable(t, a, sc) # {}
    <3>1. Latest(a) \in Nat /\ view[t][a] \in Nat \ {0} /\ view[t][a] <= Latest(a)
      BY <2>1, StoreTypes, ViewTypes DEF ViewsInv
    <3>2. Latest(a) \in Loadable(t, a, sc)
      BY <3>1 DEF Loadable
    <3>3. QED
      BY <3>2
  <2>5. QED
    BY <2>3, <2>4 DEF SomebodyGoesOn
<1>2. QED
  BY <1>1, Invariant, PTL

\* When main() has joined both sides every round was run and every post was
\* waited for.
Settled ==
  mpc = "joined" => /\ round = Rounds
                    /\ \A s \in Sides : spc[s] = "returned"
                    /\ \A m \in Semaphores : sem[m] = 0

\* No post is left over, for a later call of run_litmus() to find.
THEOREM NoPostLeft == Spec => []Settled
<1> DEFINE AllIn == mpc = "joined" => ~MoreRounds /\ \A s \in Sides : spc[s] = "returned"
<1>1. Init => AllIn
  BY DEF Init
<1>2. AllIn /\ [Next]_vars => AllIn'
  <2> SUFFICES ASSUME AllIn, [Next]_vars, mpc' = "joined"
               PROVE  (~MoreRounds)' /\ \A s \in Sides : spc'[s] = "returned"
    OBVIOUS
  <2>1. CASE Main
    <3>1. Joins
      BY <2>1 DEF Main, Reset, Begin, WaitDone, LoadR1, LoadR2
    <3>2. QED
      BY <3>1 DEF Joins, MoreRounds, sideVars
  <2>2. ASSUME NEW s \in Sides, Side(s) PROVE FALSE
    <3>1. mpc = "joined" /\ spc[s] # "returned"
      BY <2>2 DEF Side, WaitBegin, StoreOwn, LoadOther, StoreRegister, PostDone, Return, mainVars
    <3>2. QED
      BY <3>1
  <2>3. CASE UNCHANGED vars
    BY <2>3 DEF vars, mainVars, sideVars, MoreRounds
  <2>4. QED
    BY <2>1, <2>2, <2>3 DEF Next, Joined
<1>3. IInv /\ AllIn => Settled
  <2> SUFFICES ASSUME IInv, AllIn, mpc = "joined" PROVE Settled
    BY DEF Settled
  <2>1. TypeOK /\ PhaseInv
    BY DEF IInv
  <2>2. round \in 0..Rounds /\ Rounds \in Nat /\ sem["done"] \in 0..2
    BY <2>1, RoundsAssumption DEF TypeOK, Semaphores
  <2>3. \A s \in Sides : Idle(s)
    BY <2>1 DEF PhaseInv, Begun, Comparing
  <2>4. ~Posted("A") /\ ~Posted("B")
    BY <2>2, <2>3 DEF Idle, Posted, Sides
  <2>5. sem["done"] + waits = 0 /\ waits = 0
    BY <2>1, <2>4 DEF PhaseInv, HowMany, Comparing
  <2>6. \A m \in Semaphores : sem[m] = 0
    BY <2>2, <2>3, <2>5 DEF Idle, Semaphores, Sides
  <2>7. round = Rounds
    BY <2>2 DEF MoreRounds
  <2>8. QED
    BY <2>6, <2>7 DEF Settled
<1> HIDE DEF AllIn
<1>4. QED
  BY <1>1, <1>2, <1>3, Invariant, PTL DEF Spec

=============================================================================
