----------------------------- MODULE PoolProofs -----------------------------
(***************************************************************************)
(* Proofs about the two pools, for every number of slots and any nesting   *)
(* of calls: the invariant of each, that each is an object pool, and that  *)
(* under the same calls they give out the same slots.                      *)
(*                                                                         *)
(* For G1's the argument rests on `chain', the free slots in the order of  *)
(* the list.  ListInv says that the links agree with it; an allocation     *)
(* then takes its last element and a deallocation appends one, as on a     *)
(* stack.  G2's has that stack; that it never runs over is a matter of     *)
(* counting (RoomForOne).                                                  *)
(***************************************************************************)
EXTENDS Pools, FiniteSetTheorems, SequenceTheorems, TLAPS

\* What popping a sequence leaves.
LEMMA PopSeq ==
  ASSUME NEW S, NEW s \in Seq(S), s # << >>
  PROVE  LET t == SubSeq(s, 1, Len(s) - 1) IN
         /\ Len(s) \in Nat \ {0}
         /\ t \in Seq(S)
         /\ Len(t) = Len(s) - 1
         /\ \A k \in 1..(Len(s) - 1) : t[k] = s[k]
<1>1. Len(s) \in Nat \ {0}
  OBVIOUS
<1>2. Len(s) - 1 \in Int /\ \A i \in 1..(Len(s) - 1) : s[i] \in S
  BY <1>1
<1> DEFINE t == SubSeq(s, 1, Len(s) - 1)
<1>3. /\ t \in Seq(S)
      /\ Len(t) = IF 1 <= Len(s) - 1 THEN Len(s) - 1 - 1 + 1 ELSE 0
      /\ \A i \in 1..(Len(s) - 1 - 1 + 1) : t[i] = s[1 + i - 1]
  BY <1>2, SubSeqProperties
<1> HIDE DEF t
<1>4. Len(t) = Len(s) - 1
  <2>1. \A n \in Nat \ {0} : (IF 1 <= n - 1 THEN n - 1 - 1 + 1 ELSE 0) = n - 1
    OBVIOUS
  <2>2. QED
    BY <1>1, <1>3, <2>1
<1>5. \A k \in 1..(Len(s) - 1) : t[k] = s[k]
  <2> SUFFICES ASSUME NEW k \in 1..(Len(s) - 1)
               PROVE  t[k] = s[k]
    OBVIOUS
  <2>1. k \in 1..(Len(s) - 1 - 1 + 1) /\ 1 + k - 1 = k
    BY <1>1
  <2>2. t[k] = s[1 + k - 1]
    BY <1>3, <2>1
  <2>3. QED
    BY <2>1, <2>2
<1>6. QED
  BY <1>1, <1>3, <1>4, <1>5 DEF t

\* What appending to one gives.
LEMMA PushSeq ==
  ASSUME NEW S, NEW s \in Seq(S), NEW x \in S
  PROVE  LET t == Append(s, x) IN
         /\ Len(s) \in Nat
         /\ t \in Seq(S)
         /\ Len(t) = Len(s) + 1
         /\ \A k \in 1..Len(s) : t[k] = s[k]
         /\ t[Len(s) + 1] = x
  OBVIOUS

-----------------------------------------------------------------------------
(* The call stack, which both pools have: ob, cs and en are the objects, the *)
(* calls and the end of either.                                              *)

Lives(ob, cs, en) ==
  /\ ob \in [Slots -> {"none", "building", "alive", "dying"}]
  /\ cs \in Seq(Frame)
  /\ en \in BOOLEAN

During(name) == IF name = "allocate" THEN "building" ELSE "dying"

Matched(ob, cs, en) ==
  /\ \A j, k \in 1..Len(cs) : cs[j].slot = cs[k].slot => j = k
  /\ \A k \in 1..Len(cs) : ob[cs[k].slot] = During(cs[k].op)
  /\ \A i \in Slots :
       ob[i] \in {"building", "dying"} => \E k \in 1..Len(cs) : cs[k].slot = i
  /\ en => cs = << >>

\* The call of name begins on slot i, which no other call works on.
Begins(ob, cs, ob2, cs2, name, i) ==
  /\ ob[i] \notin {"building", "dying"}
  /\ ob2 = [ob EXCEPT ![i] = During(name)]
  /\ cs2 = Append(cs, [op |-> name, slot |-> i])

\* The innermost call ends.
Ends(ob, cs, ob2, cs2, outcome) ==
  /\ cs # << >>
  /\ ob2 = [ob EXCEPT ![cs[Len(cs)].slot] = outcome]
  /\ cs2 = SubSeq(cs, 1, Len(cs) - 1)

\* Every call in progress works on a slot.
LEMMA StackSlots ==
  ASSUME NEW ob, NEW cs, NEW en, Lives(ob, cs, en)
  PROVE  /\ Len(cs) \in Nat
         /\ \A k \in 1..Len(cs) : cs[k] \in Frame /\ cs[k].slot \in Slots
<1>1. \A f \in Frame : f.slot \in Slots
  BY DEF Frame
<1>2. \A k \in 1..Len(cs) : cs[k] \in Frame
  BY DEF Lives
<1>3. Len(cs) \in Nat
  BY DEF Lives
<1>4. QED
  BY <1>1, <1>2, <1>3

\* The innermost call works on a slot of its own.
LEMMA InnermostCall ==
  ASSUME NEW ob, NEW cs, NEW en, Lives(ob, cs, en), Matched(ob, cs, en), cs # << >>
  PROVE  /\ Len(cs) \in Nat \ {0}
         /\ cs[Len(cs)].slot \in Slots
         /\ ob[cs[Len(cs)].slot] = During(cs[Len(cs)].op)
         /\ ~en
         /\ \A k \in 1..(Len(cs) - 1) : cs[k].slot # cs[Len(cs)].slot
<1>1. Len(cs) \in Nat \ {0}
  BY DEF Lives
<1>2. Len(cs) \in 1..Len(cs) /\ \A k \in 1..(Len(cs) - 1) : k \in 1..Len(cs) /\ k # Len(cs)
  BY <1>1
<1>3. QED
  BY <1>1, <1>2, StackSlots DEF Matched

\* A call begins on a slot that no other call works on.
LEMMA CallBegun ==
  ASSUME NEW ob, NEW cs, NEW en, Lives(ob, cs, en), Matched(ob, cs, en), ~en,
         NEW name \in {"allocate", "deallocate"}, NEW i \in Slots,
         NEW ob2, NEW cs2, Begins(ob, cs, ob2, cs2, name, i)
  PROVE  Lives(ob2, cs2, en) /\ Matched(ob2, cs2, en)
<1> DEFINE f == [op |-> name, slot |-> i]
<1>1. f \in Frame /\ f.op = name /\ f.slot = i
  BY DEF Frame
<1>2. cs2 = Append(cs, f) /\ ob2 = [ob EXCEPT ![i] = During(name)]
  BY DEF Begins
<1> HIDE DEF f
<1>4. /\ Len(cs) \in Nat
      /\ cs2 \in Seq(Frame)
      /\ Len(cs2) = Len(cs) + 1
      /\ \A k \in 1..Len(cs) : cs2[k] = cs[k]
      /\ cs2[Len(cs) + 1] = f
  BY <1>1, <1>2, PushSeq DEF Lives
<1>5. \A k \in 1..Len(cs) : cs[k] \in Frame /\ cs[k].slot \in Slots /\ cs[k].slot # i
  BY StackSlots DEF Matched, During, Begins
<1>6. /\ During(name) \in {"building", "dying"}
      /\ ob2[i] = During(name)
      /\ \A j \in Slots : j # i => ob2[j] = ob[j]
  BY <1>2 DEF During, Lives
<1>7. Lives(ob2, cs2, en)
  BY <1>2, <1>4, <1>6 DEF Lives
<1>8. \A k \in 1..Len(cs2) : k \in 1..Len(cs) \/ k = Len(cs) + 1
  BY <1>4
<1>9. \A j, k \in 1..Len(cs2) : cs2[j].slot = cs2[k].slot => j = k
  BY <1>1, <1>4, <1>5, <1>8 DEF Matched
<1>10. \A k \in 1..Len(cs2) : ob2[cs2[k].slot] = During(cs2[k].op)
  BY <1>1, <1>4, <1>5, <1>6, <1>8 DEF Matched
<1>11. ASSUME NEW j \in Slots, ob2[j] \in {"building", "dying"}
       PROVE  \E k \in 1..Len(cs2) : cs2[k].slot = j
  <2>1. CASE j = i
    <3>1. Len(cs) + 1 \in 1..Len(cs2)
      BY <1>4
    <3>2. QED
      BY <2>1, <3>1, <1>1, <1>4
  <2>2. CASE j # i
    <3>1. PICK k \in 1..Len(cs) : cs[k].slot = j
      BY <1>6, <1>11, <2>2 DEF Matched
    <3>2. k \in 1..Len(cs2)
      BY <1>4
    <3>3. QED
      BY <3>1, <3>2, <1>4
  <2>3. QED
    BY <2>1, <2>2
<1>12. QED
  BY <1>7, <1>9, <1>10, <1>11 DEF Matched

\* A call ends, and with it the building or the dying of its object.
LEMMA CallEnded ==
  ASSUME NEW ob, NEW cs, NEW en, Lives(ob, cs, en), Matched(ob, cs, en),
         NEW outcome \in {"none", "alive"},
         NEW ob2, NEW cs2, Ends(ob, cs, ob2, cs2, outcome)
  PROVE  Lives(ob2, cs2, en) /\ Matched(ob2, cs2, en)
<1> DEFINE s == cs[Len(cs)].slot
<1>0. cs # << >> /\ ob2 = [ob EXCEPT ![s] = outcome] /\ cs2 = SubSeq(cs, 1, Len(cs) - 1)
  BY DEF Ends
<1>1. /\ Len(cs) \in Nat \ {0}
      /\ s \in Slots
      /\ ~en
      /\ \A k \in 1..(Len(cs) - 1) : cs[k].slot # s
  BY <1>0, InnermostCall
<1>2. /\ cs2 \in Seq(Frame)
      /\ Len(cs2) = Len(cs) - 1
      /\ \A k \in 1..(Len(cs) - 1) : cs2[k] = cs[k]
  BY <1>0, PopSeq DEF Lives
<1>3. \A k \in 1..Len(cs) : cs[k].slot \in Slots
  BY StackSlots
<1>4. \A k \in 1..Len(cs2) : k \in 1..Len(cs) /\ k \in 1..(Len(cs) - 1)
  BY <1>1, <1>2
<1>5. \A k \in 1..Len(cs) : k # Len(cs) => k \in 1..(Len(cs) - 1) /\ k \in 1..Len(cs2)
  BY <1>1, <1>2
<1>6. \A k \in 1..Len(cs) : cs[k].slot # s => k # Len(cs)
  OBVIOUS
<1> HIDE DEF s
<1>7. ob2[s] = outcome /\ \A j \in Slots : j # s => ob2[j] = ob[j]
  BY <1>0, <1>1 DEF Lives
<1>8. Lives(ob2, cs2, en)
  BY <1>0, <1>1, <1>2 DEF Lives
<1>9. \A j, k \in 1..Len(cs2) : cs2[j].slot = cs2[k].slot => j = k
  BY <1>2, <1>4 DEF Matched
<1>10. \A k \in 1..Len(cs2) : ob2[cs2[k].slot] = During(cs2[k].op)
  BY <1>1, <1>2, <1>3, <1>4, <1>7 DEF Matched
<1>11. ASSUME NEW j \in Slots, ob2[j] \in {"building", "dying"}
       PROVE  \E k \in 1..Len(cs2) : cs2[k].slot = j
  <2>1. j # s /\ ob2[j] = ob[j]
    BY <1>7, <1>11
  <2>2. PICK k \in 1..Len(cs) : cs[k].slot = j
    BY <1>11, <2>1 DEF Matched
  <2>3. QED
    BY <1>2, <1>5, <1>6, <2>1, <2>2
<1>12. QED
  BY <1>1, <1>2, <1>8, <1>9, <1>10, <1>11 DEF Matched

\* The stack of G1's pool.
LEMMA UnionStack ==
  /\ LivesOK <=> Lives(object, calls, ended)
  /\ CallsInv <=> Matched(object, calls, ended)
  /\ LivesOK' <=> Lives(object', calls', ended')
  /\ CallsInv' <=> Matched(object', calls', ended')
  BY DEF LivesOK, CallsInv, Lives, Matched, During

\* The innermost call works on a slot of its own.
LEMMA TopOwnsItsSlot ==
  ASSUME LivesOK, CallsInv, NEW name \in {"allocate", "deallocate"}, Running(name)
  PROVE  /\ Len(calls) \in Nat \ {0}
         /\ top \in Slots
         /\ object[top] = IF name = "allocate" THEN "building" ELSE "dying"
         /\ ~ended
         /\ \A k \in 1..(Len(calls) - 1) : calls[k].slot # top
<1>1. Lives(object, calls, ended) /\ Matched(object, calls, ended)
  BY UnionStack
<1>2. calls # << >> /\ calls[Len(calls)].op = name
  BY DEF Running
<1>3. QED
  BY <1>1, <1>2, InnermostCall DEF During, top

\* A call begins.
LEMMA CallBegins ==
  ASSUME LivesOK, CallsInv, ~ended, UNCHANGED ended,
         NEW name \in {"allocate", "deallocate"}, NEW i \in Slots,
         object[i] \notin {"building", "dying"},
         object' = [object EXCEPT ![i] =
                      IF name = "allocate" THEN "building" ELSE "dying"],
         Call(name, i)
  PROVE  LivesOK' /\ CallsInv'
<1>1. Lives(object, calls, ended) /\ Matched(object, calls, ended)
  BY UnionStack
<1>2. Begins(object, calls, object', calls', name, i)
  BY DEF Begins, Call, During
<1>3. Lives(object', calls', ended) /\ Matched(object', calls', ended)
  BY <1>1, <1>2, CallBegun
<1>4. QED
  BY <1>3, UnionStack

\* A call ends.
LEMMA CallEnds ==
  ASSUME LivesOK, CallsInv, UNCHANGED ended,
         NEW name \in {"allocate", "deallocate"}, Running(name),
         NEW outcome \in {"none", "alive"},
         object' = [object EXCEPT ![top] = outcome],
         Return
  PROVE  LivesOK' /\ CallsInv'
<1>1. Lives(object, calls, ended) /\ Matched(object, calls, ended)
  BY UnionStack
<1>2. Ends(object, calls, object', calls', outcome)
  BY DEF Ends, Return, Running, top
<1>3. Lives(object', calls', ended) /\ Matched(object', calls', ended)
  BY <1>1, <1>2, CallEnded
<1>4. QED
  BY <1>3, UnionStack

-----------------------------------------------------------------------------
(* The free list.                                                            *)

\* The chain ends at free_head_ unless it is empty.
LEMMA ChainTop ==
  ASSUME TypeOK, ListInv
  PROVE  /\ Len(chain) \in Nat
         /\ \A k \in 1..Len(chain) : chain[k] \in Slots
         /\ free_head # kEnd =>
              /\ Len(chain) \in Nat \ {0} /\ chain # << >>
              /\ free_head = chain[Len(chain)]
              /\ free_head \in Slots
<1>1. Len(chain) \in Nat /\ \A k \in 1..Len(chain) : chain[k] \in Slots
  BY DEF TypeOK
<1>2. ASSUME free_head # kEnd
      PROVE  chain # << >> /\ free_head = chain[Len(chain)]
  BY <1>2 DEF ListInv
<1>3. ASSUME chain # << >>
      PROVE  Len(chain) \in Nat \ {0} /\ Len(chain) \in 1..Len(chain)
  BY <1>3 DEF TypeOK
<1>4. QED
  BY <1>1, <1>2, <1>3

\* Pushing an emptied slot, which is in no chain, keeps the list sound.
LEMMA PushKeepsList ==
  ASSUME TypeOK, ListInv, FreeInv, ~ended, UNCHANGED ended,
         NEW i \in Slots, object[i] # "none", object' = [object EXCEPT ![i] = "none"],
         Push(i), chain' = Append(chain, i)
  PROVE  /\ next_free' \in [Slots -> 0..(N + 1)]
         /\ free_head' \in 0..N
         /\ chain' \in Seq(Slots)
         /\ ListInv' /\ FreeInv'
<1>1. /\ Len(chain) \in Nat
      /\ chain' \in Seq(Slots)
      /\ Len(chain') = Len(chain) + 1
      /\ \A k \in 1..Len(chain) : chain'[k] = chain[k]
      /\ chain'[Len(chain) + 1] = i
  BY PushSeq DEF TypeOK
<1>2. chain' # << >>
  BY <1>1
<1>3. \A k \in 1..Len(chain) : chain[k] \in Slots /\ chain[k] # i
  BY ChainTop DEF FreeInv
<1>4. \A k \in 1..Len(chain') : k \in 1..Len(chain) \/ k = Len(chain) + 1
  BY <1>1
<1>5. next_free' = [next_free EXCEPT ![i] = free_head] /\ free_head' = i
  BY DEF Push
<1>6. next_free' \in [Slots -> 0..(N + 1)] /\ free_head' \in 0..N
  BY <1>5, ConstantsAssumption DEF TypeOK, Slots
<1>7. ListInv'
  <2>1. free_head' = chain'[Len(chain')]
    BY <1>1, <1>5
  <2>2. ASSUME NEW k \in 1..Len(chain')
        PROVE  next_free'[chain'[k]] = IF k = 1 THEN kEnd ELSE chain'[k - 1]
    <3>1. CASE k \in 1..Len(chain)
      <4>1. next_free'[chain'[k]] = next_free[chain[k]]
        BY <1>1, <1>3, <1>5, <3>1 DEF TypeOK
      <4>2. k # 1 => k - 1 \in 1..Len(chain)
        BY <1>1, <3>1
      <4>3. QED
        BY <1>1, <3>1, <4>1, <4>2 DEF ListInv
    <3>2. CASE k = Len(chain) + 1
      <4>1. next_free'[chain'[k]] = free_head
        BY <1>1, <1>5, <3>2 DEF TypeOK
      <4>2. CASE chain = << >>
        BY <4>1, <4>2, <3>2 DEF ListInv
      <4>3. CASE chain # << >>
        <5>1. k # 1 /\ k - 1 = Len(chain) /\ Len(chain) \in 1..Len(chain)
          BY <1>1, <3>2, <4>3 DEF TypeOK
        <5>2. QED
          BY <1>1, <4>1, <4>3, <5>1 DEF ListInv
      <4>4. QED
        BY <4>2, <4>3
    <3>3. QED
      BY <1>4, <3>1, <3>2
  <2>3. QED
    BY <1>2, <2>1, <2>2 DEF ListInv, kEnd
<1>8. FreeInv'
  <2>1. \A j, k \in 1..Len(chain') : chain'[j] = chain'[k] => j = k
    BY <1>1, <1>3, <1>4 DEF FreeInv
  <2>2. \A k \in 1..Len(chain') : object'[chain'[k]] = "none"
    BY <1>1, <1>3, <1>4 DEF FreeInv, TypeOK, LivesOK
  <2>3. ASSUME NEW j \in Slots, object'[j] = "none"
        PROVE  \E k \in 1..Len(chain') : chain'[k] = j
    <3>1. CASE j = i
      BY <1>1, <3>1
    <3>2. CASE j # i
      <4>1. PICK k \in 1..Len(chain) : chain[k] = j
        BY <2>3, <3>2 DEF FreeInv, TypeOK, LivesOK
      <4>2. k \in 1..Len(chain')
        BY <1>1
      <4>3. QED
        BY <1>1, <4>1, <4>2
    <3>3. QED
      BY <3>1, <3>2
  <2>4. QED
    BY <2>1, <2>2, <2>3 DEF FreeInv
<1>9. QED
  BY <1>1, <1>6, <1>7, <1>8

-----------------------------------------------------------------------------
(* The invariant.                                                            *)

LEMMA InitInv == Init => IInv
<1> SUFFICES ASSUME Init PROVE IInv
  OBVIOUS
<1> USE DEF Init
<1>1. /\ chain \in Seq(Slots) /\ Len(chain) = N
      /\ \A k \in 1..N : chain[k] = N - k
  BY ConstantsAssumption DEF Slots
<1>2. chain # << >>
  BY <1>1, ConstantsAssumption
<1>3. TypeOK
  <2>1. LivesOK
    <3>1. calls \in Seq(Frame)
      OBVIOUS
    <3>2. object \in [Slots -> {"none", "building", "alive", "dying"}]
      OBVIOUS
    <3>3. QED
      BY <3>1, <3>2 DEF LivesOK
  <2>2. next_free \in [Slots -> 0..(N + 1)] /\ free_head \in 0..N
    BY ConstantsAssumption DEF Slots
  <2>3. QED
    BY <1>1, <2>1, <2>2 DEF TypeOK
<1>4. ListInv
  <2>1. free_head = chain[Len(chain)]
    BY <1>1, ConstantsAssumption
  <2>2. \A k \in 1..N : chain[k] \in Slots /\ next_free[chain[k]] = N - k + 1
    BY <1>1, ConstantsAssumption DEF Slots
  <2>3. \A k \in 1..N : k # 1 => k - 1 \in 1..N /\ N - (k - 1) = N - k + 1
    BY ConstantsAssumption
  <2>4. \A k \in 1..N : next_free[chain[k]] = IF k = 1 THEN kEnd ELSE chain[k - 1]
    BY <1>1, <2>2, <2>3, ConstantsAssumption DEF kEnd
  <2>5. QED
    BY <1>1, <1>2, <2>1, <2>4 DEF ListInv
<1>5. FreeInv
  <2>1. \A i \in Slots : N - i \in 1..N /\ chain[N - i] = i
    BY <1>1, ConstantsAssumption DEF Slots
  <2>2. \A k \in 1..N : chain[k] \in Slots
    BY <1>1, ConstantsAssumption DEF Slots
  <2>3. \A j, k \in 1..N : chain[j] = chain[k] => j = k
    BY <1>1, ConstantsAssumption
  <2>4. QED
    BY <1>1, <2>1, <2>2, <2>3 DEF FreeInv
<1>6. OccupiedInv
  BY DEF OccupiedInv
<1>7. CallsInv
  BY DEF CallsInv
<1>8. QED
  BY <1>3, <1>4, <1>5, <1>6, <1>7 DEF IInv

LEMMA AllocateKeepsInv ==
  ASSUME IInv, Allocate
  PROVE  IInv'
<1>0. TypeOK /\ LivesOK /\ ListInv /\ FreeInv /\ OccupiedInv /\ CallsInv
  BY DEF IInv, TypeOK
<1> DEFINE i == free_head
<1>1. /\ Len(chain) \in Nat \ {0} /\ chain # << >>
      /\ i = chain[Len(chain)]
      /\ i \in Slots
      /\ \A k \in 1..Len(chain) : chain[k] \in Slots
  BY <1>0, ChainTop DEF Allocate
<1>2. ~ended /\ UNCHANGED <<ended, occupied>>
  BY DEF Allocate, CanCall
<1>3. /\ Len(chain) \in 1..Len(chain)
      /\ Len(chain) # 1 => Len(chain) - 1 \in 1..(Len(chain) - 1)
      /\ \A k \in 1..(Len(chain) - 1) : k \in 1..Len(chain)
  <2>1. \A n \in Nat \ {0} :
          /\ n \in 1..n
          /\ n # 1 => n - 1 \in 1..(n - 1)
          /\ \A k \in 1..(n - 1) : k \in 1..n
    OBVIOUS
  <2>2. QED
    BY <1>1, <2>1
<1>4. object[i] = "none"
  BY <1>0, <1>1, <1>3 DEF FreeInv
<1>5. object' = [object EXCEPT ![i] = "building"]
  BY DEF Allocate
<1>6. LivesOK' /\ CallsInv'
  <2>1. Call("allocate", i)
    BY DEF Allocate
  <2>2. object[i] \notin {"building", "dying"}
    BY <1>4
  <2>3. object' = [object EXCEPT ![i] =
                     IF "allocate" = "allocate" THEN "building" ELSE "dying"]
    BY <1>5
  <2> HIDE DEF i
  <2>4. QED
    BY <1>0, <1>1, <1>2, <2>1, <2>2, <2>3, CallBegins
<1>7. /\ chain' \in Seq(Slots)
      /\ Len(chain') = Len(chain) - 1
      /\ \A k \in 1..(Len(chain) - 1) : chain'[k] = chain[k]
  BY <1>0, <1>1, PopSeq DEF Allocate, TypeOK
<1>8. \A k \in 1..Len(chain') : k \in 1..Len(chain) /\ k \in 1..(Len(chain) - 1)
  BY <1>1, <1>7
<1>9. \A k \in 1..(Len(chain) - 1) : chain[k] # i
  BY <1>0, <1>1, <1>3 DEF FreeInv
<1>10. free_head' = next_free[i] /\ next_free' = [next_free EXCEPT ![i] = Overwritten]
  BY DEF Allocate
<1>11. free_head' = IF Len(chain) = 1 THEN kEnd ELSE chain[Len(chain) - 1]
  BY <1>0, <1>1, <1>3, <1>10 DEF ListInv, TypeOK
<1>12. next_free' \in [Slots -> 0..(N + 1)] /\ free_head' \in 0..N
  <2>1. next_free' \in [Slots -> 0..(N + 1)]
    <3>1. Overwritten \in 0..(N + 1)
      BY ConstantsAssumption DEF Overwritten
    <3>2. QED
      BY <1>0, <1>10, <3>1 DEF TypeOK
  <2>3. Len(chain) # 1 => free_head' \in Slots
    BY <1>1, <1>3, <1>11
  <2>4. QED
    BY <1>11, <2>1, <2>3, ConstantsAssumption DEF kEnd, Slots
<1>13. TypeOK'
  BY <1>0, <1>2, <1>6, <1>7, <1>12 DEF TypeOK
<1>14. ListInv'
  <2>1. chain' = << >> <=> Len(chain) = 1
    BY <1>1, <1>7
  <2>2. free_head' = IF chain' = << >> THEN kEnd ELSE chain'[Len(chain')]
    BY <1>3, <1>7, <1>11, <2>1
  <2>3. ASSUME NEW k \in 1..Len(chain')
        PROVE  next_free'[chain'[k]] = IF k = 1 THEN kEnd ELSE chain'[k - 1]
    <3>1. next_free'[chain'[k]] = next_free[chain[k]]
      BY <1>0, <1>1, <1>7, <1>8, <1>9, <1>10 DEF TypeOK
    <3>2. k # 1 => k - 1 \in 1..(Len(chain) - 1)
      BY <1>1, <1>8
    <3>3. QED
      BY <1>0, <1>7, <1>8, <3>1, <3>2 DEF ListInv
  <2>4. QED
    BY <2>2, <2>3 DEF ListInv, kEnd
<1>15. FreeInv'
  <2>1. \A j, k \in 1..Len(chain') : chain'[j] = chain'[k] => j = k
    BY <1>0, <1>7, <1>8 DEF FreeInv
  <2>2. \A k \in 1..Len(chain') : object'[chain'[k]] = "none"
    BY <1>0, <1>1, <1>5, <1>7, <1>8, <1>9 DEF FreeInv, LivesOK
  <2>3. ASSUME NEW j \in Slots, object'[j] = "none"
        PROVE  \E k \in 1..Len(chain') : chain'[k] = j
    <3>1. j # i /\ object[j] = "none"
      BY <1>0, <1>1, <1>5, <2>3 DEF LivesOK
    <3>2. PICK k \in 1..Len(chain) : chain[k] = j
      BY <1>0, <1>2, <3>1 DEF FreeInv
    <3>3. k # Len(chain)
      BY <1>1, <3>1, <3>2
    <3>4. k \in 1..(Len(chain) - 1)
      BY <1>1, <3>2, <3>3
    <3>5. QED
      BY <1>7, <3>2, <3>4
  <2>4. QED
    BY <2>1, <2>2, <2>3 DEF FreeInv
<1>16. OccupiedInv'
  BY <1>0, <1>1, <1>2, <1>4, <1>5 DEF OccupiedInv, LivesOK
<1>17. QED
  BY <1>6, <1>13, <1>14, <1>15, <1>16 DEF IInv

LEMMA ConstructedKeepsInv ==
  ASSUME IInv, Constructed
  PROVE  IInv'
<1>0. TypeOK /\ LivesOK /\ ListInv /\ FreeInv /\ OccupiedInv /\ CallsInv
  BY DEF IInv, TypeOK
<1>1. /\ Running("allocate") /\ Return
      /\ UNCHANGED <<next_free, free_head, ended, chain>>
      /\ object' = [object EXCEPT ![top] = "alive"]
      /\ occupied' = [occupied EXCEPT ![top] = TRUE]
  BY DEF Constructed
<1>2. top \in Slots /\ object[top] = "building" /\ ~ended
  BY <1>0, <1>1, TopOwnsItsSlot
<1>3. LivesOK' /\ CallsInv'
  BY <1>0, <1>1, CallEnds
<1>4. TypeOK'
  BY <1>0, <1>1, <1>3 DEF TypeOK
<1>5. ListInv'
  BY <1>0, <1>1 DEF ListInv
<1>6. FreeInv'
  <2>1. \A k \in 1..Len(chain) : chain[k] \in Slots /\ object'[chain[k]] = "none"
    BY <1>0, <1>1, <1>2, ChainTop DEF FreeInv, LivesOK
  <2>2. \A i \in Slots : object'[i] = "none" => object[i] = "none"
    BY <1>0, <1>1, <1>2 DEF LivesOK
  <2>3. QED
    BY <1>0, <1>1, <2>1, <2>2 DEF FreeInv
<1>7. OccupiedInv'
  BY <1>0, <1>1, <1>2 DEF OccupiedInv, TypeOK, LivesOK
<1>8. QED
  BY <1>3, <1>4, <1>5, <1>6, <1>7 DEF IInv

LEMMA DeallocateKeepsInv ==
  ASSUME IInv, NEW i \in Slots, Deallocate(i)
  PROVE  IInv'
<1>0. TypeOK /\ LivesOK /\ ListInv /\ FreeInv /\ OccupiedInv /\ CallsInv
  BY DEF IInv, TypeOK
<1>1. /\ ~ended /\ object[i] = "alive"
      /\ UNCHANGED <<next_free, occupied, free_head, ended, chain>>
      /\ object' = [object EXCEPT ![i] = "dying"]
      /\ Call("deallocate", i)
  BY DEF Deallocate, CanCall, poolVars
<1>2. LivesOK' /\ CallsInv'
  <2>1. object' = [object EXCEPT ![i] =
                     IF "deallocate" = "allocate" THEN "building" ELSE "dying"]
    BY <1>1
  <2>2. object[i] \notin {"building", "dying"} /\ UNCHANGED ended
    BY <1>1
  <2>3. QED
    BY <1>0, <1>1, <2>1, <2>2, CallBegins
<1>3. TypeOK'
  BY <1>0, <1>1, <1>2 DEF TypeOK
<1>4. ListInv'
  BY <1>0, <1>1 DEF ListInv
<1>5. FreeInv'
  <2>1. \A k \in 1..Len(chain) : chain[k] \in Slots /\ object'[chain[k]] = "none"
    BY <1>0, <1>1, ChainTop DEF FreeInv, LivesOK
  <2>2. \A j \in Slots : object'[j] = "none" => object[j] = "none"
    BY <1>0, <1>1 DEF LivesOK
  <2>3. QED
    BY <1>0, <1>1, <2>1, <2>2 DEF FreeInv
<1>6. OccupiedInv'
  BY <1>0, <1>1 DEF OccupiedInv, LivesOK
<1>7. QED
  BY <1>2, <1>3, <1>4, <1>5, <1>6 DEF IInv

\* A slot given back, by a constructor that threw or a destructor that returned.
LEMMA GivenBackKeepsInv ==
  ASSUME IInv, NEW name \in {"allocate", "deallocate"}, Running(name), Return,
         UNCHANGED ended, object' = [object EXCEPT ![top] = "none"],
         Push(top), chain' = Append(chain, top),
         occupied' \in [Slots -> BOOLEAN],
         \A i \in Slots : occupied'[i] <=> occupied[i] /\ i # top
  PROVE  IInv'
<1>0. TypeOK /\ LivesOK /\ ListInv /\ FreeInv /\ OccupiedInv /\ CallsInv
  BY DEF IInv, TypeOK
<1>1. top \in Slots /\ object[top] # "none" /\ ~ended
  BY <1>0, TopOwnsItsSlot
<1>2. LivesOK' /\ CallsInv'
  BY <1>0, CallEnds
<1>3. /\ next_free' \in [Slots -> 0..(N + 1)]
      /\ free_head' \in 0..N
      /\ chain' \in Seq(Slots)
      /\ ListInv' /\ FreeInv'
  BY <1>0, <1>1, PushKeepsList
<1>4. TypeOK'
  BY <1>2, <1>3 DEF TypeOK
<1>5. OccupiedInv'
  <2> SUFFICES ASSUME NEW i \in Slots
               PROVE  occupied'[i] <=> object'[i] \in {"alive", "dying"}
    BY DEF OccupiedInv
  <2>1. CASE i = top
    BY <1>0, <2>1 DEF LivesOK
  <2>2. CASE i # top
    BY <1>0, <1>1, <2>2 DEF LivesOK, OccupiedInv
  <2>3. QED
    BY <2>1, <2>2
<1>6. QED
  BY <1>2, <1>3, <1>4, <1>5 DEF IInv

LEMMA ConstructorThrowsKeepsInv ==
  ASSUME IInv, ConstructorThrows
  PROVE  IInv'
<1>0. TypeOK /\ LivesOK /\ OccupiedInv /\ CallsInv
  BY DEF IInv, TypeOK
<1>1. /\ Running("allocate") /\ Return /\ Push(top) /\ chain' = Append(chain, top)
      /\ UNCHANGED <<occupied, ended>>
      /\ object' = [object EXCEPT ![top] = "none"]
  BY DEF ConstructorThrows, Relink
<1>2. top \in Slots /\ object[top] = "building" /\ ~ended
  BY <1>0, <1>1, TopOwnsItsSlot
<1>3. ~occupied[top]
  BY <1>0, <1>2 DEF OccupiedInv
<1>4. \A i \in Slots : occupied'[i] <=> occupied[i] /\ i # top
  BY <1>1, <1>3
<1>5. occupied' \in [Slots -> BOOLEAN]
  BY <1>0, <1>1 DEF TypeOK
<1>6. QED
  BY <1>1, <1>4, <1>5, GivenBackKeepsInv

LEMMA DestroyedKeepsInv ==
  ASSUME IInv, Destroyed
  PROVE  IInv'
<1>0. TypeOK /\ LivesOK /\ CallsInv
  BY DEF IInv, TypeOK
<1>1. /\ Running("deallocate") /\ Return /\ Push(top) /\ chain' = Append(chain, top)
      /\ UNCHANGED ended
      /\ object' = [object EXCEPT ![top] = "none"]
      /\ occupied' = [occupied EXCEPT ![top] = FALSE]
  BY DEF Destroyed
<1>2. top \in Slots
  BY <1>0, <1>1, TopOwnsItsSlot
<1>3. \A i \in Slots : occupied'[i] <=> occupied[i] /\ i # top
  BY <1>0, <1>1, <1>2 DEF TypeOK
<1>4. occupied' \in [Slots -> BOOLEAN]
  BY <1>0, <1>1 DEF TypeOK
<1>5. QED
  BY <1>1, <1>3, <1>4, GivenBackKeepsInv

LEMMA EndKeepsInv ==
  ASSUME IInv, End
  PROVE  IInv'
<1>0. TypeOK /\ LivesOK /\ ListInv /\ FreeInv
  BY DEF IInv, TypeOK
<1>1. /\ calls = << >> /\ ended'
      /\ UNCHANGED <<next_free, occupied, free_head, calls, chain>>
      /\ object' = [i \in Slots |-> IF occupied[i] THEN "none" ELSE object[i]]
  BY DEF End, Destroys, poolVars
<1>2. \A i \in Slots : object'[i] \in {"none", object[i]}
  BY <1>1
<1>3. LivesOK'
  <2>1. object' \in [Slots -> {"none", "building", "alive", "dying"}]
    BY <1>0, <1>1 DEF LivesOK
  <2>2. ended' \in BOOLEAN
    BY DEF End
  <2>3. QED
    BY <1>0, <1>1, <2>1, <2>2 DEF LivesOK
<1>4. TypeOK'
  BY <1>0, <1>1, <1>3 DEF TypeOK
<1>5. ListInv'
  BY <1>0, <1>1 DEF ListInv
<1>6. FreeInv'
  <2>1. \A k \in 1..Len(chain) : chain[k] \in Slots /\ object'[chain[k]] = "none"
    BY <1>0, <1>2, ChainTop DEF FreeInv
  <2>2. QED
    BY <1>0, <1>1, <2>1 DEF FreeInv
<1>7. CallsInv'
  <2>1. \A i \in Slots : object[i] \notin {"building", "dying"}
    BY <1>1 DEF IInv, CallsInv
  <2>2. QED
    BY <1>1, <1>2, <2>1 DEF CallsInv
<1>8. OccupiedInv'
  BY <1>1 DEF OccupiedInv
<1>9. QED
  BY <1>4, <1>5, <1>6, <1>7, <1>8 DEF IInv

LEMMA NextKeepsInv == IInv /\ [Next]_vars => IInv'
<1> SUFFICES ASSUME IInv, [Next]_vars PROVE IInv'
  OBVIOUS
<1>1. CASE Allocate
  BY <1>1, AllocateKeepsInv
<1>2. CASE Constructed
  BY <1>2, ConstructedKeepsInv
<1>3. CASE ConstructorThrows
  BY <1>3, ConstructorThrowsKeepsInv
<1>4. ASSUME NEW i \in Slots, Deallocate(i) PROVE IInv'
  BY <1>4, DeallocateKeepsInv
<1>5. CASE Destroyed
  BY <1>5, DestroyedKeepsInv
<1>6. CASE End
  BY <1>6, EndKeepsInv
<1>7. CASE AllocateExhausted \/ UNCHANGED vars
  <2>1. UNCHANGED <<next_free, occupied, free_head, object, calls, ended, chain>>
    BY <1>7 DEF AllocateExhausted, vars, poolVars
  <2>2. TypeOK'
    BY <2>1 DEF IInv, TypeOK, LivesOK
  <2>3. ListInv'
    BY <2>1 DEF IInv, ListInv
  <2>4. FreeInv'
    BY <2>1 DEF IInv, FreeInv
  <2>5. OccupiedInv'
    BY <2>1 DEF IInv, OccupiedInv
  <2>6. CallsInv'
    BY <2>1 DEF IInv, CallsInv
  <2>7. QED
    BY <2>2, <2>3, <2>4, <2>5, <2>6 DEF IInv
<1>8. QED
  BY <1>1, <1>2, <1>3, <1>4, <1>5, <1>6, <1>7 DEF Next

\* With any number of slots, however calls nest and constructors throw, G1's free
\* list stays well formed and holds every slot without an object exactly once,
\* and occupied_ names exactly the complete objects.
THEOREM UnionPoolIsSound == Spec => []IInv
  BY InitInv, NextKeepsInv, PTL DEF Spec

\* allocate() gives up with "Object pool exhausted" when no slot is empty, and
\* only then: constructors that threw and calls within calls lose no slot.
ExhaustedOnlyWhenFull ==
  ~ended => (free_head = kEnd <=> \A i \in Slots : object[i] # "none")

THEOREM ExhaustedExactlyWhenFull == Spec => []ExhaustedOnlyWhenFull
<1>1. ASSUME IInv PROVE ExhaustedOnlyWhenFull
  <2>1. TypeOK /\ ListInv /\ FreeInv
    BY <1>1 DEF IInv
  <2>2. CASE free_head = kEnd
    <3>1. chain = << >>
      <4>1. \A k \in 1..Len(chain) : chain[k] # kEnd
        BY <2>1, ChainTop, ConstantsAssumption DEF Slots, kEnd
      <4>2. chain # << >> => Len(chain) \in 1..Len(chain)
        BY <2>1 DEF TypeOK
      <4>3. QED
        BY <2>1, <2>2, <4>1, <4>2 DEF ListInv
    <3>2. QED
      BY <2>1, <2>2, <3>1 DEF FreeInv, ExhaustedOnlyWhenFull
  <2>3. CASE free_head # kEnd
    <3>1. /\ Len(chain) \in Nat \ {0}
          /\ free_head \in Slots /\ free_head = chain[Len(chain)]
      BY <2>1, <2>3, ChainTop
    <3>2. Len(chain) \in 1..Len(chain)
      BY <3>1
    <3>3. object[free_head] = "none"
      BY <2>1, <3>1, <3>2 DEF FreeInv
    <3>4. QED
      BY <2>3, <3>1, <3>3 DEF ExhaustedOnlyWhenFull
  <2>4. QED
    BY <2>2, <2>3
<1>2. QED
  BY <1>1, UnionPoolIsSound, PTL

-----------------------------------------------------------------------------
(* The refinement.                                                           *)

LEMMA StepIsPoolStep == IInv /\ [Next]_vars => [Pool!Next]_(Pool!poolVars)
<1> SUFFICES ASSUME IInv, [Next]_vars
             PROVE  Pool!Next \/ UNCHANGED Pool!poolVars
  OBVIOUS
<1>0. TypeOK /\ LivesOK /\ ListInv /\ FreeInv /\ OccupiedInv /\ CallsInv
  BY DEF IInv, TypeOK
<1>1. CASE Allocate
  <2>1. /\ ~ended /\ UNCHANGED ended
        /\ free_head # kEnd
        /\ object' = [object EXCEPT ![free_head] = "building"]
        /\ calls' = Append(calls, [op |-> "allocate", slot |-> free_head])
    BY <1>1 DEF Allocate, CanCall, Call
  <2>2. /\ Len(chain) \in Nat \ {0}
        /\ free_head \in Slots /\ free_head = chain[Len(chain)]
    BY <1>0, <2>1, ChainTop
  <2>3. object[free_head] = "none"
    <3>1. Len(chain) \in 1..Len(chain)
      BY <2>2
    <3>2. QED
      BY <1>0, <2>2, <3>1 DEF FreeInv
  <2>4. Pool!Allocate
    BY <2>1, <2>2, <2>3 DEF Pool!Allocate
  <2>5. QED
    BY <2>4 DEF Pool!Next
<1>2. CASE Constructed
  <2>1. /\ Running("allocate") /\ Return /\ UNCHANGED ended
        /\ object' = [object EXCEPT ![top] = "alive"]
    BY <1>2 DEF Constructed
  <2>2. object[top] = "building"
    BY <1>0, <2>1, TopOwnsItsSlot
  <2>3. Pool!Return("allocate", "alive")
    BY <2>1, <2>2 DEF Pool!Return, Running, Return, top
  <2>4. QED
    BY <2>3 DEF Pool!Next
<1>3. CASE ConstructorThrows
  <2>1. /\ Running("allocate") /\ Return /\ UNCHANGED ended
        /\ object' = [object EXCEPT ![top] = "none"]
    BY <1>3 DEF ConstructorThrows
  <2>2. object[top] = "building"
    BY <1>0, <2>1, TopOwnsItsSlot
  <2>3. Pool!Return("allocate", "none")
    BY <2>1, <2>2 DEF Pool!Return, Running, Return, top
  <2>4. QED
    BY <2>3 DEF Pool!Next
<1>4. ASSUME NEW i \in Slots, Deallocate(i)
      PROVE  Pool!Next
  <2>1. Pool!Deallocate
    BY <1>4 DEF Deallocate, CanCall, Call, Pool!Deallocate
  <2>2. QED
    BY <2>1 DEF Pool!Next
<1>5. CASE Destroyed
  <2>1. /\ Running("deallocate") /\ Return /\ UNCHANGED ended
        /\ object' = [object EXCEPT ![top] = "none"]
    BY <1>5 DEF Destroyed
  <2>2. object[top] = "dying"
    BY <1>0, <2>1, TopOwnsItsSlot
  <2>3. Pool!Return("deallocate", "none")
    BY <2>1, <2>2 DEF Pool!Return, Running, Return, top
  <2>4. QED
    BY <2>3 DEF Pool!Next
<1>6. CASE End
  <2>1. /\ calls = << >> /\ ~ended /\ ended' = TRUE /\ UNCHANGED calls
        /\ object' = [i \in Slots |-> IF occupied[i] THEN "none" ELSE object[i]]
    BY <1>6 DEF End, Destroys
  <2>2. \A i \in Slots : object[i] \in {"none", "alive"}
    BY <1>0, <2>1 DEF CallsInv, LivesOK
  <2>3. \A i \in Slots : occupied[i] <=> object[i] = "alive"
    BY <1>0, <2>1, <2>2 DEF OccupiedInv
  <2>4. object' = [i \in Slots |-> "none"]
    BY <2>1, <2>2, <2>3
  <2>5. Pool!End
    BY <2>1, <2>2, <2>4 DEF Pool!End
  <2>6. QED
    BY <2>5 DEF Pool!Next
<1>7. CASE AllocateExhausted \/ UNCHANGED vars
  BY <1>7 DEF AllocateExhausted, vars, Pool!poolVars
<1>8. QED
  BY <1>1, <1>2, <1>3, <1>4, <1>5, <1>6, <1>7 DEF Next

\* The union pool is an object pool: it never gives out a place with an object in
\* it, every object dies once, and none outlives the pool.
THEOREM UnionPoolIsObjectPool == Spec => PoolSpec
<1>1. Init => Pool!Init
  BY DEF Init, Pool!Init
<1>2. QED
  BY <1>1, UnionPoolIsSound, StepIsPoolStep, PTL DEF Spec, PoolSpec, Pool!Spec

-----------------------------------------------------------------------------
(* G2's pool, as it is while no constructor calls it.                        *)

\* A stack with room for all slots is not full while some slot is not on it.
LEMMA RoomForOne ==
  ASSUME NEW n \in 0..N, NEW f \in [Slots -> Slots], NEW i \in Slots,
         \A j, k \in 0..(n - 1) : f[j] = f[k] => j = k,
         \A k \in 0..(n - 1) : f[k] # i
  PROVE  n < N
<1> SUFFICES ASSUME n = N PROVE FALSE
  BY ConstantsAssumption
<1>1. IsFiniteSet(Slots) /\ Cardinality(Slots) = N
  <2>1. 0 \in Int /\ N - 1 \in Int /\ ~(0 > N - 1) /\ N - 1 - 0 + 1 = N
    BY ConstantsAssumption
  <2>2. IsFiniteSet(0..(N - 1)) /\ Cardinality(0..(N - 1)) = N - 1 - 0 + 1
    BY <2>1, FS_Interval
  <2>3. QED
    BY <2>1, <2>2 DEF Slots
<1>2. IsFiniteSet(Slots \ {i}) /\ Cardinality(Slots \ {i}) = N - 1
  BY <1>1, FS_RemoveElement
<1>3. Cardinality(Slots \ {i}) < Cardinality(Slots)
  BY <1>1, <1>2, ConstantsAssumption
<1>4. f \in [Slots -> Slots \ {i}]
  BY DEF Slots
<1>5. \E x, y \in Slots : x # y /\ f[x] = f[y]
  BY <1>1, <1>2, <1>3, <1>4, FS_PigeonHole
<1>6. QED
  BY <1>5 DEF Slots

\* The stack of G2's pool.
LEMMA OptionalStack ==
  /\ O!LivesOK <=> Lives(object2, calls2, ended2)
  /\ O!CallsInv <=> Matched(object2, calls2, ended2)
  /\ O!LivesOK' <=> Lives(object2', calls2', ended2')
  /\ O!CallsInv' <=> Matched(object2', calls2', ended2')
  BY DEF O!LivesOK, O!CallsInv, O!Slots, O!Frame, Slots, Frame, Lives, Matched, During

\* What the variables of G2's pool hold.
OptionalTypes ==
  /\ slots \in [Slots -> BOOLEAN]
  /\ free \in [Slots -> Slots]
  /\ free_count \in 0..N
  /\ handles \in [Slots -> Nat]

LEMMA OptionalParts ==
  /\ O!IInv <=>
       /\ Lives(object2, calls2, ended2) /\ Matched(object2, calls2, ended2)
       /\ OptionalTypes
       /\ O!FreeInv /\ O!ValueInv /\ O!HandlesInv /\ O!ConstructorInv
  /\ O!IInv' <=>
       /\ Lives(object2', calls2', ended2') /\ Matched(object2', calls2', ended2')
       /\ OptionalTypes'
       /\ O!FreeInv' /\ O!ValueInv' /\ O!HandlesInv' /\ O!ConstructorInv'
<1>1. O!TypeOK <=> O!LivesOK /\ OptionalTypes
  BY DEF O!TypeOK, O!Slots, Slots, OptionalTypes
<1>2. O!TypeOK' <=> O!LivesOK' /\ OptionalTypes'
  BY DEF O!TypeOK, O!Slots, Slots, OptionalTypes
<1>3. QED
  BY <1>1, <1>2, OptionalStack DEF O!IInv

\* While no constructor runs, no object is being built.
LEMMA NoConstructor ==
  ASSUME O!IInv, ~O!Running("allocate")
  PROVE  /\ \A k \in 1..Len(calls2) : calls2[k].op # "allocate"
         /\ \A i \in Slots : object2[i] # "building"
<1>0. /\ Lives(object2, calls2, ended2) /\ Matched(object2, calls2, ended2)
      /\ O!ConstructorInv
  BY OptionalParts
<1>1. ASSUME NEW k \in 1..Len(calls2), calls2[k].op = "allocate"
      PROVE  FALSE
  <2>1. k = Len(calls2)
    BY <1>0, <1>1 DEF O!ConstructorInv
  <2>2. calls2 # << >>
    BY <1>0, <2>1, <1>1, StackSlots
  <2>3. QED
    BY <1>1, <2>1, <2>2 DEF O!Running
<1>2. ASSUME NEW i \in Slots, object2[i] = "building"
      PROVE  FALSE
  <2>1. PICK k \in 1..Len(calls2) : calls2[k].slot = i
    BY <1>0, <1>2 DEF Matched
  <2>2. calls2[k].op = "allocate"
    BY <1>0, <1>2, <2>1 DEF Matched, During
  <2>3. QED
    BY <1>1, <2>2
<1>3. QED
  BY <1>1, <1>2

\* The innermost call, and the calls around it: none of those is an allocate.
LEMMA OptionalTop ==
  ASSUME O!IInv, NEW name \in {"allocate", "deallocate"}, O!Running(name)
  PROVE  /\ Len(calls2) \in Nat \ {0}
         /\ O!top \in Slots
         /\ object2[O!top] = During(name)
         /\ ~ended2
         /\ \A k \in 1..(Len(calls2) - 1) : calls2[k].op # "allocate"
         /\ name = "allocate" => free_count > 0 /\ O!top = free[free_count - 1]
<1>0. /\ Lives(object2, calls2, ended2) /\ Matched(object2, calls2, ended2)
      /\ O!ConstructorInv
  BY OptionalParts
<1>1. calls2 # << >> /\ calls2[Len(calls2)].op = name
  BY DEF O!Running
<1>2. /\ Len(calls2) \in Nat \ {0}
      /\ O!top \in Slots
      /\ object2[O!top] = During(name)
      /\ ~ended2
  BY <1>0, <1>1, InnermostCall DEF O!top
<1>3. Len(calls2) \in 1..Len(calls2)
  BY <1>2
<1>4. \A k \in 1..(Len(calls2) - 1) : k \in 1..Len(calls2) /\ k # Len(calls2)
  BY <1>2
<1>5. QED
  BY <1>0, <1>1, <1>2, <1>3, <1>4 DEF O!ConstructorInv, O!top

LEMMA OptionalAllocate ==
  ASSUME O!IInv, O!Allocate
  PROVE  O!IInv'
<1>0. /\ Lives(object2, calls2, ended2) /\ Matched(object2, calls2, ended2)
      /\ OptionalTypes
      /\ O!FreeInv /\ O!ValueInv /\ O!HandlesInv /\ O!ConstructorInv
  BY OptionalParts
<1> DEFINE index == free[free_count - 1]
<1>1. /\ ~ended2 /\ ~O!Running("allocate") /\ free_count # 0
      /\ slots' = [slots EXCEPT ![index] = FALSE]
      /\ object2' = [object2 EXCEPT ![index] = "building"]
      /\ calls2' = Append(calls2, [op |-> "allocate", slot |-> index])
      /\ UNCHANGED <<free, free_count, handles, ended2>>
  BY DEF O!Allocate, O!CanCall, O!Call
<1>2. free_count - 1 \in 0..(free_count - 1) /\ free_count - 1 \in Slots /\ free_count > 0
  BY <1>0, <1>1, ConstantsAssumption DEF OptionalTypes, Slots
<1>3. index \in Slots
  BY <1>0, <1>2 DEF OptionalTypes
<1>4. object2[index] = "none"
  <2>1. object2[index] \in {"none", "building"}
    BY <1>0, <1>1, <1>2, <1>3 DEF O!FreeInv, O!Slots, Slots
  <2>2. QED
    BY <2>1, <1>1, <1>3, NoConstructor
<1>5. index = free[free_count - 1]
  OBVIOUS
<1> HIDE DEF index
<1>6. Lives(object2', calls2', ended2') /\ Matched(object2', calls2', ended2')
  <2>1. Begins(object2, calls2, object2', calls2', "allocate", index)
    BY <1>1, <1>4 DEF Begins, During
  <2>2. QED
    BY <2>1, <1>0, <1>1, <1>3, CallBegun
<1>7. object2'[index] = "building" /\ \A j \in Slots : j # index => object2'[j] = object2[j]
  BY <1>0, <1>1, <1>3 DEF Lives
<1>8. OptionalTypes'
  BY <1>0, <1>1, <1>3 DEF OptionalTypes
<1>9. O!FreeInv'
  <2>1. \A j \in Slots : object2'[j] \in {"none", "building"} <=> object2[j] \in {"none", "building"}
    BY <1>4, <1>7
  <2>2. QED
    BY <2>1, <1>0, <1>1 DEF O!FreeInv, O!Slots, Slots
<1>10. O!ValueInv'
  BY <1>0, <1>1, <1>3, <1>7 DEF O!ValueInv, O!Slots, Slots, OptionalTypes
<1>11. O!HandlesInv'
  BY <1>0, <1>1, <1>4, <1>7 DEF O!HandlesInv, O!Slots, Slots
<1>12. O!ConstructorInv'
  <2>1. /\ Len(calls2) \in Nat
        /\ Len(calls2') = Len(calls2) + 1
        /\ \A k \in 1..Len(calls2) : calls2'[k] = calls2[k]
        /\ calls2'[Len(calls2) + 1] = [op |-> "allocate", slot |-> index]
    BY <1>0, <1>1, <1>3, PushSeq DEF Lives, Frame
  <2>2. \A k \in 1..Len(calls2') : k \in 1..Len(calls2) \/ k = Len(calls2')
    BY <2>1
  <2>3. \A k \in 1..Len(calls2) : calls2'[k].op # "allocate"
    BY <2>1, <1>1, NoConstructor
  <2>4. calls2'[Len(calls2')].slot = index
    BY <2>1
  <2>5. free_count' > 0 /\ index = free'[free_count' - 1]
    BY <1>1, <1>2, <1>5
  <2>6. QED
    BY <2>2, <2>3, <2>4, <2>5 DEF O!ConstructorInv
<1>13. QED
  BY <1>6, <1>8, <1>9, <1>10, <1>11, <1>12, OptionalParts

\* A call has ended: what is left on the stack is not a constructor.
LEMMA NoneLeft ==
  ASSUME O!IInv, NEW name \in {"allocate", "deallocate"}, O!Running(name), O!Return
  PROVE  O!ConstructorInv'
<1>1. calls2 \in Seq(Frame) /\ calls2 # << >>
  BY OptionalParts DEF Lives, O!Running
<1>2. /\ Len(calls2) \in Nat \ {0}
      /\ Len(calls2') = Len(calls2) - 1
      /\ \A k \in 1..(Len(calls2) - 1) : calls2'[k] = calls2[k]
  BY <1>1, PopSeq DEF O!Return
<1>3. \A k \in 1..(Len(calls2) - 1) : calls2[k].op # "allocate"
  BY OptionalTop
<1>4. \A k \in 1..Len(calls2') : k \in 1..(Len(calls2) - 1)
  BY <1>2
<1>5. QED
  BY <1>2, <1>3, <1>4 DEF O!ConstructorInv

LEMMA OptionalConstructed ==
  ASSUME O!IInv, O!Constructed
  PROVE  O!IInv'
<1>0. /\ Lives(object2, calls2, ended2) /\ Matched(object2, calls2, ended2)
      /\ OptionalTypes
      /\ O!FreeInv /\ O!ValueInv /\ O!HandlesInv /\ O!ConstructorInv
  BY OptionalParts
<1> DEFINE index == O!top
<1>1. /\ O!Running("allocate") /\ O!Return
      /\ slots' = [slots EXCEPT ![index] = TRUE]
      /\ free_count' = free_count - 1
      /\ object2' = [object2 EXCEPT ![index] = "alive"]
      /\ handles' = [handles EXCEPT ![index] = handles[index] + 1]
      /\ UNCHANGED <<free, ended2>>
  BY DEF O!Constructed
<1>2. /\ index \in Slots /\ object2[index] = "building" /\ ~ended2
      /\ free_count > 0 /\ index = free[free_count - 1]
  BY <1>1, OptionalTop DEF During
<1>3. Lives(object2', calls2', ended2') /\ Matched(object2', calls2', ended2')
  <2>1. Ends(object2, calls2, object2', calls2', "alive")
    BY <1>1 DEF Ends, O!Running, O!Return, O!top
  <2>2. QED
    BY <2>1, <1>0, <1>1, CallEnded
<1> HIDE DEF index
<1>4. object2'[index] = "alive" /\ \A j \in Slots : j # index => object2'[j] = object2[j]
  BY <1>0, <1>1, <1>2 DEF Lives
<1>5. /\ free_count' \in 0..N
      /\ \A k \in 0..(free_count' - 1) : k \in 0..(free_count - 1) /\ k # free_count - 1
      /\ \A k \in 0..(free_count - 1) : k # free_count - 1 => k \in 0..(free_count' - 1)
      /\ free_count - 1 \in 0..(free_count - 1)
  BY <1>0, <1>1, <1>2, ConstantsAssumption DEF OptionalTypes
<1>6. OptionalTypes'
  BY <1>0, <1>1, <1>2, <1>5 DEF OptionalTypes
<1>7. O!FreeInv'
  <2>1. \A j, k \in 0..(free_count' - 1) : free'[j] = free'[k] => j = k
    BY <1>0, <1>1, <1>5 DEF O!FreeInv
  <2>2. ASSUME NEW i \in Slots
        PROVE  object2'[i] \in {"none", "building"} <=>
                 \E k \in 0..(free_count' - 1) : free'[k] = i
    <3>1. CASE i = index
      <4>1. \A k \in 0..(free_count' - 1) : free[k] # index
        BY <1>0, <1>2, <1>5 DEF O!FreeInv
      <4>2. QED
        BY <1>1, <1>4, <3>1, <4>1
    <3>2. CASE i # index
      <4>1. object2'[i] \in {"none", "building"} <=> \E k \in 0..(free_count - 1) : free[k] = i
        BY <1>0, <1>2, <1>4, <3>2 DEF O!FreeInv, O!Slots, Slots
      <4>2. ASSUME NEW k \in 0..(free_count - 1), free[k] = i
            PROVE  k \in 0..(free_count' - 1)
        BY <1>2, <1>5, <3>2, <4>2
      <4>3. QED
        BY <1>1, <1>5, <4>1, <4>2
    <3>3. QED
      BY <3>1, <3>2
  <2>3. QED
    BY <2>1, <2>2 DEF O!FreeInv, O!Slots, Slots
<1>8. O!ValueInv'
  BY <1>0, <1>1, <1>2, <1>4 DEF O!ValueInv, O!Slots, Slots, OptionalTypes
<1>9. O!HandlesInv'
  <2>1. handles[index] = 0
    BY <1>0, <1>2 DEF O!HandlesInv, O!Slots, Slots, OptionalTypes
  <2>2. handles'[index] = 1 /\ \A j \in Slots : j # index => handles'[j] = handles[j]
    BY <2>1, <1>0, <1>1, <1>2 DEF OptionalTypes
  <2>3. QED
    BY <2>2, <1>0, <1>2, <1>4 DEF O!HandlesInv, O!Slots, Slots
<1>10. O!ConstructorInv'
  BY <1>1, NoneLeft
<1>11. QED
  BY <1>3, <1>6, <1>7, <1>8, <1>9, <1>10, OptionalParts

LEMMA OptionalConstructorThrows ==
  ASSUME O!IInv, O!ConstructorThrows
  PROVE  O!IInv'
<1>0. /\ Lives(object2, calls2, ended2) /\ Matched(object2, calls2, ended2)
      /\ OptionalTypes
      /\ O!FreeInv /\ O!ValueInv /\ O!HandlesInv /\ O!ConstructorInv
  BY OptionalParts
<1> DEFINE index == O!top
<1>1. /\ O!Running("allocate") /\ O!Return
      /\ object2' = [object2 EXCEPT ![index] = "none"]
      /\ UNCHANGED <<slots, free, free_count, handles, ended2>>
  BY DEF O!ConstructorThrows, O!CountKept
<1>2. index \in Slots /\ object2[index] = "building" /\ ~ended2
  BY <1>1, OptionalTop DEF During
<1>3. Lives(object2', calls2', ended2') /\ Matched(object2', calls2', ended2')
  <2>1. Ends(object2, calls2, object2', calls2', "none")
    BY <1>1 DEF Ends, O!Running, O!Return, O!top
  <2>2. QED
    BY <2>1, <1>0, <1>1, CallEnded
<1> HIDE DEF index
<1>4. object2'[index] = "none" /\ \A j \in Slots : j # index => object2'[j] = object2[j]
  BY <1>0, <1>1, <1>2 DEF Lives
<1>5. OptionalTypes'
  BY <1>0, <1>1 DEF OptionalTypes
<1>6. O!FreeInv'
  <2>1. \A j \in Slots : object2'[j] \in {"none", "building"} <=> object2[j] \in {"none", "building"}
    BY <1>2, <1>4
  <2>2. QED
    BY <2>1, <1>0, <1>1 DEF O!FreeInv, O!Slots, Slots
<1>7. O!ValueInv'
  BY <1>0, <1>1, <1>2, <1>4 DEF O!ValueInv, O!Slots, Slots
<1>8. O!HandlesInv'
  BY <1>0, <1>1, <1>2, <1>4 DEF O!HandlesInv, O!Slots, Slots
<1>9. O!ConstructorInv'
  BY <1>1, NoneLeft
<1>10. QED
  BY <1>3, <1>5, <1>6, <1>7, <1>8, <1>9, OptionalParts

LEMMA OptionalRecycle ==
  ASSUME O!IInv, NEW i \in Slots, O!Recycle(i)
  PROVE  O!IInv' /\ object2[i] = "alive"
<1>0. /\ Lives(object2, calls2, ended2) /\ Matched(object2, calls2, ended2)
      /\ OptionalTypes
      /\ O!FreeInv /\ O!ValueInv /\ O!HandlesInv /\ O!ConstructorInv
  BY OptionalParts
<1>1. /\ ~ended2 /\ ~O!Running("allocate") /\ handles[i] > 0
      /\ handles' = [handles EXCEPT ![i] = handles[i] - 1]
      /\ slots' = [slots EXCEPT ![i] = FALSE]
      /\ object2' = [object2 EXCEPT ![i] = "dying"]
      /\ calls2' = Append(calls2, [op |-> "deallocate", slot |-> i])
      /\ UNCHANGED <<free, free_count, ended2>>
  BY DEF O!Recycle, O!CanCall, O!Call
<1>2. object2[i] = "alive" /\ handles[i] = 1
  <2>1. handles[i] \in Nat /\ handles[i] <= IF object2[i] = "alive" THEN 1 ELSE 0
    BY <1>0, <1>1 DEF O!HandlesInv, O!Slots, Slots, OptionalTypes
  <2>2. QED
    BY <2>1, <1>1
<1>3. Lives(object2', calls2', ended2') /\ Matched(object2', calls2', ended2')
  <2>1. Begins(object2, calls2, object2', calls2', "deallocate", i)
    BY <1>1, <1>2 DEF Begins, During
  <2>2. QED
    BY <2>1, <1>0, <1>1, CallBegun
<1>4. object2'[i] = "dying" /\ \A j \in Slots : j # i => object2'[j] = object2[j]
  BY <1>0, <1>1 DEF Lives
<1>5. handles'[i] = 0 /\ \A j \in Slots : j # i => handles'[j] = handles[j]
  BY <1>0, <1>1, <1>2 DEF OptionalTypes
<1>6. OptionalTypes'
  BY <1>0, <1>1, <1>2 DEF OptionalTypes
<1>7. O!FreeInv'
  <2>1. \A j \in Slots : object2'[j] \in {"none", "building"} <=> object2[j] \in {"none", "building"}
    BY <1>2, <1>4
  <2>2. QED
    BY <2>1, <1>0, <1>1 DEF O!FreeInv, O!Slots, Slots
<1>8. O!ValueInv'
  BY <1>0, <1>1, <1>4 DEF O!ValueInv, O!Slots, Slots, OptionalTypes
<1>9. O!HandlesInv'
  BY <1>0, <1>1, <1>4, <1>5 DEF O!HandlesInv, O!Slots, Slots
<1>10. O!ConstructorInv'
  <2>1. /\ Len(calls2) \in Nat
        /\ Len(calls2') = Len(calls2) + 1
        /\ \A k \in 1..Len(calls2) : calls2'[k] = calls2[k]
        /\ calls2'[Len(calls2) + 1] = [op |-> "deallocate", slot |-> i]
    BY <1>0, <1>1, PushSeq DEF Lives, Frame
  <2>2. \A k \in 1..Len(calls2') : k \in 1..Len(calls2) \/ k = Len(calls2) + 1
    BY <2>1
  <2>3. \A k \in 1..Len(calls2) : calls2'[k].op # "allocate"
    BY <2>1, <1>1, NoConstructor
  <2>4. calls2'[Len(calls2) + 1].op # "allocate"
    BY <2>1
  <2>5. QED
    BY <2>2, <2>3, <2>4 DEF O!ConstructorInv
<1>11. QED
  BY <1>2, <1>3, <1>6, <1>7, <1>8, <1>9, <1>10, OptionalParts

LEMMA OptionalDestroyed ==
  ASSUME O!IInv, O!Destroyed
  PROVE  O!IInv'
<1>0. /\ Lives(object2, calls2, ended2) /\ Matched(object2, calls2, ended2)
      /\ OptionalTypes
      /\ O!FreeInv /\ O!ValueInv /\ O!HandlesInv /\ O!ConstructorInv
  BY OptionalParts
<1> DEFINE index == O!top
<1>1. /\ O!Running("deallocate") /\ O!Return
      /\ free' = [free EXCEPT ![free_count] = index]
      /\ free_count' = free_count + 1
      /\ object2' = [object2 EXCEPT ![index] = "none"]
      /\ UNCHANGED <<slots, handles, ended2>>
  BY DEF O!Destroyed, O!FreePushed
<1>2. index \in Slots /\ object2[index] = "dying" /\ ~ended2
  BY <1>1, OptionalTop DEF During
<1>3. Lives(object2', calls2', ended2') /\ Matched(object2', calls2', ended2')
  <2>1. Ends(object2, calls2, object2', calls2', "none")
    BY <1>1 DEF Ends, O!Running, O!Return, O!top
  <2>2. QED
    BY <2>1, <1>0, <1>1, CallEnded
<1> HIDE DEF index
<1>4. object2'[index] = "none" /\ \A j \in Slots : j # index => object2'[j] = object2[j]
  BY <1>0, <1>1, <1>2 DEF Lives
<1>5. \A k \in 0..(free_count - 1) : free[k] # index
  BY <1>0, <1>2 DEF O!FreeInv, O!Slots, Slots
<1>6. free_count < N
  <2>1. \A j, k \in 0..(free_count - 1) : free[j] = free[k] => j = k
    BY <1>0 DEF O!FreeInv
  <2>2. QED
    BY <2>1, <1>0, <1>2, <1>5, RoomForOne DEF OptionalTypes
<1>7. /\ free_count \in Slots /\ free_count' \in 0..N
      /\ \A k \in 0..(free_count - 1) : k \in Slots /\ k # free_count /\ k \in 0..(free_count' - 1)
      /\ \A k \in 0..(free_count' - 1) : k \in 0..(free_count - 1) \/ k = free_count
      /\ free_count \in 0..(free_count' - 1)
  <2>1. \A n \in 0..N : n < N =>
          /\ n \in 0..(N - 1) /\ n + 1 \in 0..N /\ n + 1 - 1 = n
          /\ \A k \in 0..(n - 1) : k \in 0..(N - 1) /\ k # n /\ k \in 0..n
          /\ \A k \in 0..n : k \in 0..(n - 1) \/ k = n
          /\ n \in 0..n
    BY ConstantsAssumption
  <2>2. free_count \in 0..N /\ free_count' = free_count + 1
    BY <1>0, <1>1 DEF OptionalTypes
  <2>3. QED
    BY <2>1, <2>2, <1>6 DEF Slots
<1>8. free'[free_count] = index /\ \A k \in 0..(free_count - 1) : free'[k] = free[k]
  BY <1>0, <1>1, <1>7 DEF OptionalTypes
<1>9. OptionalTypes'
  BY <1>0, <1>1, <1>2, <1>7 DEF OptionalTypes
<1>10. O!FreeInv'
  <2>1. \A j, k \in 0..(free_count' - 1) : free'[j] = free'[k] => j = k
    BY <1>0, <1>5, <1>7, <1>8 DEF O!FreeInv
  <2>2. ASSUME NEW i \in Slots
        PROVE  object2'[i] \in {"none", "building"} <=>
                 \E k \in 0..(free_count' - 1) : free'[k] = i
    <3>1. CASE i = index
      BY <1>4, <1>7, <1>8, <3>1
    <3>2. CASE i # index
      <4>1. object2'[i] \in {"none", "building"} <=> \E k \in 0..(free_count - 1) : free[k] = i
        BY <1>0, <1>2, <1>4, <3>2 DEF O!FreeInv, O!Slots, Slots
      <4>2. ASSUME NEW k \in 0..(free_count' - 1), free'[k] = i
            PROVE  k \in 0..(free_count - 1) /\ free[k] = i
        BY <1>7, <1>8, <3>2, <4>2
      <4>3. QED
        BY <1>7, <1>8, <4>1, <4>2
    <3>3. QED
      BY <3>1, <3>2
  <2>3. QED
    BY <2>1, <2>2 DEF O!FreeInv, O!Slots, Slots
<1>11. O!ValueInv'
  BY <1>0, <1>1, <1>2, <1>4 DEF O!ValueInv, O!Slots, Slots
<1>12. O!HandlesInv'
  BY <1>0, <1>1, <1>2, <1>4 DEF O!HandlesInv, O!Slots, Slots
<1>13. O!ConstructorInv'
  BY <1>1, NoneLeft
<1>14. QED
  BY <1>3, <1>9, <1>10, <1>11, <1>12, <1>13, OptionalParts

LEMMA OptionalEnd ==
  ASSUME O!IInv, O!End
  PROVE  O!IInv' /\ object2' = [i \in Slots |-> "none"] /\ \A i \in Slots : object2[i] \in {"none", "alive"}
<1>0. /\ Lives(object2, calls2, ended2) /\ Matched(object2, calls2, ended2)
      /\ OptionalTypes
      /\ O!FreeInv /\ O!ValueInv /\ O!HandlesInv /\ O!ConstructorInv
  BY OptionalParts
<1>1. /\ calls2 = << >> /\ ~ended2 /\ ended2' = TRUE
      /\ object2' = [i \in Slots |-> IF slots[i] THEN "none" ELSE object2[i]]
      /\ UNCHANGED <<slots, free, free_count, handles, calls2>>
  BY DEF O!End, O!Emptied, O!poolVars, O!Slots, Slots
<1>2. \A i \in Slots : object2[i] \in {"none", "alive"}
  BY <1>0, <1>1 DEF Matched, Lives
<1>3. object2' = [i \in Slots |-> "none"]
  BY <1>0, <1>1, <1>2 DEF O!ValueInv, O!Slots, Slots
<1>4. Lives(object2', calls2', ended2') /\ Matched(object2', calls2', ended2')
  BY <1>0, <1>1, <1>3 DEF Lives, Matched
<1>5. OptionalTypes'
  BY <1>0, <1>1 DEF OptionalTypes
<1>6. O!FreeInv'
  BY <1>0, <1>1 DEF O!FreeInv
<1>7. O!ValueInv' /\ O!HandlesInv'
  BY <1>1 DEF O!ValueInv, O!HandlesInv
<1>8. O!ConstructorInv'
  BY <1>1 DEF O!ConstructorInv
<1>9. QED
  BY <1>2, <1>3, <1>4, <1>5, <1>6, <1>7, <1>8, OptionalParts

LEMMA OptionalInit == O!Init => O!IInv
<1> SUFFICES ASSUME O!Init PROVE O!IInv
  OBVIOUS
<1>1. /\ slots = [i \in Slots |-> FALSE]
      /\ free = [k \in Slots |-> N - 1 - k]
      /\ free_count = N
      /\ object2 = [i \in Slots |-> "none"]
      /\ handles = [i \in Slots |-> 0]
      /\ calls2 = << >> /\ ended2 = FALSE
  BY DEF O!Init, O!Slots, Slots
<1>2. Lives(object2, calls2, ended2)
  <2>1. calls2 \in Seq(Frame)
    BY <1>1
  <2>2. object2 \in [Slots -> {"none", "building", "alive", "dying"}]
    BY <1>1
  <2>3. QED
    BY <1>1, <2>1, <2>2 DEF Lives
<1>3. Matched(object2, calls2, ended2)
  BY <1>1 DEF Matched
<1>4. \A k \in Slots : N - 1 - k \in Slots /\ free[k] = N - 1 - k /\ free[N - 1 - k] = k
  <2>1. \A k \in Slots : N - 1 - k \in Slots /\ N - 1 - (N - 1 - k) = k
    BY ConstantsAssumption DEF Slots
  <2>2. QED
    BY <1>1, <2>1
<1>5. OptionalTypes
  <2>1. free \in [Slots -> Slots]
    BY <1>1, <1>4
  <2>2. free_count \in 0..N
    BY <1>1, ConstantsAssumption
  <2>3. QED
    BY <1>1, <2>1, <2>2 DEF OptionalTypes
<1>6. O!FreeInv
  <2>1. \A j, k \in Slots : free[j] = free[k] => j = k
    BY <1>4, ConstantsAssumption DEF Slots
  <2>2. \A i \in Slots : \E k \in Slots : free[k] = i
    BY <1>4
  <2>3. QED
    BY <1>1, <2>1, <2>2 DEF O!FreeInv, O!Slots, Slots
<1>7. O!ValueInv /\ O!HandlesInv
  BY <1>1 DEF O!ValueInv, O!HandlesInv, O!Slots, Slots
<1>8. O!ConstructorInv
  BY <1>1 DEF O!ConstructorInv
<1>9. QED
  BY <1>2, <1>3, <1>5, <1>6, <1>7, <1>8, OptionalParts

LEMMA OptionalNext == O!IInv /\ [O!Next]_(O!vars) => O!IInv'
<1> SUFFICES ASSUME O!IInv, [O!Next]_(O!vars) PROVE O!IInv'
  OBVIOUS
<1>1. CASE O!Allocate
  BY <1>1, OptionalAllocate
<1>2. CASE O!Constructed
  BY <1>2, OptionalConstructed
<1>3. CASE O!ConstructorThrows
  BY <1>3, OptionalConstructorThrows
<1>4. ASSUME NEW i \in Slots, O!Recycle(i) PROVE O!IInv'
  BY <1>4, OptionalRecycle
<1>5. CASE O!Destroyed
  BY <1>5, OptionalDestroyed
<1>6. CASE O!End
  BY <1>6, OptionalEnd
<1>7. CASE O!AllocateExhausted \/ UNCHANGED O!vars
  <2>1. UNCHANGED <<slots, free, free_count, object2, handles, calls2, ended2>>
    BY <1>7 DEF O!AllocateExhausted, O!vars, O!poolVars
  <2>2. /\ Lives(object2, calls2, ended2) /\ Matched(object2, calls2, ended2)
        /\ OptionalTypes
        /\ O!FreeInv /\ O!ValueInv /\ O!HandlesInv /\ O!ConstructorInv
    BY OptionalParts
  <2>3. Lives(object2', calls2', ended2') /\ Matched(object2', calls2', ended2')
    BY <2>1, <2>2
  <2>4. OptionalTypes'
    BY <2>1, <2>2 DEF OptionalTypes
  <2>5. O!FreeInv' /\ O!ValueInv' /\ O!HandlesInv' /\ O!ConstructorInv'
    BY <2>1, <2>2 DEF O!FreeInv, O!ValueInv, O!HandlesInv, O!ConstructorInv
  <2>6. QED
    BY <2>3, <2>4, <2>5, OptionalParts
<1>8. QED
  BY <1>1, <1>2, <1>3, <1>4, <1>5, <1>6, <1>7 DEF O!Next, O!Slots, Slots

\* With any number of slots, however destructors nest and constructors throw, G2's
\* stack of free indices holds every slot without an object exactly once, has_value()
\* names exactly the complete objects, and each of them has one handle at most.
THEOREM OptionalPoolIsSound == O!Spec => []O!IInv
  BY OptionalInit, OptionalNext, PTL DEF O!Spec

\* assert(slots_[index].has_value() && "double free, or never allocated") holds: a
\* handle that dies finds its object, as long as no constructor calls the pool.
THEOREM HandlesFindObjects == O!Spec => []O!RecycleFindsObject
<1>1. ASSUME O!IInv PROVE O!RecycleFindsObject
  <2>1. OptionalTypes /\ O!ValueInv /\ O!HandlesInv
    BY <1>1, OptionalParts
  <2>2. \A i \in Slots : ~ended2 /\ handles[i] > 0 => object2[i] = "alive"
    BY <2>1 DEF O!HandlesInv, O!Slots, Slots, OptionalTypes
  <2>3. QED
    BY <2>1, <2>2 DEF O!RecycleFindsObject, O!ValueInv, O!Slots, Slots
<1>2. QED
  BY <1>1, OptionalPoolIsSound, PTL

LEMMA OptionalStepIsPoolStep == O!IInv /\ [O!Next]_(O!vars) => [O!Pool!Next]_(O!Pool!poolVars)
<1> SUFFICES ASSUME O!IInv, [O!Next]_(O!vars)
             PROVE  O!Pool!Next \/ UNCHANGED O!Pool!poolVars
  OBVIOUS
<1>0. /\ Lives(object2, calls2, ended2) /\ Matched(object2, calls2, ended2)
      /\ OptionalTypes /\ O!FreeInv
  BY OptionalParts
<1>1. CASE O!Allocate
  <2> DEFINE index == free[free_count - 1]
  <2>1. /\ ~ended2 /\ UNCHANGED ended2 /\ ~O!Running("allocate") /\ free_count # 0
        /\ object2' = [object2 EXCEPT ![index] = "building"]
        /\ calls2' = Append(calls2, [op |-> "allocate", slot |-> index])
    BY <1>1 DEF O!Allocate, O!CanCall, O!Call
  <2>2. free_count - 1 \in 0..(free_count - 1) /\ free_count - 1 \in Slots
    BY <1>0, <2>1, ConstantsAssumption DEF OptionalTypes, Slots
  <2>3. index \in Slots
    BY <1>0, <2>2 DEF OptionalTypes
  <2>4. object2[index] = "none"
    <3>1. object2[index] \in {"none", "building"}
      BY <1>0, <2>1, <2>2, <2>3 DEF O!FreeInv, O!Slots, Slots
    <3>2. QED
      BY <3>1, <2>1, <2>3, NoConstructor
  <2> HIDE DEF index
  <2>5. O!Pool!Allocate
    BY <2>1, <2>3, <2>4 DEF O!Pool!Allocate, O!Slots, Slots
  <2>6. QED
    BY <2>5 DEF O!Pool!Next
<1>2. CASE O!Constructed
  <2>1. /\ O!Running("allocate") /\ O!Return /\ UNCHANGED ended2
        /\ object2' = [object2 EXCEPT ![O!top] = "alive"]
    BY <1>2 DEF O!Constructed
  <2>2. object2[O!top] = "building"
    BY <2>1, OptionalTop DEF During
  <2>3. O!Pool!Return("allocate", "alive")
    BY <2>1, <2>2 DEF O!Pool!Return, O!Running, O!Return, O!top
  <2>4. QED
    BY <2>3 DEF O!Pool!Next
<1>3. CASE O!ConstructorThrows
  <2>1. /\ O!Running("allocate") /\ O!Return /\ UNCHANGED ended2
        /\ object2' = [object2 EXCEPT ![O!top] = "none"]
    BY <1>3 DEF O!ConstructorThrows
  <2>2. object2[O!top] = "building"
    BY <2>1, OptionalTop DEF During
  <2>3. O!Pool!Return("allocate", "none")
    BY <2>1, <2>2 DEF O!Pool!Return, O!Running, O!Return, O!top
  <2>4. QED
    BY <2>3 DEF O!Pool!Next
<1>4. ASSUME NEW i \in Slots, O!Recycle(i)
      PROVE  O!Pool!Next
  <2>1. object2[i] = "alive"
    BY <1>4, OptionalRecycle
  <2>2. O!Pool!Deallocate
    BY <1>4, <2>1 DEF O!Recycle, O!CanCall, O!Call, O!Pool!Deallocate, O!Slots, Slots
  <2>3. QED
    BY <2>2 DEF O!Pool!Next
<1>5. CASE O!Destroyed
  <2>1. /\ O!Running("deallocate") /\ O!Return /\ UNCHANGED ended2
        /\ object2' = [object2 EXCEPT ![O!top] = "none"]
    BY <1>5 DEF O!Destroyed
  <2>2. object2[O!top] = "dying"
    BY <2>1, OptionalTop DEF During
  <2>3. O!Pool!Return("deallocate", "none")
    BY <2>1, <2>2 DEF O!Pool!Return, O!Running, O!Return, O!top
  <2>4. QED
    BY <2>3 DEF O!Pool!Next
<1>6. CASE O!End
  <2>1. object2' = [i \in Slots |-> "none"] /\ \A i \in Slots : object2[i] \in {"none", "alive"}
    BY <1>6, OptionalEnd
  <2>2. calls2 = << >> /\ ~ended2 /\ ended2' = TRUE /\ UNCHANGED calls2
    BY <1>6 DEF O!End
  <2>3. O!Pool!End
    BY <2>1, <2>2 DEF O!Pool!End, O!Slots, Slots
  <2>4. QED
    BY <2>3 DEF O!Pool!Next
<1>7. CASE O!AllocateExhausted \/ UNCHANGED O!vars
  BY <1>7 DEF O!AllocateExhausted, O!vars, O!Pool!poolVars
<1>8. QED
  BY <1>1, <1>2, <1>3, <1>4, <1>5, <1>6, <1>7 DEF O!Next, O!Slots, Slots

\* G2's pool is an object pool as G1's is, as long as no constructor calls it.
THEOREM OptionalPoolIsObjectPool == O!Spec => O!PoolSpec
<1>1. O!Init => O!Pool!Init
  BY DEF O!Init, O!Pool!Init, O!Slots, Slots
<1>2. QED
  BY <1>1, OptionalPoolIsSound, OptionalStepIsPoolStep, PTL
  DEF O!Spec, O!PoolSpec, O!Pool!Spec

-----------------------------------------------------------------------------
(* Both pools under the same calls.                                          *)

\* Each of the two runs by its own specification.
LEMMA BothRun == BothSpec => Spec /\ O!Spec
<1>1. BothInit => Init /\ O!Init
  BY DEF BothInit
<1>2. [BothNext]_bothVars => [Next]_vars
  BY DEF BothNext, bothVars, Both, UnionAlone, Over, Next
<1>3. [BothNext]_bothVars => [O!Next]_(O!vars)
  BY DEF BothNext, bothVars, Both, UnionAlone, Over, O!Next, optionalVars,
         O!vars, O!poolVars, O!Slots, Slots
<1>4. QED
  BY <1>1, <1>2, <1>3, PTL DEF BothSpec, Spec, O!Spec

\* Next to G1's, too, G2's pool is an object pool.
THEOREM OptionalBesideUnion == BothSpec => OptionalIsPool
  BY BothRun, OptionalPoolIsObjectPool, PTL DEF OptionalIsPool

\* What SameSlots says of the two while they get the same calls.
Alike ==
  /\ object2 = object /\ calls2 = calls /\ ended2 = ended
  /\ \A k \in 1..Len(chain) : free[k - 1] = chain[k]
  /\ free_count = Len(chain) + IF O!Running("allocate") THEN 1 ELSE 0

\* G1's list and G2's stack give out the same slot.
LEMMA AllocateAlike ==
  ASSUME IInv, O!IInv, Alike, Allocate, O!Allocate
  PROVE  Alike'
<1>1. TypeOK /\ ListInv
  BY DEF IInv
<1>2. /\ Len(chain) \in Nat \ {0} /\ chain # << >>
      /\ free_head = chain[Len(chain)]
  BY <1>1, ChainTop DEF Allocate
<1>3. /\ Len(chain') = Len(chain) - 1
      /\ \A k \in 1..(Len(chain) - 1) : chain'[k] = chain[k]
  BY <1>1, <1>2, PopSeq DEF Allocate, TypeOK
<1>4. ~O!Running("allocate") /\ UNCHANGED <<free, free_count, ended2, ended>>
  BY DEF O!Allocate, O!CanCall, Allocate
<1>5. free_count = Len(chain)
  BY <1>2, <1>4 DEF Alike
<1>6. Len(chain) \in 1..Len(chain)
  BY <1>2
<1>7. free[free_count - 1] = free_head
  BY <1>2, <1>5, <1>6 DEF Alike
<1>8. object2' = object' /\ calls2' = calls' /\ ended2' = ended'
  BY <1>4, <1>7 DEF Alike, Allocate, O!Allocate, Call, O!Call
<1>9. \A k \in 1..Len(chain') : free'[k - 1] = chain'[k]
  <2>1. \A k \in 1..Len(chain') : k \in 1..Len(chain) /\ k \in 1..(Len(chain) - 1)
    BY <1>2, <1>3
  <2>2. QED
    BY <2>1, <1>3, <1>4 DEF Alike
<1>10. O!Running("allocate")'
  <2>1. /\ calls2 \in Seq(Frame) /\ Len(calls2) \in Nat
        /\ calls2' = Append(calls2, [op |-> "allocate", slot |-> free_head])
    BY <1>7, OptionalParts DEF O!Allocate, O!Call, Lives
  <2>2. free_head \in Slots
    BY <1>1, ChainTop DEF Allocate
  <2>3. [op |-> "allocate", slot |-> free_head] \in Frame
    BY <2>2 DEF Frame
  <2>4. /\ Len(calls2') = Len(calls2) + 1
        /\ calls2'[Len(calls2) + 1] = [op |-> "allocate", slot |-> free_head]
        /\ calls2' \in Seq(Frame)
    BY <2>1, <2>3, PushSeq
  <2>5. calls2' # << >>
    BY <2>1, <2>4
  <2>6. QED
    BY <2>4, <2>5 DEF O!Running
<1>11. free_count' = Len(chain') + IF O!Running("allocate")' THEN 1 ELSE 0
  BY <1>2, <1>3, <1>4, <1>5, <1>10
<1>12. QED
  BY <1>8, <1>9, <1>11 DEF Alike

\* After a call has ended no constructor is running.
LEMMA NoneRuns ==
  ASSUME O!IInv, O!IInv', NEW name \in {"allocate", "deallocate"}, O!Running(name), O!Return
  PROVE  ~O!Running("allocate")'
<1>1. calls2 \in Seq(Frame) /\ calls2 # << >>
  BY OptionalParts DEF Lives, O!Running
<1>2. /\ Len(calls2) \in Nat \ {0}
      /\ calls2' \in Seq(Frame)
      /\ Len(calls2') = Len(calls2) - 1
      /\ \A k \in 1..(Len(calls2) - 1) : calls2'[k] = calls2[k]
  BY <1>1, PopSeq DEF O!Return
<1>3. \A k \in 1..(Len(calls2) - 1) : calls2[k].op # "allocate"
  BY OptionalTop
<1>4. calls2' # << >> => Len(calls2') \in 1..(Len(calls2) - 1)
  BY <1>2
<1>5. QED
  BY <1>2, <1>3, <1>4 DEF O!Running

LEMMA ConstructedAlike ==
  ASSUME IInv, O!IInv, O!IInv', Alike, Constructed, O!Constructed
  PROVE  Alike'
<1>1. Len(chain) \in Nat
  BY DEF IInv, TypeOK
<1>2. /\ O!Running("allocate") /\ O!Return /\ free_count' = free_count - 1
      /\ UNCHANGED <<free, chain, ended, ended2>>
  BY DEF O!Constructed, Constructed
<1>3. ~O!Running("allocate")'
  BY <1>2, NoneRuns
<1>4. object2' = object' /\ calls2' = calls'
  BY DEF Alike, Constructed, O!Constructed, top, O!top, Return, O!Return
<1>5. free_count' = Len(chain')
  BY <1>1, <1>2 DEF Alike
<1>6. QED
  BY <1>1, <1>2, <1>3, <1>4, <1>5 DEF Alike

\* The slot under construction is still on top of G2's stack; on G1's list it
\* has to be put back, and there it is.
LEMMA ConstructorThrowsAlike ==
  ASSUME IInv, O!IInv, O!IInv', Alike, ConstructorThrows, O!ConstructorThrows
  PROVE  Alike'
<1>1. TypeOK /\ LivesOK /\ CallsInv
  BY DEF IInv, TypeOK
<1>2. /\ O!Running("allocate") /\ O!Return
      /\ UNCHANGED <<free, free_count, ended, ended2>>
      /\ chain' = Append(chain, top)
      /\ Running("allocate")
  BY DEF O!ConstructorThrows, ConstructorThrows, O!CountKept
<1>3. ~O!Running("allocate")'
  BY <1>2, NoneRuns
<1>4. object2' = object' /\ calls2' = calls'
  BY DEF Alike, ConstructorThrows, O!ConstructorThrows, top, O!top, Return, O!Return
<1>5. top \in Slots
  BY <1>1, <1>2, TopOwnsItsSlot
<1>6. /\ Len(chain) \in Nat
      /\ Len(chain') = Len(chain) + 1
      /\ \A k \in 1..Len(chain) : chain'[k] = chain[k]
      /\ chain'[Len(chain) + 1] = top
  BY <1>1, <1>2, <1>5, PushSeq DEF TypeOK
<1>7. free_count = Len(chain) + 1
  BY <1>2 DEF Alike
<1>8. top = free[free_count - 1]
  BY <1>2, OptionalTop DEF Alike, top, O!top
<1>9. \A k \in 1..Len(chain') : free'[k - 1] = chain'[k]
  <2>1. \A k \in 1..Len(chain') : k \in 1..Len(chain) \/ k = Len(chain) + 1
    BY <1>6
  <2>2. QED
    BY <2>1, <1>2, <1>6, <1>7, <1>8 DEF Alike
<1>10. free_count' = Len(chain')
  BY <1>2, <1>6, <1>7
<1>11. QED
  BY <1>2, <1>3, <1>4, <1>6, <1>9, <1>10 DEF Alike

LEMMA DeallocateAlike ==
  ASSUME IInv, O!IInv, Alike, NEW i \in Slots, Deallocate(i), O!Recycle(i)
  PROVE  Alike'
<1>1. /\ ~O!Running("allocate")
      /\ calls2' = Append(calls2, [op |-> "deallocate", slot |-> i])
      /\ UNCHANGED <<free, free_count, chain, ended, ended2>>
  BY DEF O!Recycle, O!CanCall, O!Call, Deallocate, poolVars
<1>2. object2' = object' /\ calls2' = calls'
  BY DEF Alike, Deallocate, O!Recycle, Call, O!Call
<1>3. ~O!Running("allocate")'
  <2>1. calls2 \in Seq(Frame) /\ [op |-> "deallocate", slot |-> i] \in Frame
    BY OptionalParts DEF Lives, Frame
  <2>2. /\ Len(calls2') = Len(calls2) + 1
        /\ calls2'[Len(calls2) + 1] = [op |-> "deallocate", slot |-> i]
    BY <1>1, <2>1, PushSeq
  <2>3. QED
    BY <2>2 DEF O!Running
<1>4. QED
  BY <1>1, <1>2, <1>3 DEF Alike

LEMMA DestroyedAlike ==
  ASSUME IInv, O!IInv, O!IInv', Alike, Destroyed, O!Destroyed
  PROVE  Alike'
<1>1. TypeOK /\ LivesOK /\ CallsInv
  BY DEF IInv, TypeOK
<1>2. /\ O!Running("deallocate") /\ O!Return
      /\ free' = [free EXCEPT ![free_count] = O!top]
      /\ free_count' = free_count + 1
      /\ UNCHANGED <<ended, ended2>>
      /\ chain' = Append(chain, top)
      /\ Running("deallocate")
  BY DEF O!Destroyed, Destroyed, O!FreePushed
<1>3. ~O!Running("allocate")'
  BY <1>2, NoneRuns
<1>4. object2' = object' /\ calls2' = calls' /\ O!top = top
  BY DEF Alike, Destroyed, O!Destroyed, top, O!top, Return, O!Return
<1>5. top \in Slots
  BY <1>1, <1>2, TopOwnsItsSlot
<1>6. /\ Len(chain) \in Nat
      /\ Len(chain') = Len(chain) + 1
      /\ \A k \in 1..Len(chain) : chain'[k] = chain[k]
      /\ chain'[Len(chain) + 1] = top
  BY <1>1, <1>2, <1>5, PushSeq DEF TypeOK
<1>7. free_count = Len(chain)
  <2>1. ~O!Running("allocate")
    BY <1>2 DEF O!Running
  <2>2. QED
    BY <2>1, <1>6 DEF Alike
<1>8. free_count \in Slots /\ \A k \in 1..Len(chain) : k - 1 \in Slots /\ k - 1 # free_count
  <2>1. free_count \in 0..N /\ free_count' \in 0..N
    BY OptionalParts DEF OptionalTypes
  <2>2. free_count \in 0..(N - 1)
    BY <2>1, <1>2, ConstantsAssumption
  <2>3. QED
    BY <2>2, <1>7, ConstantsAssumption DEF Slots
<1>9. free'[free_count] = top /\ \A k \in 1..Len(chain) : free'[k - 1] = free[k - 1]
  BY <1>2, <1>4, <1>8, OptionalParts DEF OptionalTypes
<1>10. \A k \in 1..Len(chain') : free'[k - 1] = chain'[k]
  <2>1. \A k \in 1..Len(chain') : k \in 1..Len(chain) \/ (k = Len(chain) + 1 /\ k - 1 = free_count)
    BY <1>6, <1>7
  <2>2. QED
    BY <2>1, <1>6, <1>9 DEF Alike
<1>11. free_count' = Len(chain')
  BY <1>2, <1>6, <1>7
<1>12. QED
  BY <1>2, <1>3, <1>4, <1>6, <1>10, <1>11 DEF Alike

LEMMA EndAlike ==
  ASSUME IInv, O!IInv, Alike, End, O!End
  PROVE  Alike'
<1>1. /\ calls = << >> /\ ~ended /\ ended' = TRUE /\ ended2' = TRUE
      /\ object' = [i \in Slots |-> IF occupied[i] THEN "none" ELSE object[i]]
      /\ UNCHANGED <<free, free_count, chain, calls, calls2>>
  BY DEF End, O!End, Destroys, poolVars, O!poolVars
<1>2. object2' = [i \in Slots |-> "none"]
  BY OptionalEnd
<1>3. \A i \in Slots : object[i] \in {"none", "alive"}
  BY OptionalEnd DEF Alike
<1>4. \A i \in Slots : object[i] = "alive" => occupied[i]
  BY <1>1 DEF IInv, OccupiedInv
<1>5. object' = [i \in Slots |-> "none"]
  BY <1>1, <1>3, <1>4
<1>6. O!Running("allocate")' <=> O!Running("allocate")
  BY <1>1 DEF O!Running
<1>7. QED
  BY <1>1, <1>2, <1>5, <1>6 DEF Alike

LEMMA SameSlotsParts ==
  /\ SameSlots <=> O!IInv /\ (orderly => Alike)
  /\ SameSlots' <=> O!IInv' /\ (orderly' => Alike')
  BY DEF SameSlots, Alike

LEMMA InitSameSlots == BothInit => SameSlots
<1> SUFFICES ASSUME BothInit PROVE SameSlots
  OBVIOUS
<1>1. O!IInv
  BY OptionalInit DEF BothInit
<1>2. /\ object2 = object /\ calls2 = calls /\ ended2 = ended
      /\ calls2 = << >> /\ free_count = N
      /\ free = [k \in Slots |-> N - 1 - k]
      /\ chain = [k \in 1..N |-> N - k]
  BY DEF BothInit, Init, O!Init, O!Slots, Slots
<1>3. Len(chain) = N
  BY <1>2, ConstantsAssumption
<1>4. \A k \in 1..N : k - 1 \in Slots /\ N - 1 - (k - 1) = N - k
  BY ConstantsAssumption DEF Slots
<1>5. \A k \in 1..Len(chain) : free[k - 1] = chain[k]
  BY <1>2, <1>3, <1>4
<1>6. ~O!Running("allocate")
  BY <1>2 DEF O!Running
<1>7. Alike
  <2>1. free_count = Len(chain) + IF O!Running("allocate") THEN 1 ELSE 0
    <3>1. N = N + 0
      BY ConstantsAssumption
    <3>2. free_count = N /\ Len(chain) = N
      BY <1>2, <1>3
    <3>3. QED
      BY <1>6, <3>1, <3>2
  <2>2. object2 = object /\ calls2 = calls /\ ended2 = ended
    BY <1>2
  <2>3. QED
    BY <1>5, <2>1, <2>2 DEF Alike
<1>8. QED
  BY <1>1, <1>7, SameSlotsParts

LEMMA NextSameSlots ==
  IInv /\ IInv' /\ SameSlots /\ O!IInv' /\ [BothNext]_bothVars => SameSlots'
<1> SUFFICES ASSUME IInv, SameSlots, O!IInv', [BothNext]_bothVars, orderly'
             PROVE  Alike'
  BY SameSlotsParts
<1>0. O!IInv /\ (orderly => Alike)
  BY SameSlotsParts
<1>1. CASE Both
  <2>0. Alike
    BY <1>0, <1>1 DEF Both
  <2>1. CASE Allocate /\ O!Allocate
    BY <2>0, <2>1, <1>0, AllocateAlike
  <2>2. CASE AllocateExhausted /\ O!AllocateExhausted
    BY <2>0, <2>2 DEF AllocateExhausted, O!AllocateExhausted, vars, O!vars,
                      poolVars, O!poolVars, Alike, O!Running
  <2>3. CASE Constructed /\ O!Constructed
    BY <2>0, <2>3, <1>0, ConstructedAlike
  <2>4. CASE ConstructorThrows /\ O!ConstructorThrows
    BY <2>0, <2>4, <1>0, ConstructorThrowsAlike
  <2>5. ASSUME NEW i \in Slots, Deallocate(i), O!Recycle(i)
        PROVE  Alike'
    BY <2>0, <2>5, <1>0, DeallocateAlike
  <2>6. CASE Destroyed /\ O!Destroyed
    BY <2>0, <2>6, <1>0, DestroyedAlike
  <2>7. CASE End /\ O!End
    BY <2>0, <2>7, <1>0, EndAlike
  <2>8. QED
    BY <1>1, <2>1, <2>2, <2>3, <2>4, <2>5, <2>6, <2>7 DEF Both
<1>2. CASE UnionAlone
  BY <1>2 DEF UnionAlone
<1>3. CASE Over \/ UNCHANGED bothVars
  <2>1. UNCHANGED bothVars
    BY <1>3 DEF Over
  <2>2. /\ UNCHANGED <<object, calls, ended, chain, free, free_count>>
        /\ UNCHANGED <<object2, calls2, ended2, orderly>>
    BY <2>1 DEF bothVars, vars, optionalVars
  <2>3. QED
    BY <2>2, <1>0 DEF Alike, O!Running
<1>4. QED
  BY <1>1, <1>2, <1>3 DEF BothNext

\* G1's list and G2's stack give out the same slots: for any number of slots, however
\* destructors nest and constructors throw, as long as no constructor calls its pool.
THEOREM BothGiveOutTheSame == BothSpec => []SameSlots
<1>1. BothSpec => []IInv /\ []O!IInv
  BY BothRun, UnionPoolIsSound, OptionalPoolIsSound, PTL
<1>2. QED
  BY <1>1, InitSameSlots, NextSameSlots, PTL DEF BothSpec

=============================================================================
