----------------------------- MODULE PoolCalls -----------------------------
(***************************************************************************)
(* What PoolUnion and PoolOptional share: the slots, the lives of their    *)
(* objects, and the stack of the calls in progress.                        *)
(*                                                                         *)
(* T's constructor runs in the middle of allocate() and its destructor in  *)
(* the middle of deallocate() or recycle(); either may call the pool again *)
(* (a tree node with children in the same pool does), and the constructor  *)
(* may throw.  Each call is therefore two actions, before and after it     *)
(* runs, with a frame on `calls' in between.                               *)
(***************************************************************************)
EXTENDS Integers, Sequences

CONSTANTS
  N,              \* slots
  MaxCalls        \* bound: nested calls

\* static_assert(N > 0)
ASSUME ConstantsAssumption == N \in Nat \ {0} /\ MaxCalls \in Nat

Slots == 0..(N - 1)

VARIABLES
  object,         \* object[i]: the part of its life the object in slot i is in
  calls,          \* the calls in progress, the innermost last
  ended           \* the pool is destroyed

Frame == [op : {"allocate", "deallocate"}, slot : Slots]

Call(name, i) == calls' = Append(calls, [op |-> name, slot |-> i])

Running(name) == calls # << >> /\ calls[Len(calls)].op = name
top == calls[Len(calls)].slot     \* `index' of the innermost call
Return == calls' = SubSeq(calls, 1, Len(calls) - 1)

LivesOK ==
  /\ object \in [Slots -> {"none", "building", "alive", "dying"}]
  /\ calls \in Seq(Frame)
  /\ ended \in BOOLEAN

\* Each call in progress has a slot of its own, with an object that it is
\* building or destroying, and every such object has its call.
CallsInv ==
  /\ \A j, k \in 1..Len(calls) : calls[j].slot = calls[k].slot => j = k
  /\ \A k \in 1..Len(calls) :
       object[calls[k].slot] = IF calls[k].op = "allocate" THEN "building" ELSE "dying"
  /\ \A i \in Slots :
       object[i] \in {"building", "dying"} => \E k \in 1..Len(calls) : calls[k].slot = i
  /\ ended => calls = << >>

=============================================================================
