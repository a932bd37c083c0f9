---------------------------- MODULE PoolOptional ----------------------------
(***************************************************************************)
(* The pool of G2_Object_pool_optional.cpp: class SimplePool, an array of  *)
(* std::optional<T> and a stack of free indices.                           *)
(*                                                                         *)
(* As in PoolUnion, constructors and destructors run inside the calls;     *)
(* destructors may call the pool, and with CtorUsesPool constructors too.  *)
(*                                                                         *)
(* CALLERS only have handles: a Handle calls recycle() once, when it dies  *)
(* or is reset, and one that is released never does.                       *)
(*                                                                         *)
(* optional::emplace() destroys a value that is there, constructs the new  *)
(* one and then has a value; reset() first has none and then destroys it.  *)
(***************************************************************************)
EXTENDS PoolCalls

CONSTANTS
  CtorUsesPool    \* constructors call the pool they are in

VARIABLES
  slots,          \* slots_[i].has_value()
  free,           \* free_
  free_count,     \* free_count_
  handles         \* handles[i]: how many handles for slot i there are

poolVars == <<slots, free, free_count>>
vars == <<poolVars, object, handles, calls, ended>>

Init ==
  /\ slots = [i \in Slots |-> FALSE]
  /\ free = [k \in Slots |-> N - 1 - k]
  /\ free_count = N
  /\ object = [i \in Slots |-> "none"]
  /\ handles = [i \in Slots |-> 0]
  /\ calls = << >>
  /\ ended = FALSE

CanCall ==
  /\ ~ended /\ Len(calls) < MaxCalls
  /\ CtorUsesPool \/ ~Running("allocate")

-----------------------------------------------------------------------------
(* allocate().                                                               *)

\* The constructor is about to run, and nothing is committed.
Allocate ==
  /\ CanCall
  /\ free_count # 0
  /\ LET index == free[free_count - 1] IN
       /\ slots' = [slots EXCEPT ![index] = FALSE]
       /\ object' = [object EXCEPT ![index] = "building"]
       /\ Call("allocate", index)
  /\ UNCHANGED <<free, free_count, handles, ended>>

\* throw std::runtime_error("Object pool exhausted")
AllocateExhausted ==
  /\ CanCall
  /\ free_count = 0
  /\ UNCHANGED vars

\* --free_count_; return Handle(...)
Constructed ==
  /\ Running("allocate")
  /\ slots' = [slots EXCEPT ![top] = TRUE]
  /\ free_count' = free_count - 1
  /\ object' = [object EXCEPT ![top] = "alive"]
  /\ handles' = [handles EXCEPT ![top] = @ + 1]
  /\ Return
  /\ UNCHANGED <<free, ended>>

CountedAnyway == free_count - 1                   \* mutated: commit before constructing
CountKept == free_count

\* The constructor throws: there is nothing to undo.
ConstructorThrows ==
  /\ Running("allocate")
  /\ free_count' = CountKept
  /\ object' = [object EXCEPT ![top] = "none"]
  /\ Return
  /\ UNCHANGED <<slots, free, handles, ended>>

-----------------------------------------------------------------------------
(* recycle(), called by a handle that dies.                                  *)

Recycle(i) ==
  /\ CanCall
  /\ handles[i] > 0
  /\ handles' = [handles EXCEPT ![i] = @ - 1]
  /\ slots' = [slots EXCEPT ![i] = FALSE]
  /\ object' = [object EXCEPT ![i] = "dying"]
  /\ Call("deallocate", i)
  /\ UNCHANGED <<free, free_count, ended>>

FreeBeyond == [free EXCEPT ![free_count - 1] = top]  \* mutated: [--free_count_]
FreePushed == [free EXCEPT ![free_count] = top]

\* The destructor has returned: free_[free_count_++] = index.
Destroyed ==
  /\ Running("deallocate")
  /\ free' = FreePushed
  /\ free_count' = free_count + 1
  /\ object' = [object EXCEPT ![top] = "none"]
  /\ Return
  /\ UNCHANGED <<slots, handles, ended>>

-----------------------------------------------------------------------------
EmptiedNothing(i) == FALSE                        \* mutated: bytes, not optionals
Emptied(i) == slots[i]

\* ~array<optional<T>, N> destroys whatever is there.  No handle outlives it.
End ==
  /\ calls = << >> /\ ~ended
  /\ object' = [i \in Slots |-> IF Emptied(i) THEN "none" ELSE object[i]]
  /\ ended' = TRUE
  /\ UNCHANGED <<poolVars, handles, calls>>

Next ==
  \/ Allocate \/ AllocateExhausted \/ Constructed \/ ConstructorThrows
  \/ (\E i \in Slots : Recycle(i)) \/ Destroyed
  \/ End

Spec == Init /\ [][Next]_vars

-----------------------------------------------------------------------------
(* Properties.                                                               *)

\* Every variable has its type.
TypeOK ==
  /\ LivesOK
  /\ slots \in [Slots -> BOOLEAN]
  /\ free \in [Slots -> Slots]
  /\ free_count \in 0..N
  /\ handles \in [Slots -> Nat]

\* assert(slots_[index].has_value() && "double free, or never allocated"):
\* a handle that dies finds its object.
RecycleFindsObject == ~ended => \A i \in Slots : handles[i] > 0 => slots[i]

\* What the stack holds, no index twice: every slot with no object in it, and the
\* one whose constructor is running.
FreeInv ==
  /\ \A j, k \in 0..(free_count - 1) : free[j] = free[k] => j = k
  /\ ~ended => \A i \in Slots :
       object[i] \in {"none", "building"} <=> \E k \in 0..(free_count - 1) : free[k] = i

\* has_value() is the occupancy flag.
ValueInv == ~ended => \A i \in Slots : slots[i] <=> object[i] = "alive"

\* A living object has one handle at most, and only living objects have any.
HandlesInv ==
  ~ended => \A i \in Slots : handles[i] <= IF object[i] = "alive" THEN 1 ELSE 0

\* A running constructor is that of the top of the stack, and of the innermost
\* call.
ConstructorInv ==
  \A k \in 1..Len(calls) :
    calls[k].op = "allocate" =>
      k = Len(calls) /\ free_count > 0 /\ calls[k].slot = free[free_count - 1]

\* However destructors nest and constructors throw: the stack holds every empty
\* slot once, and has_value() tells the truth.
IInv == TypeOK /\ FreeInv /\ ValueInv /\ HandlesInv /\ CallsInv /\ ConstructorInv

\* The optional pool is an object pool, if constructors leave it alone.
Pool == INSTANCE ObjectPool
PoolSpec == Pool!Spec

=============================================================================
