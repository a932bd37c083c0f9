----------------------------- MODULE PoolUnion -----------------------------
(***************************************************************************)
(* The pool of G1_Object_pool.cpp: class ObjectPool, whose free slots form *)
(* a list through the very bytes the objects live in.                      *)
(*                                                                         *)
(* One thread uses it.  T's constructor and destructor run inside its      *)
(* calls and may call it again: see PoolCalls.                             *)
(*                                                                         *)
(* CALLERS deallocate what they allocated, once.  A Handle does that when  *)
(* it dies; a pointer that is dropped stays allocated until the pool ends. *)
(* Destructors run by ~ObjectPool itself do not use the pool, so End is    *)
(* one step.                                                               *)
(*                                                                         *)
(* ABSTRACTION.  An object is the part of its life it is in; addresses,    *)
(* arguments and what the programs print are left out.                     *)
(***************************************************************************)
EXTENDS PoolCalls

kEnd == N                         \* end-of-list sentinel
Overwritten == N + 1              \* what is left of a link where an object was

VARIABLES
  next_free,      \* pool_[i].next_free, the same bytes as pool_[i].object
  occupied,       \* occupied_
  free_head,      \* free_head_
  chain           \* history: the free slots, last one on top

poolVars == <<next_free, occupied, free_head>>
vars == <<poolVars, object, calls, ended, chain>>

Init ==
  /\ next_free = [i \in Slots |-> i + 1]
  /\ occupied = [i \in Slots |-> FALSE]
  /\ free_head = 0
  /\ object = [i \in Slots |-> "none"]
  /\ calls = << >>
  /\ ended = FALSE
  /\ chain = [k \in 1..N |-> N - k]

CanCall == ~ended /\ Len(calls) < MaxCalls

-----------------------------------------------------------------------------
(* allocate().                                                               *)

\* Unlink before constructing: the object overwrites the link.
Allocate ==
  /\ CanCall
  /\ free_head # kEnd
  /\ free_head' = next_free[free_head]
  /\ next_free' = [next_free EXCEPT ![free_head] = Overwritten]
  /\ object' = [object EXCEPT ![free_head] = "building"]
  /\ Call("allocate", free_head)
  /\ chain' = SubSeq(chain, 1, Len(chain) - 1)
  /\ UNCHANGED <<occupied, ended>>

\* throw std::runtime_error("Object pool exhausted")
AllocateExhausted ==
  /\ CanCall
  /\ free_head = kEnd
  /\ UNCHANGED vars

\* occupied_.set(index); return result;
Constructed ==
  /\ Running("allocate")
  /\ occupied' = [occupied EXCEPT ![top] = TRUE]
  /\ object' = [object EXCEPT ![top] = "alive"]
  /\ Return
  /\ UNCHANGED <<next_free, free_head, ended, chain>>

\* Push a slot onto the front of the free list.
Push(i) ==
  /\ next_free' = [next_free EXCEPT ![i] = free_head]
  /\ free_head' = i

NotRelinked(i) == UNCHANGED <<next_free, free_head>>  \* mutated: no try and catch
Relink(i) == Push(i)

\* The constructor throws: relink, or the slot is lost.
ConstructorThrows ==
  /\ Running("allocate")
  /\ Relink(top)
  /\ object' = [object EXCEPT ![top] = "none"]
  /\ Return
  /\ chain' = Append(chain, top)
  /\ UNCHANGED <<occupied, ended>>

-----------------------------------------------------------------------------
(* deallocate(), by a pointer or by a Handle that dies.                      *)

Deallocate(i) ==
  /\ CanCall
  /\ object[i] = "alive"
  /\ object' = [object EXCEPT ![i] = "dying"]
  /\ Call("deallocate", i)
  /\ UNCHANGED <<poolVars, ended, chain>>

\* ~T() has returned.
Destroyed ==
  /\ Running("deallocate")
  /\ occupied' = [occupied EXCEPT ![top] = FALSE]
  /\ Push(top)
  /\ object' = [object EXCEPT ![top] = "none"]
  /\ Return
  /\ chain' = Append(chain, top)
  /\ UNCHANGED ended

-----------------------------------------------------------------------------
(* ~ObjectPool: the bitset tells what is still alive.                        *)

DestroysNothing(i) == FALSE                       \* mutated: the destructor is defaulted
Destroys(i) == occupied[i]

End ==
  /\ calls = << >> /\ ~ended
  /\ object' = [i \in Slots |-> IF Destroys(i) THEN "none" ELSE object[i]]
  /\ ended' = TRUE
  /\ UNCHANGED <<poolVars, calls, chain>>

Next ==
  \/ Allocate \/ AllocateExhausted \/ Constructed \/ ConstructorThrows
  \/ (\E i \in Slots : Deallocate(i)) \/ Destroyed
  \/ End

Spec == Init /\ [][Next]_vars

-----------------------------------------------------------------------------
(* Properties.                                                               *)

\* Every variable has its type.
TypeOK ==
  /\ LivesOK
  /\ next_free \in [Slots -> 0..(N + 1)]
  /\ occupied \in [Slots -> BOOLEAN]
  /\ free_head \in 0..N
  /\ chain \in Seq(Slots)

\* The list through the slots is the chain: it starts at free_head_, each link
\* names the next slot, and the last one the sentinel.
ListInv ==
  /\ free_head = IF chain = << >> THEN kEnd ELSE chain[Len(chain)]
  /\ \A k \in 1..Len(chain) :
       next_free[chain[k]] = IF k = 1 THEN kEnd ELSE chain[k - 1]

\* No slot is free twice, and the free ones are those without an object:
\* nothing is lost, and nothing in use is given out.
FreeInv ==
  /\ \A j, k \in 1..Len(chain) : chain[j] = chain[k] => j = k
  /\ \A k \in 1..Len(chain) : object[chain[k]] = "none"
  /\ ~ended => \A i \in Slots : object[i] = "none" => \E k \in 1..Len(chain) : chain[k] = i

\* occupied_ is set exactly for an object that is complete and not destroyed yet,
\* as deallocate() asserts and ~ObjectPool relies on.
OccupiedInv ==
  ~ended => \A i \in Slots : occupied[i] <=> object[i] \in {"alive", "dying"}

\* However calls nest and constructors throw: the free list is sound, holds
\* every empty slot once, and the bitset tells the truth.
IInv == TypeOK /\ ListInv /\ FreeInv /\ OccupiedInv /\ CallsInv

\* The union pool is an object pool.
Pool == INSTANCE ObjectPool
PoolSpec == Pool!Spec

=============================================================================
