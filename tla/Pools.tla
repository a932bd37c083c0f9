-------------------------------- MODULE Pools --------------------------------
(***************************************************************************)
(* The two pools side by side: whoever uses the one makes the same calls   *)
(* on the other.  G2 asks whether std::optional is good enough for what G1 *)
(* does with a union; here it does the same, slot for slot, for as long as *)
(* no constructor calls the pool it is in.  From then on G1's goes on      *)
(* alone.                                                                  *)
(***************************************************************************)
EXTENDS PoolUnion

VARIABLES
  slots, free, free_count, handles,           \* G2's
  object2, calls2, ended2,
  orderly           \* no constructor has called the pool so far

O == INSTANCE PoolOptional WITH
  CtorUsesPool <- FALSE, object <- object2, calls <- calls2, ended <- ended2

optionalVars == <<slots, free, free_count, handles, object2, calls2, ended2>>
bothVars == <<vars, optionalVars, orderly>>

BothInit == Init /\ O!Init /\ orderly = TRUE

\* The same call of both.
Both ==
  /\ orderly
  /\ \/ Allocate /\ O!Allocate
     \/ AllocateExhausted /\ O!AllocateExhausted
     \/ Constructed /\ O!Constructed
     \/ ConstructorThrows /\ O!ConstructorThrows
     \/ \E i \in Slots : Deallocate(i) /\ O!Recycle(i)
     \/ Destroyed /\ O!Destroyed
     \/ End /\ O!End
  /\ UNCHANGED orderly

\* A constructor calls the pool, or has done so.
UnionAlone ==
  /\ \/ ~orderly /\ Next
     \/ Running("allocate") /\ (Allocate \/ AllocateExhausted)
     \/ Running("allocate") /\ \E i \in Slots : Deallocate(i)
  /\ orderly' = FALSE
  /\ UNCHANGED optionalVars

Over == ended /\ UNCHANGED bothVars

BothNext == Both \/ UnionAlone \/ Over

BothSpec == BothInit /\ [][BothNext]_bothVars

-----------------------------------------------------------------------------
(* Properties: IInv and PoolSpec of PoolUnion, which hold in either part,    *)
(* and these.                                                                *)

\* G2's pool is an object pool too: no place with an object in it is given out,
\* every object dies once, and none outlives the pool.
OptionalIsPool == O!PoolSpec

\* "The simpler thing is good enough": however destructors nest and constructors
\* throw, G2's stack holds every empty slot once, has_value() tells the truth, and
\* the pools give out the same slots, since the stack is G1's list (with the slot
\* under construction still on it).
SameSlots ==
  /\ O!IInv
  /\ orderly =>
       /\ object2 = object /\ calls2 = calls /\ ended2 = ended
       /\ \A k \in 1..Len(chain) : free[k - 1] = chain[k]
       /\ free_count = Len(chain) + IF O!Running("allocate") THEN 1 ELSE 0

=============================================================================
