----------------------------- MODULE ObjectPool -----------------------------
(***************************************************************************)
(* What the object pools of G1_Object_pool.cpp and                         *)
(* G2_Object_pool_optional.cpp promise, with no free list in them: N       *)
(* places, each empty or with one object in some part of its life.         *)
(* Constructors and destructors run inside the pool's own calls and may    *)
(* call it again, so calls nest.                                           *)
(***************************************************************************)
EXTENDS Integers, Sequences

CONSTANTS Slots

VARIABLES
  object,           \* object[i]: what lives in place i
  calls,            \* the calls in progress, the innermost last
  ended             \* the pool is destroyed

poolVars == <<object, calls, ended>>

Init ==
  /\ object = [i \in Slots |-> "none"]
  /\ calls = << >>
  /\ ended = FALSE

\* An empty place is taken, and a constructor runs there.
Allocate ==
  \E i \in Slots :
    /\ ~ended /\ object[i] = "none"
    /\ object' = [object EXCEPT ![i] = "building"]
    /\ calls' = Append(calls, [op |-> "allocate", slot |-> i])
    /\ UNCHANGED ended

\* A living object's destructor runs.
Deallocate ==
  \E i \in Slots :
    /\ ~ended /\ object[i] = "alive"
    /\ object' = [object EXCEPT ![i] = "dying"]
    /\ calls' = Append(calls, [op |-> "deallocate", slot |-> i])
    /\ UNCHANGED ended

\* The innermost call ends: its object lives, or is gone.
Return(op, outcome) ==
  /\ calls # << >>
  /\ LET frame == calls[Len(calls)] IN
       /\ frame.op = op
       /\ object[frame.slot] = IF op = "allocate" THEN "building" ELSE "dying"
       /\ object' = [object EXCEPT ![frame.slot] = outcome]
  /\ calls' = SubSeq(calls, 1, Len(calls) - 1)
  /\ UNCHANGED ended

\* The pool's destructor ends the life of every object, and leaves none behind.
End ==
  /\ calls = << >> /\ ~ended
  /\ \A i \in Slots : object[i] \in {"none", "alive"}
  /\ object' = [i \in Slots |-> "none"]
  /\ ended' = TRUE
  /\ UNCHANGED calls

Next ==
  \/ Allocate \/ Deallocate
  \/ Return("allocate", "alive") \/ Return("allocate", "none")
  \/ Return("deallocate", "none")
  \/ End

Spec == Init /\ [][Next]_poolVars

=============================================================================
