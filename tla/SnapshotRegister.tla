-------------------------- MODULE SnapshotRegister --------------------------
(***************************************************************************)
(* What the seqlock of J3_seqlock.cpp promises: a register one writer      *)
(* updates and any number of readers take snapshots of.  A snapshot is one *)
(* whole update, never a mixture, and no reader ever goes back to an older *)
(* one.  A reader may be late, and the writer never waits for it.          *)
(***************************************************************************)
EXTENDS Integers

CONSTANTS Words, Readers

VARIABLES
  value,            \* the number of the last update made
  snapshot          \* snapshot[r]: what r saw last, word by word

registerVars == <<value, snapshot>>

Whole(k) == [i \in Words |-> k]

Init ==
  /\ value = 0
  /\ snapshot = [r \in Readers |-> Whole(0)]

Write ==
  /\ value' = value + 1
  /\ UNCHANGED snapshot

Read(r) ==
  \E k \in 0..value :
    /\ \A i \in Words : snapshot[r][i] <= k
    /\ snapshot' = [snapshot EXCEPT ![r] = Whole(k)]
    /\ UNCHANGED value

Next == Write \/ \E r \in Readers : Read(r)

Spec == Init /\ [][Next]_registerVars

=============================================================================
