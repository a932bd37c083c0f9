------------------------------- MODULE MCSpsc -------------------------------
(* Two calls of run() for one queue type, as main makes them (c and e, d and *)
(* f): the second with fewer items, starting from where the first left off. *)
EXTENDS Spsc

MCItems == <<11, 6>>

=============================================================================
