----------------------------- MODULE Ownership -----------------------------
(***************************************************************************)
(* Shared ownership in A3, A4 and F2 (test4 and test5).                    *)
(*                                                                         *)
(*   pair   two nodes with a pointer `other' each, which is a shared_ptr   *)
(*          in N and a weak_ptr in NFixed.  main() makes them point at     *)
(*          each other; here they may also be left, turned round or made   *)
(*          to point at themselves before the scope ends.                  *)
(*   call   f(make_shared<Widget>(), mayThrow(...)): which argument is     *)
(*          evaluated first is the compiler's choice                       *)
(*                                                                         *)
(* A control block counts the shared_ptrs (strong) and the weak_ptrs, with *)
(* one more in `weak' as long as there is a shared_ptr.                    *)
(***************************************************************************)
EXTENDS Integers, Sequences, FiniteSets

CONSTANT MaxLinks       \* assignments to `other'

Nodes == {"a", "b"}
None == "none"

VARIABLES
  job,            \* "pair" or "call"
  fixed,          \* the nodes are NFixed
  opc,
  state,          \* node -> "none", "alive", "destroyed", "freed"
  strong, weak,   \* the counts of its control block
  held,           \* the nodes that a local variable or an argument holds
  other,          \* node -> where its pointer points
  todo,           \* pointers that are being destroyed, the next one first
  doThrow,        \* argument of mayThrow()
  thrown,         \* mayThrow() has been evaluated, and threw
  links           \* assignments made

ownershipVars ==
  <<job, fixed, opc, state, strong, weak, held, other, todo, doThrow, thrown, links>>

Init ==
  /\ job \in {"pair", "call"}
  /\ fixed \in BOOLEAN /\ doThrow \in BOOLEAN
  /\ opc = "make"
  /\ state = [n \in Nodes |-> "none"]
  /\ strong = [n \in Nodes |-> 0] /\ weak = strong
  /\ held = {}
  /\ other = [n \in Nodes |-> None]
  /\ todo = <<>>
  /\ thrown = FALSE
  /\ links = 0

Made(n) ==      \* make_shared<T>()
  /\ state' = [state EXCEPT ![n] = "alive"]
  /\ strong' = [strong EXCEPT ![n] = 1]
  /\ weak' = [weak EXCEPT ![n] = 1]
  /\ held' = held \cup {n}

---------------------------------------------------------------------------
(* pair.                                                                   *)

MakeNode(n) ==
  /\ job = "pair" /\ opc = "make"
  /\ held = IF n = "a" THEN {} ELSE {"a"}
  /\ Made(n)
  /\ opc' = IF n = "b" THEN "link" ELSE opc
  /\ UNCHANGED <<job, fixed, other, todo, doThrow, thrown, links>>

\* The pointer is set before the count that it held is given back.
Drop(n) ==
  IF n = None THEN <<>> ELSE <<[count |-> IF fixed THEN "weak" ELSE "strong", of |-> n]>>

Link(n, m) ==   \* n->other = m
  /\ opc = "link" /\ todo = <<>> /\ links < MaxLinks
  /\ links' = links + 1
  /\ other' = [other EXCEPT ![n] = m]
  /\ IF fixed THEN weak' = [weak EXCEPT ![m] = @ + 1] /\ UNCHANGED strong
              ELSE strong' = [strong EXCEPT ![m] = @ + 1] /\ UNCHANGED weak
  /\ todo' = Drop(other[n])
  /\ UNCHANGED <<job, fixed, opc, state, held, doThrow, thrown>>

\* End of scope: b and then a.
LeaveScope ==
  /\ opc \in {"link", "called"} /\ todo = <<>> /\ held # {}
  /\ LET n == IF "b" \in held THEN "b" ELSE "a"
     IN /\ held' = held \ {n}
        /\ todo' = <<[count |-> "strong", of |-> n]>>
  /\ UNCHANGED <<job, fixed, opc, state, strong, weak, other, doThrow, thrown, links>>

---------------------------------------------------------------------------
(* A shared_ptr or weak_ptr is destroyed.                                  *)

Counted(p) == IF p.count = "strong" THEN strong[p.of] ELSE weak[p.of]

\* mutated: the count is compared before it is taken down
LastAsRead(p) == Counted(p) = 0
Last(p) == Counted(p) = 1

\* The last shared_ptr destroys the node, that is its `other' as well, and gives
\* back what the shared_ptrs together have in `weak'.
DropShared ==
  /\ todo # <<>> /\ Head(todo).count = "strong"
  /\ LET n == Head(todo).of
     IN /\ strong' = [strong EXCEPT ![n] = @ - 1]
        /\ IF Last(Head(todo))
           THEN /\ state' = [state EXCEPT ![n] = "destroyed"]
                /\ other' = [other EXCEPT ![n] = None]
                /\ todo' = Drop(other[n]) \o <<[count |-> "weak", of |-> n]>> \o Tail(todo)
           ELSE todo' = Tail(todo) /\ UNCHANGED <<state, other>>
  /\ UNCHANGED <<job, fixed, opc, weak, held, doThrow, thrown, links>>

\* The last of all frees the memory.
DropWeak ==
  /\ todo # <<>> /\ Head(todo).count = "weak"
  /\ LET n == Head(todo).of
     IN /\ weak' = [weak EXCEPT ![n] = @ - 1]
        /\ state' = IF Last(Head(todo)) THEN [state EXCEPT ![n] = "freed"] ELSE state
  /\ todo' = Tail(todo)
  /\ UNCHANGED <<job, fixed, opc, strong, held, other, doThrow, thrown, links>>

---------------------------------------------------------------------------
(* call.                                                                   *)

\* The arguments are evaluated one after the other, in either order; f() takes
\* the shared_ptr and destroys it when it returns.
EvaluateWidget ==
  /\ job = "call" /\ opc \in {"make", "widget_left"} /\ ~thrown
  /\ Made("a")
  /\ opc' = IF opc = "make" THEN "number_left" ELSE "called"
  /\ UNCHANGED <<job, fixed, other, todo, doThrow, thrown, links>>

\* If mayThrow() throws, what has been evaluated is destroyed.
EvaluateNumber ==
  /\ job = "call" /\ opc \in {"make", "number_left"}
  /\ thrown' = doThrow
  /\ opc' = IF doThrow \/ opc = "number_left" THEN "called" ELSE "widget_left"
  /\ UNCHANGED <<job, fixed, state, strong, weak, held, other, todo, doThrow, links>>

Return ==
  /\ opc \in {"link", "called"} /\ todo = <<>> /\ held = {}
  /\ opc' = "returned"
  /\ UNCHANGED <<job, fixed, state, strong, weak, held, other, todo, doThrow, thrown, links>>

Returned == opc = "returned" /\ UNCHANGED ownershipVars

Next ==
  \/ \E n \in Nodes : MakeNode(n)
  \/ \E n, m \in held : Link(n, m)
  \/ LeaveScope
  \/ DropShared \/ DropWeak
  \/ EvaluateWidget \/ EvaluateNumber
  \/ Return \/ Returned

---------------------------------------------------------------------------
(* Properties.                                                             *)

PointsAt(n) == {m \in Nodes : state[m] = "alive" /\ other[m] = n}
InCycle(n) == ~fixed /\ (other[n] = n \/ (other[n] # None /\ other[other[n]] = n))

\* "the cycle leaked" (A4:26): when the scope is left, a node is still there if
\* and only if shared_ptrs lead from it back to it; with weak_ptr never, and a
\* Widget never, whichever argument came first.  Until then no node that can be
\* reached is destroyed or freed, and the counts are what is there to be counted.
LeakIffCycle ==
  /\ opc = "returned" =>
       \A n \in Nodes :
         /\ state[n] = "alive" <=> InCycle(n)
         /\ state[n] \in {"none", "alive", "freed"}
  /\ \A n \in held : state[n] = "alive"
  /\ \A n \in Nodes : state[n] = "alive" /\ other[n] # None =>
       state[other[n]] \in IF fixed THEN {"alive", "destroyed"} ELSE {"alive"}
  /\ todo = <<>> =>
       \A n \in Nodes :
         strong[n] = Cardinality({n} \cap held) + IF fixed THEN 0 ELSE Cardinality(PointsAt(n))
=============================================================================
