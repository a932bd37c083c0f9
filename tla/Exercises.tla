----------------------------- MODULE Exercises -----------------------------
(***************************************************************************)
(* The programs of the workbook in which one thread does everything.  They *)
(* share nothing, so one of the four kinds is picked at the start: the     *)
(* lifetimes that H1 and H2 manage by hand, the owners of A3, A4 and F2,   *)
(* the programs that K3 and K4 compile, or one of the small algorithms.    *)
(* Its names are not those of Measurements: the proofs extend both.        *)
(***************************************************************************)
EXTENDS Integers

CONSTANTS
  N, MaxSteps,            \* ManualLifetime
  MaxLinks,               \* Ownership
  Calls, MaxLines, PipeSize,      \* Snippets
  Width, MaxArgs          \* Computations

ASSUME ExercisesAssumption ==
  {N, MaxSteps, MaxLinks, Calls, MaxLines, PipeSize, Width, MaxArgs} \subseteq Nat \ {0}

VARIABLES
  exercise,       \* "lifetime", "ownership", "snippets" or "computation"
  task, pc, cell, built, live, throw_on, kind, active, setting, steps,
  job, fixed, opc, state, strong, weak, held, other, todo, doThrow, thrown, links,
  function, spc, src, bin, child, status, verdict, stream, output, body, popens, counted,
  made,
  input, result, computed

lifetimeVars == <<task, pc, cell, built, live, throw_on, kind, active, setting, steps>>
ownershipVars ==
  <<job, fixed, opc, state, strong, weak, held, other, todo, doThrow, thrown, links>>
snippetVars ==
  <<function, spc, src, bin, child, status, verdict, stream, output, body, popens,
    counted, made>>
computationVars == <<input, result, computed>>
exerciseVars ==
  <<exercise, lifetimeVars, ownershipVars, snippetVars, computationVars>>

Lifetime == INSTANCE ManualLifetime
Owners == INSTANCE Ownership
Compiled == INSTANCE Snippets WITH count <- counted
Algorithm == INSTANCE Computations

\* What is not picked has one initial state, and stays in it.
ExercisesInit ==
  /\ exercise \in {"lifetime", "ownership", "snippets", "computation"}
  /\ Lifetime!Init /\ Owners!Init /\ Compiled!Init /\ Algorithm!Init
  /\ exercise # "lifetime" => task = "storage"
  /\ exercise # "ownership" => job = "pair" /\ ~fixed /\ ~doThrow
  /\ exercise # "computation" => input = [of |-> "size", args |-> <<0>>]

Lifetimes ==
  /\ exercise = "lifetime" /\ Lifetime!Next
  /\ UNCHANGED <<exercise, ownershipVars, snippetVars, computationVars>>

Owns ==
  /\ exercise = "ownership" /\ Owners!Next
  /\ UNCHANGED <<exercise, lifetimeVars, snippetVars, computationVars>>

Compiles ==
  /\ exercise = "snippets" /\ Compiled!Next
  /\ UNCHANGED <<exercise, lifetimeVars, ownershipVars, computationVars>>

Computes ==
  /\ exercise = "computation" /\ Algorithm!Next
  /\ UNCHANGED <<exercise, lifetimeVars, ownershipVars, snippetVars>>

ExercisesNext == Lifetimes \/ Owns \/ Compiles \/ Computes

ExercisesSpec == ExercisesInit /\ [][ExercisesNext]_exerciseVars

-----------------------------------------------------------------------------
(* Properties.                                                             *)

\* H1, H2: every object dies exactly once, also when a constructor throws.
LivesOnce == Lifetime!LivesOnce

\* A3, A4, F2: what is shared leaks if and only if it owns itself in a circle.
LeakIffCycle == Owners!LeakIffCycle

\* K3, K4: no call leaves a file or a process, or a number of nothing.
NothingLeftBehind == Compiled!NothingLeftBehind

\* J1, J2, K3, K4: no function and the program it has started wait for each other.
NeverBothWait == Compiled!NeverBothWait

\* B1, C1, C2, C4, F2, K1 to K4: the algorithms compute what they should.
MatchesDefinition == Algorithm!MatchesDefinition
=============================================================================
