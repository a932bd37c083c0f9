--------------------------- MODULE ManualLifetime ---------------------------
(***************************************************************************)
(* Objects whose lifetime nobody manages but the program: H1's RawStorage, *)
(* RawBlock and construct_all(), and H2's Value and Tagged.                *)
(*                                                                         *)
(*   storage   RawStorage: one object after another in the same bytes      *)
(*             (sections 2 to 5, 8 and 9 of H1)                            *)
(*   block     RawBlock, built up to some index and taken down again, from *)
(*             the end or with destroy_n() (sections 6 and 9)              *)
(*   all       construct_all() with a constructor that throws, and again   *)
(*             on the same block (section 7)                               *)
(*   tagged    H2's Tagged: set() of an integer, a real or a text          *)
(*   value     H2's Value, its text built and destroyed by hand (section 5)*)
(*                                                                         *)
(* A cell is "raw" or holds an object.  What C++ leaves undefined or lets  *)
(* leak is a cell that is "lost": an object built over another, a          *)
(* destructor run where there is none, a member read that is not active.   *)
(* Arithmetic members are always there to be written: they count as raw.   *)
(***************************************************************************)
EXTENDS Integers

CONSTANTS
  N,              \* size of the block
  MaxSteps        \* objects put into a storage, calls of set() and construct_all()

Cells == 0..(N - 1)
Kinds == {"Integer", "Real", "Text"}

VARIABLES
  task,           \* one of the above
  pc,
  cell,           \* index -> "raw", "live" or "lost"
  built,          \* built, or the index of the loop over a block
  live,           \* Fragile::live
  throw_on,       \* Fragile::throw_on
  kind,           \* kind_ of Tagged
  active,         \* the member of its value_ that was written last
  setting,        \* the kind that set() is called with
  steps           \* uses made so far

lifetimeVars == <<task, pc, cell, built, live, throw_on, kind, active, setting, steps>>

Init ==
  /\ task \in {"storage", "block", "all", "tagged", "value"}
  /\ pc = "start"
  /\ cell = [c \in Cells |-> "raw"]
  /\ built = 0 /\ live = 0 /\ throw_on = -1
  /\ kind = "Integer" /\ active = "Integer" /\ setting = "Integer"
  /\ steps = 0

Constructed(c) == [cell EXCEPT ![c] = IF @ = "raw" THEN "live" ELSE "lost"]
Destroyed(c) == [cell EXCEPT ![c] = IF @ = "live" THEN "raw" ELSE "lost"]
Goto(l) == pc' = l
tagVars == <<kind, active, setting>>

---------------------------------------------------------------------------
(* H1.                                                                     *)

\* storage: construct(), use, destroy(), as often as there are objects
Construct ==
  /\ task = "storage" /\ pc = "start" /\ steps < MaxSteps
  /\ cell' = Constructed(0)
  /\ steps' = steps + 1
  /\ Goto("use")
  /\ UNCHANGED <<task, built, live, throw_on, tagVars>>

Destroy ==
  /\ task = "storage" /\ pc = "use"
  /\ cell' = Destroyed(0)
  /\ Goto("start")
  /\ UNCHANGED <<task, built, live, throw_on, tagVars, steps>>

\* block: some first slots are built; the rest must be left alone
BuildNext ==
  /\ task = "block" /\ pc = "start" /\ built < N
  /\ cell' = Constructed(built)
  /\ built' = built + 1
  /\ UNCHANGED <<task, pc, live, throw_on, tagVars, steps>>

Enough ==
  /\ task = "block" /\ pc = "start"
  /\ Goto("down")
  /\ UNCHANGED <<task, cell, built, live, throw_on, tagVars, steps>>

TakeDown ==     \* for (i = built; i-- > 0;) destroy(i)
  /\ task = "block" /\ pc = "down" /\ built > 0
  /\ cell' = Destroyed(built - 1)
  /\ built' = built - 1
  /\ UNCHANGED <<task, pc, live, throw_on, tagVars, steps>>

DestroyN ==     \* destroy_n(at(0), N), where all were built
  /\ task = "block" /\ pc = "down" /\ built = N
  /\ cell' = [c \in Cells |-> Destroyed(c)[c]]
  /\ built' = 0
  /\ UNCHANGED <<task, pc, live, throw_on, tagVars, steps>>

\* all: the arguments of the constructors decide which throws, if any
CallConstructAll ==
  /\ task = "all" /\ pc = "start" /\ steps < MaxSteps
  /\ throw_on' \in {-1} \cup Cells
  /\ built' = 0
  /\ steps' = steps + 1
  /\ Goto("build")
  /\ UNCHANGED <<task, cell, live, tagVars>>

BuildOne ==
  /\ task = "all" /\ pc = "build" /\ built < N /\ live # throw_on
  /\ cell' = Constructed(built)
  /\ live' = live + 1
  /\ built' = built + 1
  /\ UNCHANGED <<task, pc, throw_on, tagVars, steps>>

\* mutated: built-- > 0 written --built > 0, which leaves the first
UnwindsAllButFirst == built - 1 > 0
Unwinds == built > 0

ConstructorThrows ==
  /\ task = "all" /\ pc = "build" /\ built < N /\ live = throw_on
  /\ Goto("unwind")
  /\ UNCHANGED <<task, cell, built, live, throw_on, tagVars, steps>>

Unwind ==       \* while (built-- > 0) destroy(built)
  /\ task = "all" /\ pc = "unwind" /\ Unwinds
  /\ cell' = Destroyed(built - 1)
  /\ live' = live - 1
  /\ built' = built - 1
  /\ UNCHANGED <<task, pc, throw_on, tagVars, steps>>

Rethrow ==      \* the caller catches it, and may try again
  /\ task = "all" /\ pc = "unwind" /\ ~Unwinds
  /\ throw_on' = -1
  /\ Goto("start")
  /\ UNCHANGED <<task, cell, built, live, tagVars, steps>>

AllBuilt ==     \* it returns, and the caller has N objects to destroy
  /\ task = "all" /\ pc = "build" /\ built = N
  /\ cell' = [c \in Cells |-> Destroyed(c)[c]]
  /\ live' = live - N
  /\ Goto("start")
  /\ UNCHANGED <<task, built, throw_on, tagVars, steps>>

---------------------------------------------------------------------------
(* H2.  The text of a Tagged or a Value is cell 0.                         *)

\* A text is passed by value: it is built, which may throw, before set() runs.
Set(k) ==
  /\ task = "tagged" /\ pc = "start" /\ steps < MaxSteps
  /\ steps' = steps + 1
  /\ \/ setting' = k /\ Goto("clear")
     \/ k = "Text" /\ UNCHANGED <<setting, pc>>
  /\ UNCHANGED <<task, cell, built, live, throw_on, kind, active>>

MustDestroy == kind = "Text"

Clear ==
  /\ task = "tagged" /\ pc = "clear"
  /\ cell' = IF MustDestroy THEN Destroyed(0) ELSE cell
  /\ Goto("write")
  /\ UNCHANGED <<task, built, live, throw_on, tagVars, steps>>

\* A text is constructed by moving, which cannot throw; the others are assigned.
Write ==
  /\ task = "tagged" /\ pc = "write"
  /\ cell' = IF setting = "Text" THEN Constructed(0)
             ELSE [cell EXCEPT ![0] = IF @ = "raw" THEN @ ELSE "lost"]
  /\ active' = setting
  /\ Goto("tag")
  /\ UNCHANGED <<task, built, live, throw_on, kind, setting, steps>>

Tag ==
  /\ task = "tagged" /\ pc = "tag"
  /\ kind' = setting
  /\ Goto("start")
  /\ UNCHANGED <<task, cell, built, live, throw_on, active, setting, steps>>

Destructor ==
  /\ task = "tagged" /\ pc = "start"
  /\ cell' = IF MustDestroy THEN Destroyed(0) ELSE cell
  /\ Goto("returned")
  /\ UNCHANGED <<task, built, live, throw_on, tagVars, steps>>

\* value: construct_at(&v.text), destroy_at(&v.text), v.integer = 1
BuildText ==
  /\ task = "value" /\ pc = "start"
  /\ cell' = Constructed(0) /\ active' = "Text"
  /\ Goto("use")
  /\ UNCHANGED <<task, built, live, throw_on, kind, setting, steps>>

DestroyText ==
  /\ task = "value" /\ pc = "use"
  /\ cell' = Destroyed(0) /\ active' = "Integer"
  /\ Goto("returned")
  /\ UNCHANGED <<task, built, live, throw_on, kind, setting, steps>>

\* The scope ends; storage and blocks have no destructor that would help.
ScopeEnds ==
  /\ \/ task \in {"storage", "all"} /\ pc = "start"
     \/ task = "block" /\ pc = "down" /\ built = 0
  /\ Goto("returned")
  /\ UNCHANGED <<task, cell, built, live, throw_on, tagVars, steps>>

Returned == pc = "returned" /\ UNCHANGED lifetimeVars

Next ==
  \/ Construct \/ Destroy
  \/ BuildNext \/ Enough \/ TakeDown \/ DestroyN
  \/ CallConstructAll \/ BuildOne \/ ConstructorThrows \/ Unwind \/ Rethrow \/ AllBuilt
  \/ (\E k \in Kinds : Set(k)) \/ Clear \/ Write \/ Tag \/ Destructor
  \/ BuildText \/ DestroyText
  \/ ScopeEnds \/ Returned

---------------------------------------------------------------------------
(* Properties.                                                             *)

Live == {c \in Cells : cell[c] = "live"}

\* Every object dies exactly once, before its bytes are used again or go away.
\* construct_all() that throws leaves nothing built (H1:105) and Fragile::live
\* as it was; between calls a Tagged's tag names the member that is active, also
\* after a text could not be made (H2:71), so print() and clear() touch that one.
LivesOnce ==
  /\ \A c \in Cells : cell[c] # "lost"
  /\ pc = "returned" => Live = {}
  /\ task = "all" =>
       /\ Live = 0..(live - 1)
       /\ pc = "start" => Live = {}
  /\ task = "tagged" /\ pc = "start" =>
       /\ kind = active
       /\ Live = IF kind = "Text" THEN {0} ELSE {}
=============================================================================
