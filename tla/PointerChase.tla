---------------------------- MODULE PointerChase ----------------------------
(***************************************************************************)
(* The memory walks that I2 to I5 time.  Each maps a region, lays a chain  *)
(* of links through it in an order it may shuffle, walks the chain once to *)
(* warm it and then walks it again with the clock running:                 *)
(*                                                                         *)
(*   lines     measure_chase() of I2: all lines of the region, in any      *)
(*             order; the links are line numbers                           *)
(*   comb      measure_comb() of I3: pages in any order, the lines of each *)
(*             in address order, times sorted by offset in the page        *)
(*   ring      measure() of I4: pages in any order and lines in any order; *)
(*             the links between pages are patched in afterwards and each  *)
(*             entry line carries a hint where the next page is entered    *)
(*   pages     measure_walk() of I5: one line of each page, in any order   *)
(*   one page  measure_baseline() of I5                                    *)
(*   split     measure_split() of I2: no chain, one load in each page, at  *)
(*             an offset where it may reach into the next                  *)
(*                                                                         *)
(* What is timed means something only if the walk goes where it is thought *)
(* to go; that is what is modelled.  No code checks it: warm-up loops drop *)
(* what they read, although I2:174 says the first proves the chain.        *)
(*                                                                         *)
(* A counter of the hardware, opened after warming, is to count the misses *)
(* of the timed loads and nothing else.  It may not be there.  Here every  *)
(* load is a miss, which is the most that it can count.                    *)
(*                                                                         *)
(* UNITS.  Addresses count four bytes, so a 64-bit word is two units.  The *)
(* geometry of the machine is a parameter.  Times are left out.            *)
(***************************************************************************)
EXTENDS Integers, Functions, FiniteSets

CONSTANTS
  kLine,          \* units in a cache line (16)
  kLinesPerPage,  \* lines in a page (64)
  kPages,         \* pages of the region of comb, ring, pages and split
  Lines,          \* lines of the region of lines
  kReps           \* passes of ring, pages and split

Word == 2
kPageSize == kLine * kLinesPerPage

VARIABLES
  walk,           \* which of the programs this is
  cpc,            \* where it is
  bytes,          \* size of the mapped region, 0 if there is none
  mem,            \* its words
  order,          \* perm, order or page_order
  software_prefetch,
  entry,          \* entry of ring
  at,             \* i of the loop that links; page of split
  idx,            \* idx, or index: what the last load returned
  step,           \* s: loads of this pass
  rep,            \* rep, r: passes done
  position,       \* position of ring
  count,          \* count of comb and ring
  hint,           \* the last hint prefetched by ring
  dtlb,           \* the counter: fd >= 0, enabled, and what it shows
  misses_total    \* misses_total, or misses where there is one pass

program == <<walk, software_prefetch>>
passVars == <<position, count, hint>>
perfVars == <<dtlb, misses_total>>
chaseVars == <<program, cpc, bytes, mem, order, entry, at, idx, step, rep, passVars, perfVars>>

Walks == {"lines", "comb", "ring", "pages", "one_page", "split"}
Offsets == {0, kLine - 1, kPageSize - 1}        \* offset of measure_split()

\* map_region()'s argument.  A load of split may end in the page after the last.
SplitBytes == (kPages + 1) * kPageSize
RegionBytes ==
  CASE walk = "lines" -> Lines * kLine
    [] walk = "one_page" -> kPageSize
    [] walk = "split" -> SplitBytes
    [] OTHER -> kPages * kPageSize

\* What the chain is laid through, in the order of `order'.
Links ==
  CASE walk = "lines" -> Lines
    [] walk = "one_page" -> kLinesPerPage
    [] OTHER -> kPages
Shuffles == walk \in {"lines", "comb", "ring", "pages"}

LineIds == 0..(kLinesPerPage - 1)
Identity(n) == [i \in 0..(n - 1) |-> i]
Orders(n) == Bijection(0..(n - 1), 0..(n - 1))
NoCount == [b \in LineIds |-> 0]
Closed == [open |-> FALSE, enabled |-> FALSE, value |-> 0]

Init ==
  /\ walk \in Walks
  /\ software_prefetch \in IF walk = "ring" THEN BOOLEAN ELSE {FALSE}
  /\ cpc = "map"
  /\ bytes = 0 /\ mem = <<>>
  /\ order = <<>> /\ entry = <<>>
  /\ at = 0 /\ idx = 0 /\ step = 0 /\ rep = 0 /\ position = 0
  /\ count = NoCount
  /\ hint = -1
  /\ dtlb = Closed /\ misses_total = 0

---------------------------------------------------------------------------
(* Mapping and linking.                                                    *)

\* Memory is zeroed.  With shuffled pages comes the identity too, which is the
\* program's sequential order.
Map ==
  /\ cpc = "map"
  /\ bytes' = RegionBytes
  /\ mem' = [a \in {w \in 0..(RegionBytes - 1) : w % Word = 0} |-> 0]
  /\ order' \in IF Shuffles THEN Orders(Links) ELSE {Identity(Links)}
  /\ entry' = [i \in 0..(Links - 1) |-> 0]
  /\ IF walk = "split"
     THEN cpc' = "open" /\ idx' \in Offsets
     ELSE cpc' = "link" /\ idx' = idx
  /\ UNCHANGED <<program, at, step, rep, passVars, perfVars>>

\* mmap() fails, or there are no huge pages: the measurement is not made.
MapFails ==
  /\ cpc = "map"
  /\ cpc' = "returned"
  /\ UNCHANGED <<program, bytes, mem, order, entry, at, idx, step, rep, passVars, perfVars>>

Page(i) == order[i] * kPageSize
After(i) == (i + 1) % Links
LastLine == kLinesPerPage - 1
Writes(f) == mem' = [a \in DOMAIN mem |-> IF a \in DOMAIN f THEN f[a] ELSE mem[a]]

\* The chain begins at its first page or line, `lines' at line 0.
Begins ==
  CASE walk \in {"lines", "one_page"} -> 0
    [] walk = "ring" -> entry[0]
    [] OTHER -> Page(0)

Linked ==
  IF at + 1 < Links
  THEN at' = at + 1 /\ UNCHANGED <<cpc, idx>>
  ELSE /\ at' = 0
       /\ IF walk = "ring" THEN cpc' = "patch" /\ idx' = idx
                           ELSE cpc' = "warm" /\ idx' = Begins

LinkLine ==     \* lines: a line number; one page: an address
  /\ cpc = "link" /\ walk \in {"lines", "one_page"}
  /\ Writes([a \in {order[at] * kLine} |->
               IF walk = "lines" THEN order[After(at)] ELSE order[After(at)] * kLine])
  /\ Linked
  /\ UNCHANGED <<program, bytes, order, entry, step, rep, passVars, perfVars>>

LinkPage ==     \* pages
  /\ cpc = "link" /\ walk = "pages"
  /\ Writes([a \in {Page(at)} |-> Page(After(at))])
  /\ Linked
  /\ UNCHANGED <<program, bytes, order, entry, step, rep, passVars, perfVars>>

LinkComb ==     \* comb: the lines of a page one after the other
  /\ cpc = "link" /\ walk = "comb"
  /\ Writes([a \in {Page(at) + l * kLine : l \in LineIds} |->
               IF a = Page(at) + LastLine * kLine THEN Page(After(at)) ELSE a + kLine])
  /\ Linked
  /\ UNCHANGED <<program, bytes, order, entry, step, rep, passVars, perfVars>>

\* ring: the last line of the page points at itself until it is patched
LinkRing(lines) ==
  LET Addr(l) == Page(at) + lines[l] * kLine
  IN /\ cpc = "link" /\ walk = "ring"
     /\ Writes([a \in {Addr(l) : l \in LineIds} |->
                  LET l == CHOOSE l \in LineIds : Addr(l) = a
                  IN IF l = LastLine THEN a ELSE Addr(l + 1)])
     /\ entry' = [entry EXCEPT ![at] = Addr(0)]
     /\ Linked
     /\ UNCHANGED <<program, bytes, order, step, rep, passVars, perfVars>>

Hinted(i) == entry[After(i)]

\* mutated: each page is closed in itself
NextEntryOwn(i) == entry[i]
NextEntry(i) == entry[After(i)]

\* The line that points at itself is the last of its page.
SelfLinks(i) == {a \in {Page(i) + l * kLine : l \in LineIds} : mem[a] = a}

Patch ==
  /\ cpc = "patch"
  /\ LET first == {a \in SelfLinks(at) : \A b \in SelfLinks(at) : a <= b}
     IN Writes([a \in first \cup {entry[at] + Word} |->
                  IF a \in first THEN NextEntry(at) ELSE Hinted(at)])
  /\ IF at + 1 < Links
     THEN at' = at + 1 /\ UNCHANGED <<cpc, idx>>
     ELSE at' = 0 /\ cpc' = "warm" /\ idx' = Begins
  /\ UNCHANGED <<program, bytes, order, entry, step, rep, passVars, perfVars>>

---------------------------------------------------------------------------
(* Walking.                                                                *)

Address(i) == IF walk = "lines" THEN i * kLine ELSE i
Follow(i) == mem[Address(i)]

\* Loads in one pass.  one page warms with a thousand and times two million;
\* lines times more than once around.
PassLength ==
  CASE walk = "lines" -> IF cpc = "warm" THEN Lines ELSE Lines + 1
    [] walk = "one_page" -> kLinesPerPage + 1
    [] walk = "pages" -> kPages
    [] OTHER -> kPages * kLinesPerPage
Passes == IF walk \in {"ring", "pages"} THEN kReps ELSE 1

Warm ==
  /\ cpc = "warm"
  /\ IF step + 1 < PassLength
     THEN step' = step + 1 /\ idx' = Follow(idx) /\ cpc' = cpc
     ELSE /\ step' = 0
          /\ cpc' = IF walk = "one_page" THEN "timed" ELSE "open"
          /\ idx' = IF walk = "lines" THEN 0 ELSE Follow(idx)
  /\ UNCHANGED <<program, bytes, mem, order, entry, at, rep, passVars, perfVars>>

\* perf_event_open(): permitted or not
Open ==
  /\ cpc = "open"
  /\ \E open \in BOOLEAN : dtlb' = [Closed EXCEPT !.open = open]
  /\ cpc' = "start"
  /\ UNCHANGED <<program, bytes, mem, order, entry, at, idx, step, rep, passVars,
                 misses_total>>

Started == IF dtlb.open THEN [open |-> TRUE, enabled |-> TRUE, value |-> 0] ELSE dtlb

\* Each pass counts from nothing, the times too (I4:216-219).
Start ==
  /\ cpc = "start"
  /\ dtlb' = Started
  /\ count' = NoCount /\ position' = 0
  /\ cpc' = "timed"
  /\ UNCHANGED <<program, bytes, mem, order, entry, at, idx, step, rep, hint,
                 misses_total>>

Load == dtlb' = IF dtlb.enabled THEN [dtlb EXCEPT !.value = @ + 1] ELSE dtlb

\* The column a timed load is counted in.
Bucket == IF walk = "comb" THEN (idx % kPageSize) \div kLine ELSE position
Counts == walk \in {"comb", "ring"}

PassEnds == step + 1 = PassLength

Timed ==
  /\ cpc = "timed" /\ walk # "split"
  /\ hint' = IF software_prefetch /\ position = 0
             THEN mem[idx + Word] ELSE hint
  /\ Load
  /\ idx' = Follow(idx)
  /\ count' = IF Counts THEN [count EXCEPT ![Bucket] = @ + 1] ELSE count
  /\ position' = IF walk = "ring" THEN (position + 1) % kLinesPerPage ELSE position
  /\ IF PassEnds
     THEN /\ step' = 0 /\ rep' = rep + 1
          /\ cpc' = IF walk = "one_page" THEN "unmap" ELSE "stop"
     ELSE step' = step + 1 /\ UNCHANGED <<rep, cpc>>
  /\ UNCHANGED <<program, bytes, mem, order, entry, at, misses_total>>

\* split: `idx' is the offset, `at' the page
Split ==
  /\ cpc = "timed" /\ walk = "split"
  /\ Load
  /\ IF at + 1 < kPages THEN at' = at + 1 /\ rep' = rep ELSE at' = 0 /\ rep' = rep + 1
  /\ cpc' = IF rep' = kReps THEN "stop" ELSE "timed"
  /\ UNCHANGED <<program, bytes, mem, order, entry, idx, step, passVars, misses_total>>

\* read() of the counter may fail; then the pass counts as without a miss.
Stop ==
  /\ cpc = "stop"
  /\ dtlb' = [dtlb EXCEPT !.enabled = FALSE]
  /\ \E read \in {0, dtlb.value} : misses_total' = misses_total + read
  /\ cpc' = IF rep < Passes THEN "start" ELSE "unmap"
  /\ UNCHANGED <<program, bytes, mem, order, entry, at, idx, step, rep, passVars>>

\* The counter is closed as the function is left.
Unmap ==
  /\ cpc = "unmap"
  /\ bytes' = 0 /\ mem' = <<>>
  /\ dtlb' = Closed
  /\ cpc' = "returned"
  /\ UNCHANGED <<program, order, entry, at, idx, step, rep, passVars, misses_total>>

Returned == cpc = "returned" /\ UNCHANGED chaseVars

Next ==
  \/ Map \/ MapFails
  \/ LinkLine \/ LinkPage \/ LinkComb
  \/ \E lines \in Orders(kLinesPerPage) : LinkRing(lines)
  \/ Patch
  \/ Warm
  \/ Open \/ Start
  \/ Timed
  \/ Split
  \/ Stop
  \/ Unmap
  \/ Returned

Spec == Init /\ [][Next]_chaseVars

---------------------------------------------------------------------------
(* Properties.                                                             *)

Walking == cpc \in {"warm", "timed"} /\ walk # "split"

\* What the chain is to go through, as values of idx.
Cells ==
  CASE walk = "lines" -> 0..(Lines - 1)
    [] walk = "one_page" -> {l * kLine : l \in LineIds}
    [] walk = "pages" -> {Page(i) : i \in 0..(kPages - 1)}
    [] OTHER -> {Page(i) + l * kLine : i \in 0..(kPages - 1), l \in LineIds}

Orbit == LET n == Cardinality(Cells)
             o[k \in 0..n] == IF k = 0 THEN idx ELSE Follow(o[k - 1])
         IN o

\* The first unit of the word that the next load of split reads.
SplitAddress == at * kPageSize + idx

\* The chain is one ring through every cell, whatever the shuffles (I2:146,
\* I3:143, I4:192): following it from anywhere visits each once and comes back.
\* Nothing is read outside the region.
OneRing ==
  /\ Walking =>
       /\ idx \in Cells
       /\ Range(Orbit) = Cells
       /\ Orbit[Cardinality(Cells)] = idx
  /\ cpc = "timed" /\ walk = "split" =>
       SplitAddress + Word <= bytes

\* What is counted where (I3:164, I4:216-231).  ring is at position 0 exactly
\* when it enters a page, and enters it where the hint that it prefetched a page
\* earlier said.  At the end of a pass every column has a sample of each page.
InStep ==
  /\ cpc = "timed" /\ walk = "ring" =>
       /\ position = 0 <=> idx \in Range(entry)
       /\ software_prefetch /\ position = 0 /\ hint # -1 => hint = idx
  /\ cpc = "stop" /\ Counts => \A b \in LineIds : count[b] = kPages

\* What is reported as misses is those of whole timed passes, never of warming or
\* of a pass before; without a counter it is 0, and no counter is left open.
Loads == IF walk = "split" THEN kReps * kPages ELSE PassLength
LoadsSoFar == IF walk = "split" THEN rep * kPages + at ELSE step

MissesOfPasses ==
  /\ cpc = "timed" /\ dtlb.open => dtlb.enabled /\ dtlb.value = LoadsSoFar
  /\ cpc = "stop" /\ dtlb.open => dtlb.value = Loads
  /\ cpc \in {"start", "unmap"} =>
       /\ \E k \in 0..rep : misses_total = k * Loads
       /\ ~dtlb.open => misses_total = 0
       /\ ~dtlb.enabled
  /\ cpc = "returned" => dtlb = Closed
=============================================================================
