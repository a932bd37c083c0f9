---------------------------- MODULE Computations ----------------------------
(***************************************************************************)
(* The small algorithms of the worksheets, each beside what it is supposed *)
(* to compute: the loops of K4, the folds of K1 and K3, the comparisons of *)
(* K2, the growth of a vector in B1 and F2, the text buffer of A1 and F2,  *)
(* the loops of C1, C2 and C4 over containers, and the percentiles and     *)
(* medians of part I.  A computation is one step.                          *)
(*                                                                         *)
(* Unsigned numbers have Width bits.  In K4's table a 32-bit word is the   *)
(* set of its bits that are 1.                                             *)
(***************************************************************************)
EXTENDS Integers, SequencesExt, FiniteSetsExt

CONSTANTS
  Width,          \* of std::size_t and std::uint64_t
  MaxArgs         \* arguments in a pack, elements in a container

Modulus == 2^Width

---------------------------------------------------------------------------
(* K4.                                                                     *)

\* while (exp--) result *= base, also of power_forced()
power(base, exp) ==
  LET result[e \in 0..exp] == IF e = 0 THEN 1 ELSE (result[e - 1] * base) % Modulus
  IN result[exp]

\* while (v) { n += v & 1; v >>= 1; }
popcount_dual(word) ==
  LET n[v \in 0..word] == IF v = 0 THEN 0 ELSE (v % 2) + n[v \div 2]
  IN n[word]

transient_allocation(n) ==
  LET scratch == [i \in 1..n |-> (i - 1) * (i - 1)]
  IN FoldLeft(+, 0, scratch)

Polynomial == {5, 8, 9, 15, 19, 20, 21, 23, 24, 26, 27, 28, 29, 31}   \* 0xEDB88320u
ShiftRight(c) == {bit - 1 : bit \in c \ {0}}

\* mutated: the bit is looked at after the shift
ReducedLate(c) ==
  LET s == ShiftRight(c) IN IF 0 \in s THEN SymDiff(Polynomial, s) ELSE s
Reduced(c) == IF 0 \in c THEN SymDiff(Polynomial, ShiftRight(c)) ELSE ShiftRight(c)

crc_entry(i) ==
  LET c[k \in 0..8] == IF k = 0 THEN i ELSE Reduced(c[k - 1])
  IN c[8]

---------------------------------------------------------------------------
(* K3 and K1.                                                              *)

\* The bytes of the object that append() and append_bytes() read, one for each
\* i < len: if (++j == object_size) j = 0.
append_bytes(object_size, len) ==
  LET j[i \in 0..len] ==
        IF i = 0 THEN 0 ELSE IF j[i - 1] + 1 = object_size THEN 0 ELSE j[i - 1] + 1
  IN [i \in 1..len |-> j[i - 1]]

Plus(a, b) == (a + b) % Modulus
sum_recursive(vs) == FoldRight(Plus, Front(vs), vs[Len(vs)])
sum_fold(vs) == FoldLeft(Plus, 0, vs)

Minus(a, b) == a - b
fold_left(vs) == FoldLeft(Minus, Head(vs), Tail(vs))
fold_right(vs) == FoldRight(Minus, Front(vs), vs[Len(vs)])

---------------------------------------------------------------------------
(* K2: Version with what Comparable makes of its == and <.                 *)

Equal(a, b) == a.major = b.major /\ a.minor = b.minor
Less(a, b) == IF a.major # b.major THEN a.major < b.major ELSE a.minor < b.minor

Compared(a, b) ==
  [eq |-> Equal(a, b), lt |-> Less(a, b), ne |-> ~Equal(a, b),
   gt |-> Less(b, a), le |-> ~Less(b, a), ge |-> ~Less(a, b)]

---------------------------------------------------------------------------
(* B1, F2: n elements are added to an empty vector, which doubles when it  *)
(* is full.  Growing moves the elements if that cannot throw, and copies   *)
(* them otherwise; push_back(T{}) moves its argument in.                   *)

Grown(v, nothrow_move, push_back) ==
  LET grows == v.size = v.capacity
      old == IF grows THEN v.size ELSE 0
  IN [size |-> v.size + 1,
      capacity |-> IF ~grows THEN v.capacity
                   ELSE IF v.size = 0 THEN 1 ELSE 2 * v.size,
      copies |-> v.copies + (IF nothrow_move THEN 0 ELSE old),
      moves |-> v.moves + (IF nothrow_move THEN old ELSE 0) + (IF push_back THEN 1 ELSE 0)]

Adding(n, nothrow_move, push_back) ==
  LET v[i \in 0..n] ==
        IF i = 0 THEN [size |-> 0, capacity |-> 0, copies |-> 0, moves |-> 0]
        ELSE Grown(v[i - 1], nothrow_move, push_back)
  IN <<v[n].copies, v[n].moves>>

---------------------------------------------------------------------------
(* C1, C2, C4.                                                             *)

\* The iterator goes on from what erase() returns, or by one (C1:15-20).  A map
\* is the sequence of its keys; `it' is an index into it.
EraseLoop(keys) ==
  LET walk[n \in 0..Len(keys)] ==       \* after n rounds: the map and it
        IF n = 0 THEN <<keys, 1>>
        ELSE LET m == walk[n - 1][1]
                 it == walk[n - 1][2]
             IN IF m[it] = 2 THEN <<RemoveAt(m, it), it>> ELSE <<m, it + 1>>
  IN walk[Len(keys)][1]

\* std::remove(): what is kept moves to the front, and the size stays; erase()
\* then cuts off what is behind the returned iterator (C2:9-18, C1:8).
RemoveThenErase(v) ==
  LET Step(s, x) == IF x = 2 THEN s ELSE [v |-> [s.v EXCEPT ![s.to] = x], to |-> s.to + 1]
      removed == FoldLeft(Step, [v |-> v, to |-> 1], v)
  IN <<Len(removed.v), SubSeq(removed.v, 1, removed.to - 1)>>

\* e.size() - 1 (C4:13)
SizeMinusOne(size) == (size - 1) % Modulus

---------------------------------------------------------------------------
(* A1, F2: a buffer of `size' characters, of which NUL is 0.               *)

strncpy(data, text, n) ==
  [i \in DOMAIN data |->
     IF i > n THEN data[i] ELSE IF i <= Len(text) THEN text[i] ELSE 0]

Buffer(size) == [i \in 1..size |-> 0]
set(data, text) ==
  [strncpy(data, text, Len(data) - 1) EXCEPT ![Len(data)] = 0]

\* What is printed: up to the first NUL, or "<moved-from>" for a null pointer.
Null == <<>>
show(data) ==
  IF data = Null THEN <<"moved-from">>
  ELSE SubSeq(data, 1, SelectInSeq(data, LAMBDA c : c = 0) - 1)

\* a is filled twice, then b is made of it: what a and b show
Moved(size, text, other) ==
  LET a == set(set(Buffer(size), text), other)
  IN <<show(Null), show(a)>>

---------------------------------------------------------------------------
(* Part I: what is said of a list of times.                                *)

Sorted(s) == SortSeq(s, <)

\* Index f * (n - 1), truncated, counted from 0.  f is in thousandths.
Quantile(s, f) == Sorted(s)[(f * (Len(s) - 1)) \div 1000 + 1]

summarise(per_thread) ==
  LET all == FoldLeft(\o, <<>>, per_thread)
  IN IF all = <<>> THEN <<0, 0, 0, 0, 0>>
     ELSE <<Quantile(all, 500), Quantile(all, 990), Quantile(all, 999),
            Last(Sorted(all)), Len(all)>>

\* samples[kReps / 2] once they are sorted
Median(samples) == Sorted(samples)[Len(samples) \div 2 + 1]

---------------------------------------------------------------------------
(* What is computed, and what should come out.                             *)

Words == 0..(Modulus - 1)
Bits(n) == {b \in 0..30 : (n \div 2^b) % 2 = 1}
Packs == UNION {[1..n -> (0..3) \cap Words] : n \in 1..MaxArgs}
Texts == (UNION {[1..n -> {1, 2}] : n \in 0..2})
           \cup {[i \in 1..n |-> 1 + (i % 2)] : n \in 3..(MaxArgs + 1)}
Samples == {<<>>} \cup (UNION {[1..n -> {1, 2, 3}] : n \in 1..2})
             \cup {[i \in 1..n |-> (7 * i) % 11] : n \in 9..10}
Versions == [major : 0..2, minor : 0..2]

Inputs ==
       {[of |-> "power", args |-> <<b, e>>] : b \in 0..15, e \in 0..6}
  \cup {[of |-> "popcount", args |-> <<w>>] : w \in Words}
  \cup {[of |-> "transient", args |-> <<n>>] : n \in 0..10}
  \cup {[of |-> "crc", args |-> <<i>>] : i \in 0..255}
  \cup {[of |-> "append", args |-> <<s, n>>] : s \in 1..4, n \in 0..9}
  \cup {[of |-> o, args |-> <<p>>] : o \in {"sums", "folds", "remove"}, p \in Packs}
  \cup {[of |-> "compare", args |-> <<a, b>>] : a \in Versions, b \in Versions}
  \cup {[of |-> "grow", args |-> <<n, m, p>>] : n \in 0..17, m \in BOOLEAN, p \in BOOLEAN}
  \cup {[of |-> "erase", args |-> <<s>>] : s \in SUBSET (1..MaxArgs)}
  \cup {[of |-> "buffer", args |-> <<n, a, b>>] :
           n \in 1..MaxArgs, a \in Texts, b \in Texts}
  \cup {[of |-> "summary", args |-> <<a, b>>] : a \in Samples, b \in Samples}
  \cup {[of |-> "median", args |-> <<p>>] : p \in Packs}
  \cup {[of |-> "size", args |-> <<w>>] : w \in Words}

Ordered(s) == SetToSortSeq(s, <)

Result(in) ==
  LET a == in.args
  IN CASE in.of = "power" -> power(a[1], a[2])
       [] in.of = "popcount" -> popcount_dual(a[1])
       [] in.of = "transient" -> transient_allocation(a[1])
       [] in.of = "crc" -> crc_entry(Bits(a[1]))
       [] in.of = "append" -> append_bytes(a[1], a[2])
       [] in.of = "sums" -> <<sum_recursive(a[1]), sum_fold(a[1])>>
       [] in.of = "folds" -> <<fold_left(a[1]), fold_right(a[1])>>
       [] in.of = "compare" -> Compared(a[1], a[2])
       [] in.of = "grow" -> Adding(a[1], a[2], a[3])
       [] in.of = "erase" -> EraseLoop(Ordered(a[1]))
       [] in.of = "remove" -> RemoveThenErase(a[1])
       [] in.of = "buffer" -> Moved(a[1], a[2], a[3])
       [] in.of = "summary" -> summarise(a)
       [] in.of = "median" -> Median(a[1])
       [] in.of = "size" -> SizeMinusOne(a[1])

VARIABLES input, result, computed

computationVars == <<input, result, computed>>

Init ==
  /\ input \in Inputs
  /\ result = <<>> /\ computed = FALSE

Compute ==
  /\ ~computed
  /\ result' = Result(input)
  /\ computed' = TRUE
  /\ UNCHANGED input

Computed == computed /\ UNCHANGED computationVars

Next == Compute \/ Computed

---------------------------------------------------------------------------
(* Properties.                                                             *)

Total(vs) == SumFunction(vs)
Alternating(vs) == SumFunction([i \in DOMAIN vs |-> IF i % 2 = 1 THEN vs[i] ELSE -vs[i]])
Before(a, b) == 10 * a.major + a.minor < 10 * b.major + b.minor
CapacityFor(n) ==
  LET powers == {2^k : k \in 0..5} IN Min({p \in powers : p >= n})
\* The least of s with more than t thousandths of a sample at or below it.
Least(s, t) ==
  LET Below(x) == Cardinality({i \in DOMAIN s : s[i] <= x})
  IN Min({x \in Range(s) : 1000 * Below(x) > t})
Generator == {0} \cup {b + 1 : b \in Polynomial}
Multiple(q) == LET Add(k, s) == SymDiff(s, {g + k : g \in Generator})
               IN FoldSet(Add, {}, q)

\* Each algorithm computes what the worksheet says it does: a power modulo the
\* width of the type; the number of ones; the sum of squares (K4:289); the
\* remainder of i by the CRC polynomial, low powers last, after 8 divisions; a
\* cyclic index without a division (K3:95); the same sum by recursion and by a
\* fold; a left and a right fold (K1:90); the relations that <=> would give
\* (K2:305); as much of the last text as leaves room for its NUL, and none of the
\* text before; one copy or move for each place that a growth gave up; the elements
\* without the 2s, in order; percentiles by rank, and all 0 of nothing; the middle
\* one of the samples; and a huge number for what is before 0.
MatchesDefinition ==
  computed =>
    LET a == input.args
    IN CASE input.of = "power" ->
              result = IF a[2] = 0 THEN 1 ELSE (a[1] ^ a[2]) % Modulus
         [] input.of = "popcount" -> result = Cardinality(Bits(a[1]))
         [] input.of = "transient" ->
              result * 6 = (a[1] - 1) * a[1] * (2 * a[1] - 1)
         [] input.of = "crc" ->
              \E q \in SUBSET (0..7) :
                {b + 8 : b \in result} = SymDiff(Bits(a[1]), Multiple(q))
         [] input.of = "append" ->
              result = [i \in 1..a[2] |-> (i - 1) % a[1]]
         [] input.of = "sums" ->
              result = <<Total(a[1]) % Modulus, Total(a[1]) % Modulus>>
         [] input.of = "folds" ->
              result = <<2 * a[1][1] - Total(a[1]), Alternating(a[1])>>
         [] input.of = "compare" ->
              LET lt == Before(a[1], a[2])
                  gt == Before(a[2], a[1])
              IN result = [eq |-> ~lt /\ ~gt, lt |-> lt, ne |-> lt \/ gt,
                           gt |-> gt, le |-> ~gt, ge |-> ~lt]
         [] input.of = "grow" ->
              LET given == IF a[1] = 0 THEN 0 ELSE CapacityFor(a[1]) - 1
                  in == IF a[3] THEN a[1] ELSE 0
              IN result = IF a[2] THEN <<0, given + in>> ELSE <<given, in>>
         [] input.of = "erase" -> result = Ordered(a[1] \ {2})
         [] input.of = "remove" ->
              result = <<Len(a[1]), SelectSeq(a[1], LAMBDA x : x # 2)>>
         [] input.of = "buffer" ->
              LET text == a[3]
                  fits == IF Len(text) < a[1] THEN Len(text) ELSE a[1] - 1
              IN result = <<<<"moved-from">>, SubSeq(text, 1, fits)>>
         [] input.of = "summary" ->
              LET all == a[1] \o a[2]
                  n == Len(all)
              IN IF n = 0 THEN result = <<0, 0, 0, 0, 0>>
                 ELSE result = <<Least(all, 500 * (n - 1)), Least(all, 990 * (n - 1)),
                                 Least(all, 999 * (n - 1)), Max(Range(all)), n>>
         [] input.of = "median" -> result = Least(a[1], 1000 * (Len(a[1]) \div 2))
         [] input.of = "size" ->
              result = IF a[1] = 0 THEN Modulus - 1 ELSE a[1] - 1
=============================================================================
