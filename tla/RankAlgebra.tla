----------------------------- MODULE RankAlgebra -----------------------------
(***************************************************************************)
(* The ordering of a board: a rank is a string over a fixed alphabet,      *)
(* compared bytewise, with an operation that finds one between two others. *)
(* Here a rank is a sequence of digits below Base (62 in the code) and the *)
(* empty rank is an open end.                                              *)
(***************************************************************************)
EXTENDS Integers, Sequences, FiniteSets, FiniteSetsExt

CONSTANTS Base,          \* size of the alphabet
          MaxRankLength  \* longest rank the column accepts

\* The last conjunct is arithmetic: the prover knows nothing of powers.
ASSUME RankAssumption == /\ Base \in Nat /\ Base >= 4 /\ MaxRankLength \in Nat \ {0}
                         /\ \A w \in 0..8 : Base ^ w \in Nat \ {0}

Digits == 0..(Base - 1)
Initial == <<(Base \div 2) - 1>>

\* What Between returns instead of a rank: no room, and bounds the wrong way round.
Exhausted == <<Base>>
Misordered == <<Base + 1>>
IsRank(r) == \A i \in DOMAIN r : r[i] \in Digits

\* Byte order: at the first difference, or as a proper prefix.
Less(a, b) == \E i \in 1..Len(b) :
                 /\ i - 1 <= Len(a)
                 /\ \A j \in 1..(i - 1) : a[j] = b[j]
                 /\ i > Len(a) \/ a[i] < b[i]

digitAt(rank, i, def) == IF i > Len(rank) THEN def ELSE rank[i]
sliceFrom(s, i) == SubSeq(s, i, Len(s))
WithLast(r, d) == [r EXCEPT ![Len(r)] = d]

after(lo) ==
  IF lo = <<>> THEN Initial
  ELSE LET last == lo[Len(lo)]
       IN  IF last + 1 < Base - 1 THEN WithLast(lo, (last + Base) \div 2)
           ELSE IF Len(lo) + 1 > MaxRankLength THEN Exhausted ELSE lo \o Initial

before(hi) ==
  IF hi = <<>> THEN Initial
  ELSE LET first == hi[Len(hi)]
       IN  IF first > 1 THEN WithLast(hi, first \div 2)
           ELSE IF Len(hi) + 1 > MaxRankLength THEN Exhausted ELSE WithLast(hi, 0) \o Initial

\* The bounds agree up to `at'; there the midpoint, or the lower digit and something
\* after what is left of lo.
between(lo, hi) ==
  LET Low(i)  == digitAt(lo, i, 0)
      High(i) == digitAt(hi, i, Base)
      at      == Min({i \in 1..(Len(lo) + Len(hi) + 1) : Low(i) # High(i)})
      prefix  == [i \in 1..(at - 1) |-> Low(i)]
      tail    == after(sliceFrom(lo, at + 1))
  IN  IF at - 1 > MaxRankLength THEN Exhausted
      ELSE IF High(at) - Low(at) > 1 THEN prefix \o <<(Low(at) + High(at)) \div 2>>
      ELSE IF tail = Exhausted \/ at + Len(tail) > MaxRankLength THEN Exhausted
      ELSE prefix \o <<Low(at)>> \o tail

Between(lo, hi) ==
  IF lo # <<>> /\ hi # <<>> /\ ~Less(lo, hi) THEN Misordered
  ELSE IF lo = <<>> /\ hi = <<>> THEN Initial
  ELSE IF lo = <<>> THEN before(hi)
  ELSE IF hi = <<>> THEN after(lo)
  ELSE between(lo, hi)

encode(value, width) == [i \in 1..width |-> (value \div (Base ^ (width - i))) % Base]

\* n ranks evenly spread over the shortest width with room for twice as many.
Renormalise(n) ==
  IF n = 1 THEN <<Initial>>
  ELSE LET width == Min({w \in 1..8 : Base ^ w >= 2 * n})
           gap   == (Base ^ width) \div (n + 1)
           step  == IF gap < 1 THEN 1 ELSE gap
       IN  [i \in 1..n |-> encode(i * step, width)]

\* Bounds between which Between finds no rank and does not say so: the lower is open and
\* the upper ends in the lowest digit, or the upper is the lower followed by such digits.
\* Renormalise makes the former.
NothingBelow(lo, hi) ==
  /\ hi # <<>> /\ hi[Len(hi)] = 0
  /\ lo = <<>> \/ (Len(lo) < Len(hi) /\ \A i \in DOMAIN hi : hi[i] = digitAt(lo, i, 0))

\* What Between promises of two bounds in order, either of them open.
BetweenIsBetween(lo, hi) ==
  LET r == Between(lo, hi)
  IN  r # Exhausted /\ ~NothingBelow(lo, hi)
      => IsRank(r) /\ (lo = <<>> \/ Less(lo, r)) /\ (hi = <<>> \/ Less(r, hi))
=============================================================================
